# A TLA+ development of qev-desktop

This directory holds TLA+ models of the parts of qev-desktop in which things
happen concurrently, fail half way, or arrive late, and of the file formats that
its programs must agree on: the relay server, the chat over it, the pages of
the desktop app, the vault programs (three copies of the vault page, a command
line, the proof-lock page) and the QNotify page. The models are translated from
the Rust, JavaScript and TypeScript source. TLC checks them on small instances,
and TLAPS proves the results that matter most for instances of every size.

    tlc -workers 2 -config MCSqliteStore.cfg MCSqliteStore    # one run
    tlapm SqliteStoreProofs.tla                               # one set of proofs

`PROJECT.json` lists components, runs, mutants, the map from definitions to
source lines, findings, hazards and theorems. Paths below are relative to
`src/tauri-app/src-tauri/` unless they start with `src/`.

## 1. Inventory

### The relay (`relay/src`)

A server to which a client opens one TCP connection per request, performs a
Noise XK handshake (which proves the client's static key), sends one message,
reads one answer and closes.

* **Envelope store** (`store.rs`, `sqlite_store.rs`). State: for each recipient
  key, the envelopes pending, oldest first. Operations: `put` (assigns a random
  16 byte id and enforces the cap per recipient), `get_pending`, `delete` (the
  owner's envelopes with the given ids), `evict_older_than`. Two backends:
  `InMemoryStore`, a map of queues under one tokio mutex, and `SqliteStore`, a
  table behind one mutex in which every statement commits on its own.
  `main.rs:60-126` chooses, and starts a task that evicts once an hour.
  Correct when: an envelope that was accepted disappears only because its
  recipient acked it, newer ones left no room, or it became too old; the cap
  holds; a batch holds the oldest envelopes.
* **Rate limiters** (`service.rs:39-88`). State: a token bucket per key, in
  memory. Correct when no key gets more than its allowance and a key that keeps
  asking is served in the end.
* **One-shot service** (`service.rs:144-246, 418-531`; `client.rs`;
  `message.rs`). State: the connection tasks. Every task may be preempted at
  each await: between reading the request and asking the limiter, between
  stamping an envelope and locking the store, between reading a batch and
  sending it. Correct when every request is answered and nobody's request
  touches another's mail.
* **Live sessions** (`service.rs:248-416`). A registry from keys to unbounded
  queues; a session's loop selects between its socket and its queue. Hard: the
  select drops a half-done `recv`, and packets meet a session that is ending.
* **Configuration** (`config.rs`): parsed and validated once. **WebSocket
  bridge** (`ws_bridge.rs`): a stub.

### The desktop app (`src/lib.rs`, `pairing/src`, `src/tauri-app/ui`)

* **Chat** (`lib.rs:97-150, 1330-1507`; `chat_store.rs`; `chat-ui.js:612-640`).
  State: the history of each thread in memory (`ChatStoreState`) and in
  `chat-messages.json`. Operations: `chat_send`, `chat_fetch_relay_messages`
  (polled every eight seconds without waiting for the previous poll),
  `chat_mark_read`. A change and its save are two critical sections
  (`with_write`, lib.rs:125-142), and the two halves of different commands
  interleave. Correct when no message that the relay took is lost, histories
  never lose or reorder what they hold, statuses tell the truth, and sends end.
* **Vault transfer** (`lib.rs:965-1140`, `pairing.js:340-584`). State: the vault
  on display, the send dialog, sends under way, the inbox list. A send seals (if
  the box is ticked), tries the peer directly and offers the relay if that fails;
  the inbox fetches, renders and acks at once. It shares the recipient's mailbox
  with the chat: panel and poll consume the same envelopes. Hard: what
  is read at the click and what after an await. Correct when what leaves is what
  was asked for, and what the relay lets go of was shown.
* **Peer store, identity, keystore** (`peer_store.rs`, `identity.rs`,
  `keystore.rs`). State: the peers with their trust level, and the device's
  secret, in a file and in the OS keystore.
* **Identity backup** (`identity_backup.rs`, `lib.rs:1199-1332`,
  `pairing.js:635-868`): two panels whose fields, label and buttons
  change while export, file dialogs and restore are under way. Correct when what is
  saved has a confirmed passphrase, what is restored is the file named, and
  merging loses no peer.
* **Pairing** (`invite.rs`, `handshake.rs`, `lib.rs:446-669`,
  `pairing.js:62-330`). Page state: QR rounds, each with a snapshot of the peers and a
  timer, the camera, the preview, the accept button. Hard: the snapshot races the
  timer, a preview races the next scan; inside, one side may store the peer and the
  other fail.
* **Transport** (`transport.rs`, `handshake.rs:260-338`): fragments of a large
  message over one Noise channel. Hard: order, completeness, limits.
* **Sealed payloads** (`seal.rs`), **safety numbers** (`safety.rs`): pure
  functions over cryptographic primitives. **mdns**, **push**: stubs.
* **Chat page** (`chat-ui.js`). State: a key per unlocked peer (memory only), the
  active conversation, the input bar, one phrase dialog with one promise, calls of
  `chat_get_history` and `chat_send` under way. Hard: dialogs and answers
  that come after the user has moved on. Correct when a message is sealed
  under the phrase entered for its peer and plaintext leaves the screen after a lock.

### The vault programs

One file format family (`BRY-VAULT-V1`, `-V2`, the notify format) and a chat
envelope, implemented by hand six times: `src/public-site/vault/chat.js`,
`src/landing/vault/chat.js` and `src/tauri-app/ui/chat.js` (the same page, three
copies), `src/qev-cli/lib`, `src/proof-lock-web/src/qev.ts`, and
`src/landing/notify/notify.js` (notify only). State: vault files, text lines and
recovery sheets with the user; per page the salt and nonce on display,
fields and deferred tasks; for the command line the files it overwrites in place and
the terminal in raw mode. Correct when every program opens what another locked, no
program shows anything that was not locked so, errors blame the right thing,
a rewrap retires the old phrase, and no nonce is used twice.

### QNotify

`src/landing/notify/notify.js` (`src/public-site/notify` is a copy): publishing
sealed messages to a topic; watching one with a poll every 3.5 s that does not wait for
the previous one. State: the forms, `currentTopic`, `currentPhrase`, `lastSeenTs`,
`seenIds`, the list. Correct when a message is published as it stood at the click, is
listed once, and is labelled with a phrase that opens it.

### The rest of the repository

Site verification, the Python packet protocol with its nonce registry and the
numeric packages (`src/src/bry_nfet_sx`), a dashboard, scripts and deployment files.

### How the components meet

    chat-ui.js --invoke--> lib.rs commands --ChatStoreState--> chat-messages.json
    pairing.js --invoke-->      |  RelayClient: one connection per request
      |  qevShowPhraseDialog    v
      +--> chat-ui.js      relay: handle_connection -> dispatch -> RateLimiter -> EnvelopeStore <- hourly eviction
    pairing.js <--result JSON, decrypt field--> chat.js (vault page)
    chat.js (3 copies), qev-cli, qev.ts, notify.js <--vault files carried by the user--> each other

The commands of one app share its two stores through mutexes; apps meet only in
the recipient's mailbox at the relay; connection tasks meet at the limiters and
the store; the vault programs meet only in files.

## 2. Modules

| module | models | used by |
|---|---|---|
| `Mailbox` | the promise of trait `EnvelopeStore`, whatever backend keeps it | `SqliteStore`, `RelayService` (as `Abstract`) |
| `SqliteStore` | the SQLite backend, statement by statement, and the eviction task | `MCSqliteStore`, `SqliteStoreProofs` |
| `Queues` | what the code does to a queue besides appending to it: `VecDeque::retain` | `RelayService`, `ChatDelivery`, `QueuesProofs` |
| `TokenBucket` | the arithmetic of `RateLimiter::check`, no state | `RateLimiter`, `RelayService` |
| `RateLimiter` | one key's bucket under a sequence of checks, with an observing window | `RateLimiterProofs` |
| `RelayService` | connection tasks, both limiters, the in-memory store, eviction, restart, polling clients | `MCRelayService`, `RelayServiceProofs` |
| `ChatDelivery` | two apps, their disks, the relay's inbox, overlapping polls, the inbox panel | `MCChatDelivery`, `MCChat`, `ChatDeliveryProofs` |
| `PageValues` | "no value" and a helper for answers under way | the page modules |
| `ChatUi` | the chat page | `MCChatUi`, `MCPages`, `PagesProofs` |
| `PairingPage` | the Pair tab | `MCPages`, `PagesProofs` |
| `VaultTransfer` | send dialog and inbox, with the Rust commands | `MCVaultTransfer`, `MCPages`, `PagesProofs` |
| `IdentityBackup` | backup panels, with the Rust commands | `MCPages`, `PagesProofs` |
| `NotifyPage` | the QNotify page | `MCPages`, `PagesProofs` |
| `VaultFormat` | formats, checks and codecs, as pure operators | `VaultPrograms` |
| `VaultPrograms` | the same, program by program: `Site...`, `Landing...`, `Desktop...`, `Cli...`, `ProofLock...`, `Notify...`, `Chat...` | `VaultFiles`, `QevCli`, `VaultPage`, `NotifyPage`, `ChatUi`, `VaultProgramsProofs` |
| `VaultFiles` | vault files between the programs | `MCVaultTools`, `VaultToolsProofs` |
| `QevCli` | the command line, await by await | `MCVaultTools`, `VaultToolsProofs` |
| `VaultPage` | the two forms of the vault page and their tasks | `MCPages`, `PagesProofs` |

### Mailbox

`held` is the set of pending envelopes, `asked` the acks under way, `known` the
ids ever assigned, `peak` the highest clock reading. An envelope leaves `held`
in four ways: `Acknowledge`, whose ids must be in `asked` *for the envelope's
own recipient*; `Accept` or `MakeRoom`, which drop only from the box of the
recipient and leave at least `Cap` there; `Expire`, which drops only what is
older than the cutoff of a reading that the clock has really shown; and
`Restart`, allowed by `VolatileSpec` only. It does not say that the newest
are kept: `put` of the SQLite store drops by `created_at`, which is read before
the envelope queues for the mutex, and can drop the newcomer itself.

### SqliteStore

`rows` is the committed table. `waiting` holds envelopes that a `Deliver` has
stamped (`service.rs:440-448`) and that wait for the mutex, `guard` is the
operation that owns it. `put` is `Insert` then `Trim` (COUNT and DELETE),
`delete` is `BeginDelete`, one `DeleteOne` per id, `EndDelete`; the eviction task
is `ReadForSweep` (main.rs:102-111) then `Evict`. `StatementFails` and `Crash`
may strike between any two statements, and keep what is committed. `Tick` sets
the wall clock to anything, so it also goes back. Reads (`get_pending`) change
nothing here; `RelayService` has them. `known`, `peak`, `confirmed` and `torn`
are history variables.

### TokenBucket and RateLimiter

The code keeps tokens as `f64`. The models count in units of `1/Minute` token,
one `Minute` being 60 s, so that a tick refills `Max` units exactly; a rounding
error of the floats is not modelled. A bucket holds the stored level and the
time since `last`: as in the code the level is recomputed only by `check`, and a
refused check also moves `last`.

### RelayService

A task's program counter names the await at which it may be preempted:
`dispatch` (request read), `admitted` (limiter passed), `put` (stamped and
identified), `read` (fetch admitted), `reply` (answer ready). `Open` is the end of
the handshake, so the requester `by` is a proven key. `Invalid` is a message that
decodes but that a client may not send, or with an id of a wrong length.
`Reply` needs the batch to fit into a Noise message; `ReplyTooLarge` is the
error that `Channel::send` returns otherwise; `ReplyLost` is a connection that
breaks after the request was served. `AckReceived` is the client: it
acks what its fetches brought. A message that does not decode closes
its connection and changes nothing, so it is left out.

### ChatDelivery

`mem[d][o]` and `disk[d][o]` are d's conversation with o (a peer id is the hex of
its key) in memory and on disk; every command that changes a conversation
has a step for the change (`Mutate`) and one for the save (`Persist`), which
writes whatever memory holds by then. `sender[m]` is the progress of `chat_send`,
`wire[m]` its request or answer, `poller[p]` a call of
`chat_fetch_relay_messages`, `panel[d]` what the inbox panel shows. The relay is
one step per request here; its inside is `RelayService`. An `Ack` removes
from the receiver's own inbox, which `KeepsMailbox` justifies. The rigid
variable `scenario`, one of `Scenarios`, says for a behaviour which polls and vaults
there are, how many faults it may still have, which of failed lookups, failed saves,
broken connections, silent relays, crashes, the panel and reading occur, and the limits:
`relayCap`, `maxHistory` and `fetchLimit` are 100, 500 and 50 in the code.

A request is lost in two ways. `ConnectionBreaks`: a reset or a close, which ends the wait
of whoever waits in an error (`NotAnswered`). `GoesSilent`: nothing comes any more, and nothing
ends the wait, since `one_shot` has no timeout. A `chat_send` that ends before its outcome
is on disk, by an early return, a failed save or a crash, ends as `cut`.

The mailbox keeps envelopes in the order of their arrival and displaces the first, as
`InMemoryStore` does. `SqliteStore`, the default of main.rs, orders and displaces by
`created_at`, stamped before a put waits for the store: another order only where two
Delivers are in flight at once or the clock goes back. There `NoThreadHasGaps` is a
statement about the in-memory backend.

### The pages

In every page module an `invoke`, a dialog, a timer or a file reader is two steps,
call and answer, and answers come in any order: a sequence or set of calls under way
(`calls`, `sends`, `previews`, `accepts`, `sending`, `restores`, `polls`) holds
what the closure captured, everything else is read when the answer comes, as in the
code. Bounds (`Max...`) limit how often each call is begun.

* `ChatUi`: `keys` is `phraseKeys`, `bar` the visible input bar, `dialog` the phrase dialog
  with its title and who asked (its promise), `calls` and `sends` the commands, `view` what is
  rendered. `PhraseOk` sets the key of whoever is active *by then* if the unlock
  button asked, of the peer named if pairing did. `ClassesShow` says whether
  adding a class makes an element visible: the code supposes so, and
  `index.html:1735` prevents it. With FALSE, the code as it is, nothing can be unlocked
  (`chat_dialog`); the other properties are checked and proved for both.
  `Covered` is the overlay, behind which nothing can be clicked; the keyboard reaches
  the buttons all the same.
* `PairingPage`: `rounds` has one closure per click on "Show QR" (snapshot, tick count,
  status), `previews` and `accepts` the commands under way, `pending` and `shown` the
  invite of the accept button and the one on display. Peers come by handshakes and go by the
  unpair button of the send dialog (`UnpairPeer`). The snapshot is asked for, read and answered in
  three steps; a tick's list counts as read when it answers, so that a list read earlier,
  with somebody unpaired meanwhile, is left out.
* `VaultTransfer`: a send carries its payload through `seal`, `direct` and `offered`;
  `DirectSend` may deliver and still fail; `fetch`, `list` and `acking` are the inbox. A payload is
  a vault, a sealed vault, or the wrapper of `relay_send_to_peer`. The inbox has vault envelopes
  only and loses none to cap or age: chat envelopes in the same box are in `ChatDelivery` and its
  finding, expiry in `RelayService` and `SqliteStore`. The second reading of the seal box
  (pairing.js:490, 501) only words an alert.
* `IdentityBackup`: `loaded` is `loadedBackupJson`, `label` the name displayed, `export` the one
  export (its button is disabled meanwhile), `restores` the restores. A restore may fail after
  `apply_backup` has changed the store, when the save fails (`with_write`): the page then reports a
  failure although the identity has been replaced.
* `NotifyPage`: `watch` holds `currentTopic`, `currentPhrase`, `lastSeenTs` and `seenIds`;
  `PollTimer` takes topic and time marker along, `AnswerComes` uses the watch of the moment.
  A message's number stands for its id and its time stamp.
* `VaultPage`: `enc` and `dec` are the forms; a submit defers a task (`setTimeout`), during which
  the fields may change. One behaviour shows one copy and one form.

### The vault programs

Cryptography is symbolic: a ciphertext is a record that opens only under the key, nonce and
additional data of its sealing. A vault is a record of its fields and of what is wrong with them
(`missing`, `short`, `form`). A validator is the list of its checks in the code's order; the
first that fails is the error. Each program has definitions of its own even where they name the
same operator, so that a drift of one copy is a change of that copy alone (the mutant of
`AnyProgramOpens` is one). `heard` is the phrase as the codec gets it: the command line
reads bytes in raw mode as characters (`prompt.js:108-113`), so a phrase outside ASCII is
another one there.

`VaultFiles` locks, exports (file, line, recovery sheet), rewraps, copies a chat envelope out of a
locked thread, alters and splices, and opens; a behaviour ends with the first attempt to open,
since opening changes nothing. `made` is the history of what was locked, as what text and under what
phrase. A rewrap reads and replaces the wrapped key only, so it is a rewrap of every vault
locked with that wrapped key (`WithKeyOf`), whatever became of the rest of the file. What is locked is neither empty nor under an empty phrase
(`SecretsAreLockable`), which each program refuses. `QevCli` has processes in terminals over the same files:
reading, prompts key by key (Enter, Ctrl-C, Ctrl-D, backspace, a pasted chunk of which the rest is
dropped), deriving, and printing the vault (lock without `--out`) or writing it. `writeFile` is
two steps: `OpenOutput` empties the file, `Write` writes the vault from its beginning over
what is there by then (`Over`), and what is longer keeps its tail. Files have a size, given per
text by `PrintedSize`; a rewrap keeps the size of its vault. Sizes that differ are supposed to
do so by more than a final newline, and a vault to go into one write (under 512 KiB). `WriteFails`
is a disk that is full anywhere beyond what is there.

The prompts are modelled as `prompt.js` means them, which Node does not grant. After
`setEncoding(undefined)` (prompt.js:64) chunks are strings, and a byte of a string is never equal
to Enter or Ctrl-C; and a terminal whose stdin has ended (prompt.js:178) is not read again, which
`qev lock` needs after its plaintext. `ChunksAreBytes` and `StdinOutlivesEof` stand for the two;
the run sets both to TRUE, as meant: with the values of Node no phrase would be read
at all, and nothing about the rest of the program would be said. The theorems hold for all
four pairs of values.

## 3. Runs

| run | checks | shows |
|---|---|---|
| `sqlite_store` | `TypeOK`, `CapUnlessTorn`, `KeepsMailbox` | with two users, three ids, clock readings 0..2 that may go back, cap 1, retention 1, two faults: the store implements `Mailbox`; a box exceeds its cap only by the put under way and by puts cut short since the last complete one |
| `rate_limiter` | `TypeOK`, `WindowBound`, `RefusedIsServed` | bucket of 2, three ticks a minute (a refill of 2/3 token), windows up to 6 ticks: no window admits more than a bucket and its refill; whoever keeps asking is admitted |
| `relay_promise` | `KeepsMailbox` | two users, two connections, two ids, cap 1, a clock that may go back, lost answers, restart: the service over the in-memory store implements `Mailbox!VolatileSpec` |
| `relay_fetch` | `TypeOK`, `NothingSkipped` | deliveries and fetches with limits 0 (default), 1 and 3 (over the default), answers too large or lost, restart: no envelope is handed over before an older one that is still pending |
| `relay_drains` | `MailDrains` | polling and acking under the rate limit empties the mailbox when batches fit and answers arrive |
| `chat` | `TypeOK`, `AckedUnlessByPanel`, `NoThreadHasGaps`, `SentMeansAccepted`, `HistoriesOnlyGrow` | two scenarios. Roomy: two overlapping polls, two chats, a vault, batches of 2, two failed saves or crashes: nothing is acked that was never on disk, and no thread has a gap. Tight: history cap 2, relay cap 1, broken connections, failed lookups, panel, mark-read. In both, histories only grow at the end, slide at the cap and move statuses forward, and "sent" is never shown for a message the relay did not take |
| `chat_liveness` | `SendSettles`, `ChatArrives` | two scenarios. Lossy: connections break or go silent with requests and answers, acks are lost, a vault is in the inbox. Failing: failed lookups, one failed save or crash. A send ends as sent or failed unless its command was cut short or waits for a silent relay; a chat reaches the recipient's disk or is displaced |
| `vault_programs` | `TypesOK`, `OnlyTheTruth`, `AnyProgramOpens`, `BlamesContentRightly`, `RotatedPhraseIsGone`, `NoncesAreFresh`; `QevKeepsItsWord`, `ReplacedOnPurpose` | two things locked or rewrapped on any program, two files, one alteration or splice, every program opening: what is shown was locked so, what was locked opens everywhere it can be read, blame is right, a rewrap retires the old phrase. The command line in two terminals over two files, two runs, vaults of two sizes, one kill or failed write: what it wrote opens as it said, unless cut short, or torn by another terminal's write |
| `pages` | `TypesOK`; `SentUnderItsPhrase`, `PlaintextIsOnItsWayOut`, `SamePhraseReads`, `NeverAskedToUnlockFirst`; `AnnouncedIsNew`, `AcceptedWasShown`; `SentAsAsked`, `GoneWasShown`; `RestoredAsNamed`, `SavedUnderConfirmed`; `PublishedAsTyped`, `NamedPhraseOpens`, `EachMessageOnce`; `PageKeepsItsWord` | the six pages, one in each behaviour, with two calls of a kind under way |
| `chat_panel`, `chat_dialog`, `vault_relayed` | one property each, violated | see findings |

**Bounds.** They are chosen so that each limit is reached: more ids than the cap
(so that `put` displaces), a vault and chats that fill a batch, a history cap that
two messages fill, two polls so that one acks under the other, two users so that
an ack can name another's envelope. A second fault is needed in `sqlite_store` so
that a put can be cut short twice before a complete one (`torn` = 2). The roomy scenario of `chat` has two
faults as well (a failed save whose message is still in memory when the app
dies), the tight one none: a crash is one load of the file, whatever the caps. Ids are drawn once: the code draws 16 random bytes, and a collision is
left out. Clock and time are bounded by `Stamps` and `Horizon`.
On the pages two peers, topics, phrases or vaults are enough for every mix-up the
properties speak of, and two calls under way for every order of answers; a third scan
(`MaxScans` = 3) and a third poll are needed so that an answer is late by one and
something happens after it. A round of "Show QR" polls once before its end (`MaxTicks` =
1, 150 in the code): two rounds overlap, and a list may answer after the end; a round's
second list, which may announce twice, is left to the theorem `SpecAnnouncedIsNew`. Two of
the three key strengths are tried (`Strengths`); they matter for a change between click
and task only. The theorems hold for any number of polls and all strengths. In
`vault_programs` one alteration may be a splice of two vaults under one phrase, the worst
case of damage.

**Deadlock.** Checked except where the system may stop: in the chat runs,
when no message is left to send and the inboxes are empty, and on the pages and with the
vault programs, when the user does nothing more and the bounds are used up.

**Symmetry** is used in runs without temporal liveness properties only, on sets
whose members the model treats alike (users, polls, messages, peers, phrases, terminals).

**Fairness.**
* `RateLimiter!FairSpec`: time passes, and the client polls on (`setInterval`,
  chat-ui.js:615-635). Nothing says in which order.
* `RelayService!FairSpec`: weak for time and for every connection task (tokio
  runs a task that is ready; each step of one ends), strong for a client's
  polls and its acks: both are disabled again and again while other connections
  occupy the model's few tasks, whereas the code has a task for every
  connection.
* `ChatDelivery!FairSpec`: weak for the steps of a started command (Tauri runs it to
  its end), for the relay, and for the error of a connection that was reset or
  closed (`wire = "broken"`); strong for an ack's arrival: the polls retry it for
  ever, and TCP does not lose every one. There is none on composing, reading,
  the panel, losses, failed saves, failed lookups or crashes, and none that ends
  the wait for a relay gone silent: `client.rs:162-190` has no timeout or keep-alive.
* `ChatArrives` supposes fewer foreign envelopes than `fetchLimit` (in the run:
  one, limit 2). With as many it does not hold: the poll always takes the
  50 oldest and leaves what is not chat-v1 in the inbox (lib.rs:1457-1471), so
  50 pending vaults hold up every later chat until the panel or the eviction
  removes them.
* `SendSettles` names the two ends at which the code leaves a message at "sending"
  for good, since only its own command changes it: a `chat_send` that was cut short
  (`cut`: a `?` at lib.rs:1361-1394, a failed save, a crash), and one that waits for a silent relay
  (`LeftWaiting`). The run has lookups, saves and crashes that fail, and silent relays;
  without either exception TLC finds a counterexample.

**Mutants.** Each module holds, beside a definition, a form of it with a
plausible mistake: an off-by-one in the cap, an ack without the owner's check, a
failed insert that is ignored, a status that is set in a stale snapshot, a
refused check that forgets time, a batch taken from the wrong end, a field read after an
await instead of before, a salt that is not renewed, a copy of the format that drifts.
`PROJECT.json` names the property that each one breaks.

## 4. Findings

* **`chat_panel`** — opening the inbox panel acks every envelope it fetched, chat
  included (pairing.js:575-590), and chat is shown or saved by the poll only:
  the message is gone.
* **`chat_dialog`** — the phrase dialog has an inline `display:none` (index.html:1735) that
  outranks the class which `showPhraseDialog` adds; nothing clears it, so the dialog never
  shows, and no conversation can be unlocked. The input bar (index.html:1724) has the same.
* **`vault_relayed`** — `relay_send_to_peer` wraps the vault (lib.rs:1013-1024) and nothing on the
  other side unwraps it: "Open" puts the wrapper into the decrypt form, which refuses it, and a
  sealed vault is not recognised as sealed. The envelope has been acked by then.

### Known divergences without a run of their own

Reproducible with the models here:

* A `FetchResult` is sent as one Noise message; `Channel::send` refuses more than 65519
  bytes (handshake.rs:276-282). Envelopes that fit one by one make a batch that is never
  answered, and the next fetch finds the same one. `MailDrains` fails with `MaxMessage = 3` in
  `MCRelayDrains.cfg`.
* Each `?` between storing a message as "sending" and delivering it (lib.rs:1361-1394) returns
  without touching its status, and a relay that goes silent leaves `chat_send` waiting: the message
  stays at "sending". These are the exceptions of `SendSettles`.
* Two terminals that have opened the same path may leave a file that is no JSON after both have
  printed "wrote": the longer vault's tail stays behind the shorter one (qev.js:226, 341). This is the
  exception of `QevKeepsItsWord` for files torn while shared.
* Overlapping polls, or a lost ack, put the same message into the history twice;
  nothing compares ids (lib.rs:1485).

Noted while reading, outside what is checked:

* `src/qev-cli/README.md:15,79,82` shows a piped `qev lock`, but a phrase is refused when stdin is
  no terminal (prompt.js:46-52). A phrase outside ASCII is heard byte by byte by the command line
  and as UTF-8 by the pages, so it does not open there. A rewrap to the same phrase is reported
  as an authentication failure.
* A late `chat_get_history` renders one peer's messages in another's thread
  (chat-ui.js:396-402). A second `showPhraseDialog` drops the first promise.
* Until the snapshot of "Show QR" has answered, or when it fails, a poll announces old peers as
  newly paired (pairing.js:91-94, 117-121); `AnnouncedIsNew` speaks of rounds whose snapshot has
  been read.
* A restore whose save fails is reported as failed although memory has the new identity
  (lib.rs:1314-1323).
* After a QR timeout the page says "Try again." with the button still disabled
  (pairing.js:113); a peer that pairs again is never announced; overlapping polls announce twice; a
  double click on the scan button leaks a camera stream. An export is marked as a backup before it is
  saved (lib.rs:1243). "Shared phrase saved" is said although `qevSetPhraseForPeer` returned
  false (pairing.js:302-306). A direct send that fails after delivery is offered to the relay and
  arrives twice.
* An answer of an earlier watch brings messages of its topic into the present one and moves
  its time marker (notify.js:340-353): `EachMessageOnce` excludes such watches (`stale`).
* The word lists of the three vault pages "MUST stay byte-identical" (public-site copy,
  line 115) and are not.
* The rate limiter is called a sliding window and its limit "per
  minute" (service.rs:40, config.rs:59), yet a full bucket and its refill may both
  be spent in one minute (`WindowBound` is the exact bound); `chat_store.rs` says
  direct first and relay as fallback, while `chat_send` uses the relay only;
  `config.rs:57-67` parses limits that `main.rs:121` does not pass on.

## 5. Proofs

**`SqliteStoreProofs`**, for any users, ids, stamps, cap, retention and any number of
faults. Assumptions: `StampsAreNats`, `CapIsNat`, `MaxFaultsIsNat`. The inductive
invariant is

    IInv == TypeOK /\ Provenance /\ ReadingsArePast /\ CapUnlessTorn

`CapUnlessTorn` is not inductive alone: cardinalities mean something only
for finite boxes, and `Insert` adds exactly one row only if the id is new.
`Provenance` gives both: the rows come from known ids, one row for an id, known ids
are finitely many and distinct from those waiting. `ReadingsArePast` (stamps and
sweep readings never exceed `peak`) is what lets `Evict` and `Insert` map to
`Expire` and `Accept`, whose conditions speak of readings the clock has shown.
Lemmas: `BoxIsFinite`, `TrimLeavesCap` (what the DELETE leaves, however ties fall),
`CapWhenRowsGo`, `CapWhenPutIsCutShort`. Theorems:

* `StoreTypes`: `Spec => []TypeOK`;
* `BoxesAreBounded`: `Spec => []CapUnlessTorn`;
* `StoreKeepsMailbox`: `Spec => KeepsMailbox`, the refinement. Its step lemma
  maps `Insert` to `Accept` with nothing dropped, `Trim` to `MakeRoom`,
  `BeginDelete` to `Ask`, `DeleteOne` to `Acknowledge`, `Evict` to `Expire`, an end, a
  failure or a crash to the `Acknowledge` that withdraws what was asked, the
  rest to stuttering.

**`RateLimiterProofs`**: `WindowsAreBounded`, `Spec => [](TypeOK /\ WindowBound)`
for any maximum, ticks per minute and horizon. `WindowBound` is strengthened
to conservation: units admitted plus units in the bucket (with those that
have accrued) never exceed a full bucket plus the window's refill
(`UnitsConserved`).

**`QueuesProofs`** are lemmas about queues of any length. `RetainProperties` says what
`VecDeque::retain` leaves: a part of the queue, in its order, with every member that
is wanted and no other. Its loop is a recursive function, so the proof is an
induction on the length; the library's theorem takes the property as an operator, which
the provers cannot instantiate, so `NumbersByInduction` states induction for a *set* of
numbers instead. `PartOf(r, s)` (r is left of s when some members go) is closed under
everything the code does to a queue (`RetainIsPart`, `StretchIsPart`,
`AppendKeepsParts`, `PartOfPart`), and `PartKeepsOrder` is what the services rest on: two members
of a part stand in it as they stood before.

**`RelayServiceProofs`**, for any users, ids, connections, caps, limits and any number
of restarts. Assumptions: those of the module, with `LimitersAreNats` (the limiters' maxima
are counts). The inductive invariant is

    IInv == Types /\ IdsAreFresh /\ ReadingsArePast /\ QueuesAreParts /\ NothingOnItsWaySkips

`IdsAreFresh`: an id belongs to one stamped or queued envelope, which `Abstract!Accept` asks for.
`QueuesAreParts`: a queue is part of the history `order` in which the store took envelopes.
`NothingOnItsWaySkips` speaks of the answers that wait to be sent: whatever the store does
meanwhile, no older envelope that is still there is missing from them. Theorems:

* `RelayTypes`: `Spec => []TypeOK`;
* `FetchesSkipNothing`: `Spec => []NothingSkipped`;
* `RelayKeepsMailbox`: `Spec => KeepsMailbox`, the refinement of `Mailbox!VolatileSpec`: `Put` maps to
  `Accept`, `Delete` to `Acknowledge`, `Evict` to `Expire`, `Restart` to itself; dispatching an ack to
  `Ask`; everything else to stuttering.

**`ChatDeliveryProofs`**, for any apps, messages, polls, scenarios, caps and any number of faults.

* `ChatTypes`, `SentWasAccepted`: from `IInv`, that is types, caps, `TakenOnce` (the relay takes a
  message once, and an answer is on the wire only for what it took), `InboxesAreParts` and
  `ReceivedWasTaken`.
* `ConversationsGrow`: from `IInv` with `StillSending` (until its send is settled a message
  is recorded as "sending" or has slid out, so `update_status` moves it forward),
  `RecordsAreDirected` (what came in is delivered or read, so `mark_all_read` moves it forward)
  and `DiskIsPast` (memory has grown from the file, so a crash goes back to a past). It supposes that
  nobody writes to himself (`From[m] # To[m]`): `update_status` takes the first record with the id, and in
  a conversation with oneself, once the outgoing record has slid out, that is the incoming one,
  whose status would go back from "read" to "sent". In the runs one app writes to another.
* `AckedWasSaved` and `NoGapIsLeft`: from `IInv /\ NothingIsLost`. What an app acks it has saved,
  although its save may have been another command's (`AcksAreSaved`); what is missing from an inbox is
  saved or displaced (`AckedIsSaved`); and nothing overtakes on the way from relay to poll (`BatchesFollow`),
  to memory (`ReceivedFollow`), to disk (`SavedFollow`): an earlier message to the same app is gone,
  or stands before it in the same place. The three need each other: a batch leaves nothing out because the
  inbox is a part of the relay's log, memory leaves nothing out because a batch is taken from
  its front, and the disk is what memory was. Both theorems suppose `NothingSlidesOutUnsaved`: no step pushes a
  received message that was never on disk out of a full conversation. In the code 500 other messages
  of one conversation would have to be added between the two halves of one `with_write`, none of
  whose saves succeeds. Without it the theorems are false: the message slides out, the save
  succeeds without it, and the poll acks it. The run `chat` checks both properties
  with room for everything, and with the caps reached but the panel open.

**`PagesProofs`**: the theorems hold for any peers, phrases, vaults, files, topics, texts and
inputs and any bounds, with answers in any order. Assumptions: an empty phrase makes no key
(`PhrasesAreNotEmpty`; used by `SpecSamePhraseReads` only), and what is put into the decrypt form has one
of the forms its parser tells apart, and the strengths tried are on offer (`InputsHaveForms`,
`StrengthsAreOffered`; vault page only). Each inductive invariant
says what is true of the calls under way.

* Chat page: `SpecSentUnderItsPhrase`, `SpecPlaintextIsOnItsWayOut`,
  `SpecNeverAskedToUnlockFirst`. The key of a peer is one entered for it (`KeysAreEntered`),
  although an unlock sets the key of whoever is active when the dialog closes; that needs
  `DialogNamesActive`: while the unlock dialog is open, the active conversation is the one it
  names, or none, because the overlay keeps others from being opened. `BarMeansUnlocked`
  gives the third.
  `SpecSamePhraseReads` says that both devices of a conversation read it: the keys are of their
  peer (`KeysFit`), what is sent and stored is sealed with such keys (`SendsAreSealed`,
  `ThreadsAreSealed`), hence a bubble shows its text if and only if the phrase is the writer's
  (`BubbleReads`), and what is copied of a locked one opens on the vault page (`CopyOpens`).
* Vault transfer: `SpecSentAsAsked`, from `SendsAsked` (a send under way is due to hand
  over what was asked), `DirectAsked` and `RelayedAsked`; `SpecGoneWasShown`, from `AckedIsShown`.
* Identity backup: `SpecRestoredAsNamed`, from `LabelIsLoaded`, `RestoresChosen` and
  `OwnChosen`; `SpecSavedUnderConfirmed`, from `ExportConfirmed`; `SpecPeersAreKept`, an action
  property.
* Pairing: `SpecAcceptedWasShown`, from `Previewed` (the accept button holds what
  is on display) and `UnderWay`; `SpecAnnouncedIsNew`, from `SnapshotsReachBack` (a snapshot that was
  taken has whoever was a peer at the click and has been one ever since, through unpairings).
* QNotify: `SpecPublishedAsTyped`, `SpecNamedPhraseOpens`, `SpecEachMessageOnce`. `EachMessageOnce` speaks of what has been shown;
  the invariant adds what every poll under way is about to show. A message that waits for libsodium
  is marked as seen, and is neither on display nor waiting in another poll (`AboutToShow`). What a
  poll asked for starts where the watch has seen everything (`AnswersFollow`), and so does each
  message that it holds back (`QueuesFollow`); that is why moving `lastSeenTs` to the newest one
  shown skips nothing. Both hold only while no answer to an earlier watch has come in (`stale`):
  such an answer does move `lastSeenTs` over messages that were never shown, see §4. `ShowIs` says
  what the loop of `pollOnce` comes to, and the lemmas about it are shared by a poll's answer and a
  rendering that goes on. The invariant was model-checked first, with three messages, two watches and
  three polls (11.7 million states).
* Vault page: `SpecPageKeepsItsWord`. What is on display for the next vault was drawn after
  everything that has been used (`Unused`), so no two vaults share a salt or a nonce although the buttons,
  the typing and two waiting tasks interleave; the encrypt button is off only for a weak phrase or
  while a task waits (`Gates`), and no phrase of the generator is weak (`GeneratedIsStrong`); and every
  answer of a codec is the content of the vault or one of its errors (`VaultAnswers`,
  `InputsTell`), which is never "Decrypted".

**`VaultProgramsProofs`** are lemmas about the codecs, for every vault, phrase, text and random value,
and whatever damage. A validator is a list of checks, so what it lets through is what each of
them lets through (`PassingTogether`, `PassingMeansNone`, `ValidateV2Is` and its like), and
a decryption answers with an error or with what its layers say (`V2Answers`, `V1Answers`,
`NotifyAnswers`, `ChatAnswers`). What the five programs lock is a whole vault under the phrase
given (`ProgramsLock`, `V2Vault`); a whole vault opens under its phrase and is refused under any other
(`V2Opens`, `V1Opens`, `NotifyOpens`); a rewrap of one is one under the new phrase (`V2Rewraps`);
the additional data of the formats never agree (`FormatsApart`), and those of two V2 vaults only
if every announced field does (`SameBinding`).

**`VaultToolsProofs`** prove the two models over these codecs.

* Files, for any texts, phrases, modes, number of files, alterations, splices and rewraps; assumption
  `SecretsAreLockable`: `ShowsOnlyTheTruth`, `OpensAnywhere`, `BlamesRightly`, `RotationHolds`,
  `NoncesStayFresh`. None of the properties is inductive: each speaks of one attempt to open or of pairs of
  locked things, and files are damaged before. The invariant `FilesInv` is `HistoryInv`, `PagesInv` and
  `FileIsOf` of each file. `HistoryInv`: what was locked is as a program makes it (`MadeSo`), with
  a salt and nonces that are not drawn again (`Drawn`); a rewrap is of something locked before under
  another phrase (`OfHistory`); and two things that share a salt or a content nonce are one vault,
  before and after rewraps (`Kin`). `PagesInv`: what a page has on display for the
  next vault is fresh. `FileIsOf`: however often a file was altered and spliced, each of its two
  ciphertexts is broken or was made by a program. The rest is cryptography: a ciphertext
  that opens was made for this phrase, with the header the file carries, hence it is of something
  locked with that header.
* Command line, for any paths, terminals and phrases, any keys, any number of runs, kills and
  failed writes, from `TextsHaveSizes`: `CliKeepsItsWord` and `CliReplacesOnPurpose`.
  "Locked, by someone, under a phrase" (`LockedUnder`) is all there is to say of a whole file,
  however often it was rewrapped: `LockedOpens` and `LockedRewraps` give what unlock and rewrap
  make of it. The invariant `CliInv` says of each process that it has as many phrases as it asked
  for (`Counts`), holds a vault as it was locked (`HasRead`), writes only what opens under the phrase
  it confirmed (`HasMade`) and explains a failed unlock as it is (`Explains`); and of each file that
  it is absent, torn or whole (`FileOK`), and opens as last announced unless a write into it is under
  way, was cut short, or met another one and left it torn (`Kept`). `Alone` is what
  tells the two cases of a write apart: a file that only one process has open is empty when it writes. `OneMoves` and `OneWrites` are the two kinds of steps, of one
  process among others.

Model-checked only: liveness (`RefusedIsServed`, `MailDrains`, `SendSettles`,
`ChatArrives`), which needs fairness and ENABLED, out of the prover's reach; and the types of the
states of the pages and the vault tools (`TypesOK` of `MCPages` and `MCVaultTools`), of which the
invariants above prove what they need.

## 6. Not modelled

* **Live sessions** (service.rs:248-416): registry, queue, a select that drops a half-done `recv`.
  They bypass the store, so mail is not affected, and no command of the app opens one. A model would
  state: a packet is delivered in order, or its sender hears `LinkUnreachable`.
* **Inside pairing and the peer store**: the handshake, invites and their expiry, trust levels, the
  migration of the secret into the OS keystore (which never clears the file's copy). The pages' models have only its outcomes.
  **Fragmentation** (transport.rs:147-235).
* Of the pages: peer list, badges and previews of the chat; the backup banner; push, service worker,
  share card and demo of QNotify; file payloads and the inspector of the proof-lock page; `app.js`.
  Of the command line: `gen-phrase`, `self-test`, usage.
* The packet protocol and its nonce registry, numeric estimation over floats, configuration
  parsing, site verification, stubs, layout, packaging.
* Cryptographic primitives: symbolic in the vault models, trusted elsewhere.

An abstraction to keep in mind: a codec is modelled on the fields a check or a key depends on, not
on encodings.

Next would be a model `LinkSession` of the live sessions.
