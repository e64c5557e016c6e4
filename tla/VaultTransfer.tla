----------------------------- MODULE VaultTransfer -----------------------------
(***************************************************************************)
(* Sending a locked vault to a paired peer and taking it out of the relay: *)
(* the send dialog and the relay inbox of tauri-app/ui/pairing.js, with    *)
(* the Rust commands behind them (lib.rs).  One page sends, another reads. *)
(* What the two pages hand on is a payload: a vault, or a sealed vault, or *)
(* the wrapper that relay_send_to_peer puts around either.                 *)
(* The inbox holds vault envelopes only, and neither its cap nor its age   *)
(* takes any away: ChatDelivery has both kinds in one capped inbox, the    *)
(* relay's modules have expiry.  The seal box is read once more after the  *)
(* awaits, for the wording of the last alert, which is left out.           *)
(***************************************************************************)
EXTENDS PageValues

CONSTANTS
  Recipients,  \* peers of the sending page
  Reader,      \* the one of them whose inbox is modelled
  Vaults,      \* vaults a user may lock
  MaxSends     \* bound: sends begun

VARIABLES
  peerStore,  \* the store of the sending side
  json,       \* vault-encrypt-result-json: the vault on display, or None
  ticked,     \* the "Add extra seal phrase" box
  modal,      \* the rows of the dialog; {} when it is closed
  sending,    \* sendToPeer under way
  begun,      \* sends begun, which numbers them
  asked,      \* history: what was on display at every click on a peer
  direct,     \* history: payloads taken by a peer's device
  relay,      \* the reader's mailbox
  fetch,      \* the inbox button is disabled: relay_fetch_inbox is under way
  list,       \* the rows of the inbox
  acking,     \* envelopes of relay_ack_envelopes under way
  listed,     \* history: envelopes that have been in the list
  textarea    \* vault-decrypt-input: the kind of text "Open" brought there

senderVars == <<peerStore, json, ticked, modal, sending, begun, asked, direct>>
readerVars == <<fetch, list, acking, listed, textarea>>
transferVars == <<senderVars, relay, readerVars>>

Vault(v) == [kind |-> "vault", inner |-> v]
SealVault(p) == [kind |-> "sealed", inner |-> p.inner]
Wrapped(p) == [kind |-> "wrapper", inner |-> p]
IsSealed(p) == p.kind = "sealed"

Idle == [pc |-> "idle", got |-> {}]

TransferInit ==
  /\ peerStore = Recipients /\ json = None /\ ticked = FALSE /\ modal = {}
  /\ sending = {} /\ begun = 0 /\ asked = {} /\ direct = {}
  /\ relay = {} /\ fetch = Idle /\ list = {} /\ acking = {} /\ listed = {}
  /\ textarea = "empty"

---------------------------------------------------------------------------
\* The sending page

\* Nobody edits on after the last click, nor unpairs once its send has ended.
Editing == begun < MaxSends
SenderActs == Editing \/ sending # {}

\* The vault page, next to this one, fills its result panel.
Lock(v) ==
  /\ Editing /\ json # v
  /\ json' = v
  /\ UNCHANGED <<peerStore, ticked, modal, sending, begun, asked, direct, relay, readerVars>>

TickSeal ==
  /\ Editing /\ modal # {}
  /\ ticked' = ~ticked
  /\ UNCHANGED <<peerStore, json, modal, sending, begun, asked, direct, relay, readerVars>>

\* pairing_peers_list answers the click on "Send to paired peer"; who was
\* unpaired since it was read is still in the answer.
OpenSendModal ==
  /\ Editing /\ json # None
  /\ \E rows \in SUBSET Recipients : /\ peerStore \subseteq rows
                                /\ modal' = rows
  /\ UNCHANGED <<peerStore, json, ticked, sending, begun, asked, direct, relay, readerVars>>

CloseSendModal ==
  /\ Editing /\ modal # {}
  /\ modal' = {}
  /\ UNCHANGED <<peerStore, json, ticked, sending, begun, asked, direct, relay, readerVars>>

\* pairing_unpair on the Rust side; the row goes when its answer comes.
Unpair(p) ==
  /\ SenderActs /\ p \in modal \cap peerStore
  /\ peerStore' = peerStore \ {p}
  /\ UNCHANGED <<json, ticked, modal, sending, begun, asked, direct, relay, readerVars>>

RowRemoved(p) ==
  /\ SenderActs /\ p \in modal \ peerStore
  /\ modal' = modal \ {p}
  /\ UNCHANGED <<peerStore, json, ticked, sending, begun, asked, direct, relay, readerVars>>

\* The vault on display and the box are read at the click.
ClickPeer(p) ==
  /\ p \in modal /\ begun < MaxSends
  /\ begun' = begun + 1
  /\ asked' = asked \cup {[to |-> p, vault |-> json, seal |-> ticked]}
  /\ sending' = sending \cup {[id |-> begun, to |-> p, vault |-> json,
                           pc |-> IF ticked THEN "seal" ELSE "direct",
                           payload |-> Vault(json)]}
  /\ UNCHANGED <<peerStore, json, ticked, modal, direct, relay, readerVars>>

\* A send takes its next step, or ends.
Moves(s, t) == sending' = (sending \ {s}) \cup {t}
Ends(s) == sending' = sending \ {s}

\* seal_vault_cmd answers; or it fails, or no phrase is entered, and nothing
\* is sent.
SealAnswers(s) ==
  /\ s.pc = "seal"
  /\ Moves(s, [s EXCEPT !.pc = "direct", !.payload = SealVault(s.payload)])
  /\ UNCHANGED <<peerStore, json, ticked, modal, begun, asked, direct, relay, readerVars>>

SealFails(s) ==
  /\ s.pc = "seal"
  /\ Ends(s)
  /\ UNCHANGED <<peerStore, json, ticked, modal, begun, asked, direct, relay, readerVars>>

\* The dialog closes and pairing_send_vault looks the peer up and delivers; it
\* may also fail once the peer has the payload.  A failure offers the relay.
DirectSend(s) ==
  /\ s.pc = "direct"
  /\ modal' = {}
  /\ \E delivered \in BOOLEAN, answers \in BOOLEAN :
       /\ delivered => s.to \in peerStore
       /\ direct' = IF delivered THEN direct \cup {[to |-> s.to, payload |-> s.payload]}
                    ELSE direct
       /\ IF delivered /\ answers THEN Ends(s) ELSE Moves(s, [s EXCEPT !.pc = "offered"])
  /\ UNCHANGED <<peerStore, json, ticked, begun, asked, relay, readerVars>>

DeclineRelay(s) ==
  /\ s.pc = "offered"
  /\ Ends(s)
  /\ UNCHANGED <<peerStore, json, ticked, modal, begun, asked, direct, relay, readerVars>>

\* relay_send_to_peer looks the peer up again, wraps the bytes, and delivers
\* unless it fails; the envelope gets an id of its own.
RelayUnsealed(s) == Wrapped(Vault(s.vault))
RelayPayload(s) == Wrapped(s.payload)
RelaySend(s) ==
  /\ s.pc = "offered"
  /\ Ends(s)
  /\ \/ UNCHANGED relay
     \/ /\ s.to = Reader /\ Reader \in peerStore
        /\ relay' = relay \cup {[id |-> s.id, payload |-> RelayPayload(s)]}
  /\ UNCHANGED <<peerStore, json, ticked, modal, begun, asked, direct, readerVars>>

---------------------------------------------------------------------------
\* The reading page

ClickInbox ==
  /\ fetch = Idle
  /\ fetch' = [pc |-> "asked", got |-> {}]
  /\ UNCHANGED <<senderVars, relay, list, acking, listed, textarea>>

\* The relay reads the mailbox; the answer takes its time.
RelayReads ==
  /\ fetch.pc = "asked"
  /\ fetch' = [pc |-> "read", got |-> relay]
  /\ UNCHANGED <<senderVars, relay, list, acking, listed, textarea>>

\* renderInbox shows the envelopes and acks them, whatever becomes of the rows.
InboxAnswers ==
  /\ fetch.pc = "read"
  /\ fetch' = Idle
  /\ list' = fetch.got
  /\ listed' = listed \cup fetch.got
  /\ acking' = acking \cup fetch.got
  /\ UNCHANGED <<senderVars, relay, textarea>>

InboxFails ==
  /\ fetch # Idle
  /\ fetch' = Idle
  /\ list' = {}
  /\ UNCHANGED <<senderVars, relay, acking, listed, textarea>>

AckAll ==
  /\ acking # {}
  /\ relay' = {}
  /\ acking' = {}
  /\ UNCHANGED <<senderVars, fetch, list, listed, textarea>>
AckArrives ==
  /\ acking # {}
  /\ relay' = relay \ acking
  /\ acking' = {}
  /\ UNCHANGED <<senderVars, fetch, list, listed, textarea>>

AckLost ==
  /\ acking # {}
  /\ acking' = {}
  /\ UNCHANGED <<senderVars, relay, fetch, list, listed, textarea>>

\* "Open": a sealed payload is unsealed with the phrase entered, and nothing
\* happens if that fails; the result goes into the decrypt form.
Unsealed(p) == IF IsSealed(p) THEN Vault(p.inner) ELSE p
OpenRow(e) ==
  /\ e \in list
  /\ textarea' = Unsealed(e.payload).kind
  /\ UNCHANGED <<senderVars, relay, fetch, list, acking, listed>>

TransferNext ==
  \/ \E v \in Vaults : Lock(v)
  \/ TickSeal \/ OpenSendModal \/ CloseSendModal
  \/ \E p \in Recipients : Unpair(p) \/ RowRemoved(p) \/ ClickPeer(p)
  \/ \E s \in sending : \/ SealAnswers(s) \/ SealFails(s) \/ DirectSend(s)
                      \/ DeclineRelay(s) \/ RelaySend(s)
  \/ ClickInbox \/ RelayReads \/ InboxAnswers \/ InboxFails \/ AckArrives \/ AckLost
  \/ \E e \in list : OpenRow(e)

TransferSpec == TransferInit /\ [][TransferNext]_transferVars

---------------------------------------------------------------------------
\* Properties

\* The types of the state; only wrappers get into the mailbox.
TransferTypeOK ==
  /\ peerStore \subseteq Recipients /\ modal \subseteq Recipients /\ begun <= MaxSends
  /\ \A s \in sending : s.pc \in {"seal", "direct", "offered"}
  /\ \A e \in relay \cup list \cup acking : e.payload.kind = "wrapper"

\* What leaves the page, directly or through the relay after a failure
\* (pairing.js:437-507), is the vault that was on display at the click, for the
\* peer clicked, and sealed if and only if the box was ticked then, whatever is
\* locked, ticked or unpaired while the commands are under way.
Left == direct \cup {[to |-> Reader, payload |-> e.payload.inner] : e \in relay \cup listed}
SentAsAsked ==
  \A d \in Left : \E a \in asked :
    /\ a.to = d.to /\ a.vault = d.payload.inner /\ a.seal = IsSealed(d.payload)

\* What the relay no longer has was on display on the page that acked it
\* (pairing.js:581-583): the inbox acks what it has rendered, never what has
\* arrived since it was read.
GoneWasShown ==
  [][\A e \in relay \ relay' : e \in listed]_transferVars

\* "Put the (possibly-unsealed) vault JSON into the decrypt tab's textarea"
\* (pairing.js:572-573): what "Open" brings there is a vault.
OpenBringsVault == textarea \in {"empty", "vault"}
=============================================================================
