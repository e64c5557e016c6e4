------------------------------ MODULE PairingPage ------------------------------
(***************************************************************************)
(* The Pair tab of the desktop app, tauri-app/ui/pairing.js: showing a QR  *)
(* code and polling the list of peers until somebody has scanned it, and   *)
(* scanning or pasting an invite, previewing it and accepting it.  The two *)
(* halves share only the list of peers on the Rust side, so a behaviour    *)
(* shows one of them.  Peers are also unpaired, in the list behind "Send   *)
(* to paired peer".  Every invoke is a call and an answer, and answers come*)
(* in any order.                                                           *)
(***************************************************************************)
EXTENDS PageValues

CONSTANTS
  Invites,      \* invites that may be scanned or pasted; one per peer
  MaxTicks,     \* pollCount's limit, 150 in the code
  MaxRounds,    \* bound: clicks on "Show QR"
  MaxScans,     \* bound: invites brought before the page
  MaxWaiting    \* bound: answers under way of one kind

VARIABLES
  half,       \* the half of the tab this behaviour is about: "qr" or "scan"
  paired,     \* peers in the store of the Rust side
  showOff,    \* the "Show QR" button is disabled
  rounds,     \* the closures of showBtn.onclick, one per click
  qrStatus,
  announced,  \* history: what qrStatus has announced
  stream,     \* scanStream: None or the number of a stream
  cameras,    \* streams running
  asking,     \* getUserMedia calls under way
  previews,   \* pairing_preview_invite under way
  pending,    \* pendingPreview
  shown,      \* the preview on display
  acceptOff,  \* the accept button is disabled
  accepts,    \* pairing_accept_invite under way
  result,     \* the peer in the result box
  scans,      \* counted for the bound
  accepted    \* history: invites accepted and what was on display then

qrVars == <<showOff, rounds, qrStatus, announced>>
cameraVars == <<stream, cameras, asking>>
scanVars == <<previews, pending, shown, acceptOff, accepts, result, scans, accepted>>
pairingVars == <<half, paired, qrVars, cameraVars, scanVars>>


PairingInit ==
  /\ half \in {"qr", "scan"}
  /\ paired \in {{}} \cup {{p} : p \in Invites}
  /\ showOff = FALSE /\ rounds = <<>> /\ qrStatus = "" /\ announced = {}
  /\ stream = None /\ cameras = {} /\ asking = 0
  /\ previews = <<>> /\ pending = None /\ shown = None /\ acceptOff = FALSE
  /\ accepts = <<>> /\ result = None /\ scans = 0 /\ accepted = {}

---------------------------------------------------------------------------
\* Showing a QR code

\* The snapshot is asked for first and not waited for.  stayed is a history:
\* the peers of the click that have been peers ever since.
ClickShowQr ==
  /\ half = "qr"
  /\ ~showOff /\ Len(rounds) < MaxRounds
  /\ showOff' = TRUE
  /\ rounds' = Append(rounds, [stayed |-> paired, before |-> {}, snapshot |-> "asked",
                               qr |-> "asked", listener |-> FALSE,
                               polling |-> FALSE, ticks |-> 0, lists |-> 0])
  /\ qrStatus' = "starting"
  /\ UNCHANGED <<half, paired, announced, cameraVars, scanVars>>

SnapshotIsTaken(k) ==
  /\ rounds[k].snapshot = "asked"
  /\ rounds' = [rounds EXCEPT ![k].before = paired, ![k].snapshot = "taken"]
  /\ UNCHANGED <<half, paired, showOff, qrStatus, announced, cameraVars, scanVars>>

SnapshotAnswers(k) ==
  /\ rounds[k].snapshot = "taken"
  /\ rounds' = [rounds EXCEPT ![k].snapshot = "read"]
  /\ UNCHANGED <<half, paired, showOff, qrStatus, announced, cameraVars, scanVars>>

SnapshotFails(k) ==
  /\ rounds[k].snapshot = "asked"
  /\ rounds' = [rounds EXCEPT ![k].snapshot = "failed"]
  /\ UNCHANGED <<half, paired, showOff, qrStatus, announced, cameraVars, scanVars>>

\* A listener of its own for every QR code; the poll begins with the answer.
QrAnswers(k) ==
  /\ rounds[k].qr = "asked"
  /\ rounds' = [rounds EXCEPT ![k].qr = "shown", ![k].listener = TRUE, ![k].polling = TRUE]
  /\ qrStatus' = "waiting"
  /\ UNCHANGED <<half, paired, showOff, announced, cameraVars, scanVars>>

QrFails(k) ==
  /\ rounds[k].qr = "asked"
  /\ rounds' = [rounds EXCEPT ![k].qr = "failed"]
  /\ qrStatus' = "failed"
  /\ showOff' = FALSE
  /\ UNCHANGED <<half, paired, announced, cameraVars, scanVars>>

\* Somebody scans the code, a new peer or one that pairs again: one
\* connection per listener (external to the page).
HandshakeCompletes(k, p) ==
  /\ rounds[k].listener
  /\ rounds' = [rounds EXCEPT ![k].listener = FALSE]
  /\ paired' = paired \cup {p}
  /\ UNCHANGED <<half, showOff, qrStatus, announced, cameraVars, scanVars>>

\* Every two seconds a list is asked for, whether or not the last one came.
PollTick(k) ==
  /\ rounds[k].polling /\ rounds[k].lists < MaxWaiting
  /\ IF rounds[k].ticks = MaxTicks
     THEN /\ rounds' = [rounds EXCEPT ![k].polling = FALSE]
          /\ qrStatus' = "timed out, try again"
     ELSE /\ rounds' = [rounds EXCEPT ![k].ticks = @ + 1, ![k].lists = @ + 1]
          /\ UNCHANGED qrStatus
  /\ UNCHANGED <<half, paired, showOff, announced, cameraVars, scanVars>>

\* A tick's list counts as read as it answers; read before, it could also name
\* somebody unpaired meanwhile.  A peer that the snapshot does not have, or
\* anybody before its answer, is announced, with its safety number if that is
\* to be had, and ends the poll.  An answer after the end is treated like any
\* other.
PeersBefore(k) == IF rounds[k].snapshot = "read" THEN rounds[k].before ELSE {}
NewPeersStale(k) == paired \ PeersBefore(1)
NewPeers(k) == paired \ PeersBefore(k)
PollAnswers(k) ==
  /\ rounds[k].lists > 0
  /\ IF NewPeers(k) = {}
     THEN /\ rounds' = [rounds EXCEPT ![k].lists = @ - 1]
          /\ UNCHANGED <<showOff, qrStatus, announced>>
     ELSE \E p \in NewPeers(k) :
          /\ rounds' = [rounds EXCEPT ![k].lists = @ - 1, ![k].polling = FALSE]
          /\ announced' = announced \cup {[round |-> k, peer |-> p,
                                           snapshot |-> rounds[k].snapshot]}
          /\ qrStatus' = "paired"
          /\ showOff' = FALSE
  /\ UNCHANGED <<half, paired, cameraVars, scanVars>>

PollFails(k) ==
  /\ rounds[k].lists > 0
  /\ rounds' = [rounds EXCEPT ![k].lists = @ - 1]
  /\ UNCHANGED <<half, paired, showOff, qrStatus, announced, cameraVars, scanVars>>

\* The x next to a peer; the store forgets it, whether or not it can be saved.
UnpairPeer(p) ==
  /\ half = "qr"
  /\ p \in paired
  /\ paired' = paired \ {p}
  /\ rounds' = [k \in DOMAIN rounds |-> [rounds[k] EXCEPT !.stayed = @ \ {p}]]
  /\ UNCHANGED <<half, showOff, qrStatus, announced, cameraVars, scanVars>>

---------------------------------------------------------------------------
\* The camera

StopScanner == stream' = None /\ cameras' = cameras \ {stream}

ClickScan ==
  /\ half = "scan"
  /\ scans < MaxScans
  /\ IF stream # None
     THEN StopScanner /\ UNCHANGED asking
     ELSE asking < MaxWaiting /\ asking' = asking + 1 /\ UNCHANGED <<stream, cameras>>
  /\ UNCHANGED <<half, paired, qrVars, scanVars>>

\* A second stream takes the place of the first, which nothing stops then.
CameraAnswers(n) ==
  /\ asking > 0 /\ n \notin cameras
  /\ asking' = asking - 1
  /\ stream' = n /\ cameras' = cameras \cup {n}
  /\ UNCHANGED <<half, paired, qrVars, scanVars>>

CameraDenied ==
  /\ asking > 0
  /\ asking' = asking - 1
  /\ StopScanner
  /\ UNCHANGED <<half, paired, qrVars, scanVars>>

---------------------------------------------------------------------------
\* Preview and acceptance of an invite

PreviewInviteEarly(i) ==
  /\ scans < MaxScans /\ scans' = scans + 1
  /\ previews' = Append(previews, i)
  /\ pending' = i
PreviewInvite(i) ==
  /\ scans < MaxScans /\ scans' = scans + 1
  /\ previews' = Append(previews, i)
  /\ UNCHANGED pending

\* runScanLoop finds a code in a frame.
CameraSees(i) ==
  /\ stream # None
  /\ StopScanner
  /\ PreviewInvite(i)
  /\ UNCHANGED <<half, paired, qrVars, asking, shown, acceptOff, accepts, result, accepted>>

PasteInvite(i) ==
  /\ half = "scan"
  /\ PreviewInvite(i)
  /\ UNCHANGED <<half, paired, qrVars, cameraVars, shown, acceptOff, accepts, result, accepted>>

PreviewAnswers(j) ==
  /\ previews' = Without(previews, j)
  /\ pending' = previews[j]
  /\ shown' = previews[j]
  /\ acceptOff' = FALSE
  /\ UNCHANGED <<half, paired, qrVars, cameraVars, accepts, result, scans, accepted>>

PreviewFails(j) ==
  /\ previews' = Without(previews, j)
  /\ UNCHANGED <<half, paired, qrVars, cameraVars, pending, shown, acceptOff, accepts, result,
                 scans, accepted>>

ClickAccept ==
  /\ pending # None /\ shown # None /\ ~acceptOff
  /\ Len(accepts) < MaxWaiting
  /\ acceptOff' = TRUE
  /\ accepts' = Append(accepts, pending)
  /\ accepted' = accepted \cup {[invite |-> pending, shown |-> shown]}
  /\ UNCHANGED <<half, paired, qrVars, cameraVars, previews, pending, shown, result, scans>>

AcceptAnswers(j) ==
  /\ accepts' = Without(accepts, j)
  /\ paired' = paired \cup {accepts[j]}
  /\ result' = accepts[j]
  /\ acceptOff' = FALSE
  /\ UNCHANGED <<half, qrVars, cameraVars, previews, pending, shown, scans, accepted>>

AcceptFails(j) ==
  /\ accepts' = Without(accepts, j)
  /\ acceptOff' = FALSE
  /\ UNCHANGED <<half, paired, qrVars, cameraVars, previews, pending, shown, result, scans,
                 accepted>>

PairingNext ==
  \/ ClickShowQr
  \/ \E k \in DOMAIN rounds :
       \/ SnapshotIsTaken(k) \/ SnapshotAnswers(k) \/ SnapshotFails(k)
       \/ QrAnswers(k) \/ QrFails(k)
       \/ PollTick(k) \/ PollFails(k) \/ PollAnswers(k)
       \/ \E p \in Invites : HandshakeCompletes(k, p)
  \/ \E p \in Invites : UnpairPeer(p)
  \/ ClickScan \/ CameraDenied \/ ClickAccept
  \/ \E n \in {"s1", "s2"} : CameraAnswers(n)
  \/ \E i \in Invites : CameraSees(i) \/ PasteInvite(i)
  \/ \E j \in DOMAIN previews : PreviewAnswers(j) \/ PreviewFails(j)
  \/ \E j \in DOMAIN accepts : AcceptAnswers(j) \/ AcceptFails(j)

PairingSpec == PairingInit /\ [][PairingNext]_pairingVars

---------------------------------------------------------------------------
\* Properties

\* The types of the state; rounds beyond their last tick have stopped.
PairingTypeOK ==
  /\ paired \subseteq Invites /\ result \in Invites \cup {None}
  /\ \A k \in DOMAIN rounds :
       /\ rounds[k].before \subseteq Invites
       /\ rounds[k].ticks <= MaxTicks
       /\ rounds[k].polling => rounds[k].qr = "shown"
  /\ stream # None => stream \in cameras
  /\ pending = shown

\* "Snapshot current peers BEFORE showing QR so we can detect new ones"
\* (pairing.js:90-94): who is announced as paired, with a safety number to
\* compare, has not been a peer all along since before that very click,
\* through rounds that overlap, lists that answer late and peers unpaired
\* meanwhile; the one way out is a snapshot whose answer has not come.
AnnouncedIsNew ==
  \A a \in announced : a.snapshot = "read" => a.peer \notin rounds[a.round].stayed

\* "You'll see a preview before the handshake runs": the invite accepted is the
\* one on display at the click, whatever camera and paste box bring meanwhile,
\* and the result box names the peer of an invite that was accepted so.
AcceptedWasShown ==
  /\ \A a \in accepted : a.invite = a.shown
  /\ result # None => \E a \in accepted : a.shown = result
=============================================================================
