----------------------------- MODULE PagesProofs ------------------------------
(***************************************************************************)
(* What the pages promise, for any peers, phrases, vaults, invites, files  *)
(* and topics and any number of clicks and answers: the invite accepted is *)
(* the one previewed, a restore brings the file named, a vault is sent as  *)
(* it was on display, a message is sealed under the phrase of its          *)
(* conversation, a notification is published as it was typed and shown     *)
(* once, and the vault page locks what its form holds and shows what it    *)
(* opened.  One section per page.                                          *)
(***************************************************************************)
EXTENDS ChatUi, PairingPage, VaultTransfer, IdentityBackup, NotifyPage, VaultPage,
        VaultProgramsProofs

\* An answer taken out leaves the others as they are.
LEMMA WithoutType ==
  ASSUME NEW S, NEW s \in Seq(S), NEW i \in DOMAIN s
  PROVE  Without(s, i) \in Seq(S) /\ s[i] \in S
<1>1. i \in 1..Len(s) /\ Len(s) \in Nat /\ s[i] \in S
  BY LenProperties, ElementOfSeq
<1>2. SubSeq(s, 1, i - 1) \in Seq(S)
  BY <1>1, SubSeqProperties
<1>3. SubSeq(s, i + 1, Len(s)) \in Seq(S)
  BY <1>1, SubSeqProperties
<1>4. QED BY <1>1, <1>2, <1>3, ConcatProperties DEF Without

\* A sequence stays a sequence of what has become more.
LEMMA SeqGrows ==
  ASSUME NEW S, NEW T, S \subseteq T, NEW s \in Seq(S)
  PROVE  s \in Seq(T)
<1>1. s \in [1..Len(s) -> S] /\ Len(s) \in Nat BY LenProperties
<1>2. s \in [1..Len(s) -> T] BY <1>1
<1>3. QED BY <1>1, <1>2, SeqDef

-------------------------------------------------------------------------------
(***************************************************************************)
(* The invite accepted is the one on display, for any invites and any      *)
(* number of scans, previews and acceptances under way.                    *)
(*                                                                         *)
(* What the accept button sends is what the preview shows (Previewed);     *)
(* what is under way is a sequence of invites that were accepted as shown  *)
(* (UnderWay), from which the result is taken.                             *)
(***************************************************************************)
Previewed == pending = shown
AcceptedAsShown == {i \in Invites : [invite |-> i, shown |-> i] \in accepted}
UnderWay == accepts \in Seq(AcceptedAsShown)

PairingInv ==
  /\ previews \in Seq(Invites) /\ shown \in Invites \cup {None}
  /\ Previewed /\ UnderWay
  /\ \A a \in accepted : a.invite = a.shown
  /\ result # None => result \in AcceptedAsShown

LEMMA PairingInitHolds == PairingInit => PairingInv
<1>1. <<>> \in Seq(Invites) /\ <<>> \in Seq(AcceptedAsShown) BY EmptySeq
<1>2. QED BY <1>1 DEF PairingInit, PairingInv, Previewed, UnderWay

\* The steps that touch neither invites nor previews: the QR half, and the
\* camera as long as it sees nothing.
QrStep ==
  \/ ClickShowQr
  \/ \E k \in DOMAIN rounds :
       \/ SnapshotIsTaken(k) \/ SnapshotAnswers(k) \/ SnapshotFails(k)
       \/ QrAnswers(k) \/ QrFails(k)
       \/ PollTick(k) \/ PollAnswers(k) \/ PollFails(k)
       \/ \E p \in Invites : HandshakeCompletes(k, p)
  \/ \E p \in Invites : UnpairPeer(p)
CameraStep == ClickScan \/ CameraDenied \/ \E n \in {"s1", "s2"} : CameraAnswers(n)

LEMMA OtherStepsKeep ==
  ASSUME PairingInv, QrStep \/ CameraStep
  PROVE  PairingInv'
<1>1. UNCHANGED <<previews, pending, shown, accepts, result, accepted>>
  BY DEF QrStep, CameraStep, ClickShowQr, SnapshotIsTaken, SnapshotAnswers, SnapshotFails, QrAnswers,
         QrFails, PollTick, PollAnswers, PollFails, HandshakeCompletes, UnpairPeer, ClickScan,
         CameraDenied, CameraAnswers, scanVars
<1>2. QED BY <1>1 DEF PairingInv, Previewed, UnderWay, AcceptedAsShown

\* An invite arrives, and its preview is answered.
LEMMA PreviewKeeps ==
  ASSUME PairingInv,
         \/ \E i \in Invites : CameraSees(i) \/ PasteInvite(i)
         \/ \E j \in DOMAIN previews : PreviewAnswers(j) \/ PreviewFails(j)
  PROVE  PairingInv'
<1>1. UNCHANGED <<accepts, result, accepted>>
  BY DEF CameraSees, PasteInvite, PreviewAnswers, PreviewFails
<1>2. previews' \in Seq(Invites)
  <2>1. CASE \E i \in Invites : CameraSees(i) \/ PasteInvite(i)
    BY <2>1, AppendProperties DEF PairingInv, CameraSees, PasteInvite, PreviewInvite
  <2>2. CASE \E j \in DOMAIN previews : PreviewAnswers(j) \/ PreviewFails(j)
    BY <2>2, WithoutType DEF PairingInv, PreviewAnswers, PreviewFails
  <2>3. QED BY <2>1, <2>2
<1>3. Previewed' /\ shown' \in Invites \cup {None}
  <2>1. CASE UNCHANGED <<pending, shown>> BY <2>1 DEF PairingInv, Previewed
  <2>2. CASE \E j \in DOMAIN previews : PreviewAnswers(j)
    BY <2>2, WithoutType DEF PairingInv, Previewed, PreviewAnswers
  <2>3. QED BY <2>1, <2>2 DEF CameraSees, PasteInvite, PreviewInvite, PreviewFails
<1>4. QED BY <1>1, <1>2, <1>3 DEF PairingInv, UnderWay, AcceptedAsShown

\* The click sends what is pending, and it is what is shown.
LEMMA AcceptKeeps ==
  ASSUME PairingInv,
         ClickAccept \/ \E j \in DOMAIN accepts : AcceptAnswers(j) \/ AcceptFails(j)
  PROVE  PairingInv'
<1>1. UNCHANGED <<previews, pending, shown>>
  BY DEF ClickAccept, AcceptAnswers, AcceptFails
<1>2. CASE ClickAccept
  <2>1. /\ pending \in Invites /\ pending = shown /\ result' = result
        /\ accepted' = accepted \cup {[invite |-> pending, shown |-> pending]}
        /\ accepts' = Append(accepts, pending)
    BY <1>2 DEF ClickAccept, PairingInv, Previewed
  <2>2. AcceptedAsShown \subseteq AcceptedAsShown' /\ pending \in AcceptedAsShown'
    BY <2>1 DEF AcceptedAsShown
  <2>3. accepts \in Seq(AcceptedAsShown') BY <2>2, SeqGrows DEF PairingInv, UnderWay
  <2>4. UnderWay' BY <2>1, <2>2, <2>3, AppendProperties DEF UnderWay
  <2>5. QED BY <1>1, <2>1, <2>2, <2>4 DEF PairingInv, Previewed
<1>3. ASSUME NEW j \in DOMAIN accepts, AcceptAnswers(j) \/ AcceptFails(j)
      PROVE  PairingInv'
  <2>1. accepted' = accepted /\ accepts' = Without(accepts, j)
        /\ (result' = result \/ result' = accepts[j])
    BY <1>3 DEF AcceptAnswers, AcceptFails
  <2>2. accepts' \in Seq(AcceptedAsShown) /\ accepts[j] \in AcceptedAsShown
    BY <2>1, WithoutType DEF PairingInv, UnderWay
  <2>3. QED BY <1>1, <2>1, <2>2 DEF PairingInv, Previewed, UnderWay, AcceptedAsShown
<1>4. QED BY <1>2, <1>3

LEMMA PairingStepKeeps == PairingInv /\ [PairingNext]_pairingVars => PairingInv'
<1> SUFFICES ASSUME PairingInv, [PairingNext]_pairingVars PROVE PairingInv'
  OBVIOUS
<1>1. CASE UNCHANGED pairingVars
  BY <1>1 DEF pairingVars, scanVars, PairingInv, Previewed, UnderWay, AcceptedAsShown
<1>2. CASE PairingNext
  BY <1>2, OtherStepsKeep, PreviewKeeps, AcceptKeeps DEF PairingNext, QrStep, CameraStep
<1>3. QED BY <1>1, <1>2

\* "You'll see a preview before the handshake runs": whatever is accepted is
\* what the preview showed at the click (scanAcceptBtn.onclick,
\* pairing.js:283-315), and the result names an invite accepted so.
THEOREM SpecAcceptedWasShown == PairingSpec => []AcceptedWasShown
<1>1. PairingInv => AcceptedWasShown
  <2> SUFFICES ASSUME PairingInv, result # None PROVE \E a \in accepted : a.shown = result
    BY DEF PairingInv, AcceptedWasShown
  <2>1. [invite |-> result, shown |-> result] \in accepted BY DEF PairingInv, AcceptedAsShown
  <2>2. QED BY <2>1
<1>2. QED BY PairingInitHolds, PairingStepKeeps, <1>1, PTL DEF PairingSpec

\* The QR half: a round's snapshot, once it has been taken, has whoever was a
\* peer at the click and has been one ever since (SnapshotsReachBack).
SnapshotStates == {"asked", "taken", "read", "failed"}
Round == [stayed : SUBSET Invites, before : SUBSET Invites,
          snapshot : SnapshotStates, qr : {"asked", "shown", "failed"},
          listener : BOOLEAN, polling : BOOLEAN, ticks : Nat, lists : Nat]
Announcement == [round : Nat, peer : Invites, snapshot : SnapshotStates]
Taken(r) == r.snapshot \in {"taken", "read"}
SnapshotsReachBack ==
  \A k \in DOMAIN rounds : /\ rounds[k].stayed \subseteq paired
                           /\ Taken(rounds[k]) => rounds[k].stayed \subseteq rounds[k].before

QrInv ==
  /\ paired \subseteq Invites /\ rounds \in Seq(Round)
  /\ announced \subseteq Announcement
  /\ \A a \in announced : a.round \in DOMAIN rounds
  /\ SnapshotsReachBack /\ AnnouncedIsNew

\* A round moves on without another snapshot than one that reaches back.
LEMMA RoundMoves ==
  ASSUME QrInv, NEW k \in DOMAIN rounds, NEW r \in Round,
         r.stayed = rounds[k].stayed,
         Taken(r) => r.stayed \subseteq r.before,
         rounds' = [rounds EXCEPT ![k] = r],
         paired \subseteq paired', paired' \subseteq Invites,
         \/ announced' = announced
         \/ \E p \in Invites \ PeersBefore(k) :
              announced' = announced \cup {[round |-> k, peer |-> p, snapshot |-> rounds[k].snapshot]}
  PROVE  QrInv'
<1>1. /\ rounds \in [1..Len(rounds) -> Round] /\ Len(rounds) \in Nat
      /\ DOMAIN rounds = 1..Len(rounds) /\ k \in Nat
  BY LenProperties DEF QrInv
<1>2. rounds' \in [1..Len(rounds) -> Round] /\ DOMAIN rounds' = DOMAIN rounds
  BY <1>1
<1>3. rounds' \in Seq(Round) BY <1>1, <1>2, SeqDef
<1>4. \A j \in DOMAIN rounds : rounds'[j].stayed = rounds[j].stayed
                               /\ rounds'[j] = IF j = k THEN r ELSE rounds[j]
  BY <1>1
<1>5. SnapshotsReachBack' BY <1>2, <1>4 DEF QrInv, SnapshotsReachBack
<1>6. announced' \subseteq Announcement /\ \A a \in announced' : a.round \in DOMAIN rounds'
  <2>1. CASE announced' = announced BY <1>2, <2>1 DEF QrInv
  <2>2. ASSUME NEW p \in Invites \ PeersBefore(k),
               announced' = announced \cup {[round |-> k, peer |-> p, snapshot |-> rounds[k].snapshot]}
        PROVE  announced' \subseteq Announcement /\ \A a \in announced' : a.round \in DOMAIN rounds'
    <3>1. [round |-> k, peer |-> p, snapshot |-> rounds[k].snapshot] \in Announcement
      BY <1>1 DEF Announcement, Round
    <3>2. QED BY <1>2, <2>2, <3>1 DEF QrInv
  <2>3. QED BY <2>1, <2>2
<1>7. AnnouncedIsNew'
  <2>1. ASSUME NEW a \in announced', a.snapshot = "read" PROVE a.peer \notin rounds'[a.round].stayed
    <3>1. CASE a \in announced BY <1>4, <2>1, <3>1 DEF QrInv, AnnouncedIsNew
    <3>2. CASE a \notin announced
      <4>1. a.round = k /\ a.peer \notin PeersBefore(k) /\ rounds[k].snapshot = "read"
        BY <2>1, <3>2
      <4>2. rounds[k].stayed \subseteq PeersBefore(k)
        BY <4>1 DEF QrInv, SnapshotsReachBack, Taken, PeersBefore
      <4>3. QED BY <1>4, <4>1, <4>2
    <3>3. QED BY <3>1, <3>2
  <2>2. QED BY <2>1 DEF AnnouncedIsNew
<1>8. QED BY <1>3, <1>5, <1>6, <1>7 DEF QrInv

LEMMA QrInitHolds == PairingInit => QrInv
<1>1. <<>> \in Seq(Round) /\ DOMAIN <<>> = {} BY EmptySeq
<1>2. QED BY <1>1 DEF PairingInit, QrInv, SnapshotsReachBack, AnnouncedIsNew

\* What the other answers and ticks make of a round.
Onward(r, s) == /\ r \in Round /\ r.stayed = s.stayed /\ r.before = s.before
                /\ Taken(r) => Taken(s)
LEMMA RoundSteps ==
  ASSUME NEW s \in Round
  PROVE  /\ s.snapshot = "taken" => Onward([s EXCEPT !.snapshot = "read"], s)
         /\ Onward([s EXCEPT !.snapshot = "failed"], s)
         /\ Onward([s EXCEPT !.qr = "shown", !.listener = TRUE, !.polling = TRUE], s)
         /\ Onward([s EXCEPT !.qr = "failed"], s)
         /\ Onward([s EXCEPT !.polling = FALSE], s)
         /\ Onward([s EXCEPT !.ticks = @ + 1, !.lists = @ + 1], s)
         /\ Onward([s EXCEPT !.listener = FALSE], s)
         /\ s.lists > 0 => /\ Onward([s EXCEPT !.lists = @ - 1], s)
                           /\ Onward([s EXCEPT !.lists = @ - 1, !.polling = FALSE], s)
<1>1. /\ Onward([s EXCEPT !.snapshot = "failed"], s)
      /\ s.snapshot = "taken" => Onward([s EXCEPT !.snapshot = "read"], s)
  BY DEF Round, Onward, Taken, SnapshotStates
<1>2. Onward([s EXCEPT !.qr = "shown", !.listener = TRUE, !.polling = TRUE], s)
  BY DEF Round, Onward, Taken
<1>3. Onward([s EXCEPT !.qr = "failed"], s) BY DEF Round, Onward, Taken
<1>4. Onward([s EXCEPT !.polling = FALSE], s) BY DEF Round, Onward, Taken
<1>5. Onward([s EXCEPT !.ticks = @ + 1, !.lists = @ + 1], s)
  <2>1. s.ticks + 1 \in Nat /\ s.lists + 1 \in Nat BY DEF Round
  <2>2. QED BY <2>1 DEF Round, Onward, Taken
<1>6. Onward([s EXCEPT !.listener = FALSE], s) BY DEF Round, Onward, Taken
<1>7. ASSUME s.lists > 0
      PROVE  /\ Onward([s EXCEPT !.lists = @ - 1], s)
             /\ Onward([s EXCEPT !.lists = @ - 1, !.polling = FALSE], s)
  <2>1. s.lists - 1 \in Nat BY <1>7 DEF Round
  <2>2. Onward([s EXCEPT !.lists = @ - 1], s) BY <2>1 DEF Round, Onward, Taken
  <2>3. Onward([s EXCEPT !.lists = @ - 1, !.polling = FALSE], s) BY <2>1 DEF Round, Onward, Taken
  <2>4. QED BY <2>2, <2>3
<1>8. QED BY <1>1, <1>2, <1>3, <1>4, <1>5, <1>6, <1>7

\* A click begins a round whose snapshot is still asked for.
LEMMA ShowQrKeeps ==
  ASSUME QrInv, ClickShowQr
  PROVE  QrInv'
<1> DEFINE r == [stayed |-> paired, before |-> {}, snapshot |-> "asked", qr |-> "asked",
                 listener |-> FALSE, polling |-> FALSE, ticks |-> 0, lists |-> 0]
<1>1. rounds' = Append(rounds, r) /\ UNCHANGED <<paired, announced>>
  BY DEF ClickShowQr, scanVars
<1>2. r \in Round /\ r.stayed = paired /\ r.snapshot = "asked" BY DEF QrInv, Round, SnapshotStates
<1>3. /\ rounds' \in Seq(Round)
      /\ Len(rounds) \in Nat /\ DOMAIN rounds = 1..Len(rounds)
      /\ DOMAIN rounds' = 1..Len(rounds) + 1
      /\ \A j \in 1..Len(rounds) : rounds'[j] = rounds[j]
      /\ rounds'[Len(rounds) + 1] = r
  <2> HIDE DEF r
  <2>1. QED BY <1>1, <1>2, AppendProperties, LenProperties DEF QrInv
<1> HIDE DEF r
<1>4. SnapshotsReachBack' BY <1>1, <1>2, <1>3 DEF QrInv, SnapshotsReachBack, Taken
<1>5. AnnouncedIsNew' /\ \A a \in announced' : a.round \in DOMAIN rounds'
  BY <1>1, <1>3 DEF QrInv, AnnouncedIsNew
<1>6. QED BY <1>1, <1>3, <1>4, <1>5 DEF QrInv

\* The answers of a round, its ticks and whoever scans its code.
LEMMA RoundKeeps ==
  ASSUME QrInv, NEW k \in DOMAIN rounds,
         \/ SnapshotIsTaken(k) \/ SnapshotAnswers(k) \/ SnapshotFails(k)
         \/ QrAnswers(k) \/ QrFails(k)
         \/ PollTick(k) \/ PollAnswers(k) \/ PollFails(k)
         \/ \E p \in Invites : HandshakeCompletes(k, p)
  PROVE  QrInv'
<1> DEFINE s == rounds[k]
<1>1. /\ rounds \in [1..Len(rounds) -> Round] /\ Len(rounds) \in Nat
      /\ s \in Round /\ s.stayed \subseteq paired /\ paired \subseteq Invites
      /\ Taken(s) => s.stayed \subseteq s.before
  BY LenProperties DEF QrInv, SnapshotsReachBack
<1>2. CASE SnapshotIsTaken(k)
  <2>1. rounds' = [rounds EXCEPT ![k] = [s EXCEPT !.before = paired, !.snapshot = "taken"]]
    BY <1>1, <1>2 DEF SnapshotIsTaken
  <2>2. PICK r : r = [s EXCEPT !.before = paired, !.snapshot = "taken"] OBVIOUS
  <2>3. r \in Round /\ r.stayed = s.stayed /\ r.before = paired
    BY <1>1, <2>2 DEF Round, SnapshotStates
  <2>4. UNCHANGED <<paired, announced>> BY <1>2 DEF SnapshotIsTaken
  <2>5. QED BY <1>1, <2>1, <2>2, <2>3, <2>4, RoundMoves
<1>3. CASE \/ SnapshotAnswers(k) \/ SnapshotFails(k) \/ QrAnswers(k) \/ QrFails(k)
           \/ PollTick(k) \/ PollFails(k)
           \/ \E p \in Invites : HandshakeCompletes(k, p)
  <2>1. \E r : Onward(r, s) /\ rounds' = [rounds EXCEPT ![k] = r]
    <3>1. CASE SnapshotFails(k)
      <4>1. rounds' = [rounds EXCEPT ![k] = [s EXCEPT !.snapshot = "failed"]]
        BY <1>1, <3>1 DEF SnapshotFails
      <4>2. QED BY <1>1, <4>1, RoundSteps
    <3>2. CASE QrAnswers(k)
      <4>1. rounds' = [rounds EXCEPT ![k] = [s EXCEPT !.qr = "shown", !.listener = TRUE,
                                                      !.polling = TRUE]]
        BY <1>1, <3>2 DEF QrAnswers
      <4>2. QED BY <1>1, <4>1, RoundSteps
    <3>3. CASE QrFails(k)
      <4>1. rounds' = [rounds EXCEPT ![k] = [s EXCEPT !.qr = "failed"]]
        BY <1>1, <3>3 DEF QrFails
      <4>2. QED BY <1>1, <4>1, RoundSteps
    <3>4. CASE PollTick(k)
      <4>1. \/ rounds' = [rounds EXCEPT ![k] = [s EXCEPT !.polling = FALSE]]
            \/ rounds' = [rounds EXCEPT ![k] = [s EXCEPT !.ticks = @ + 1, !.lists = @ + 1]]
        BY <1>1, <3>4 DEF PollTick
      <4>2. QED BY <1>1, <4>1, RoundSteps
    <3>5. CASE PollFails(k)
      <4>1. rounds' = [rounds EXCEPT ![k] = [s EXCEPT !.lists = @ - 1]] /\ s.lists > 0
        BY <1>1, <3>5 DEF PollFails
      <4>2. QED BY <1>1, <4>1, RoundSteps
    <3>6. CASE \E p \in Invites : HandshakeCompletes(k, p)
      <4>1. rounds' = [rounds EXCEPT ![k] = [s EXCEPT !.listener = FALSE]]
        BY <1>1, <3>6 DEF HandshakeCompletes
      <4>2. QED BY <1>1, <4>1, RoundSteps
    <3>7. CASE SnapshotAnswers(k)
      <4>1. rounds' = [rounds EXCEPT ![k] = [s EXCEPT !.snapshot = "read"]] /\ s.snapshot = "taken"
        BY <1>1, <3>7 DEF SnapshotAnswers
      <4>2. QED BY <1>1, <4>1, RoundSteps
    <3>8. QED BY <1>3, <3>7, <3>1, <3>2, <3>3, <3>4, <3>5, <3>6
  <2>2. announced' = announced /\ paired \subseteq paired' /\ paired' \subseteq Invites
    BY <1>1, <1>3 DEF SnapshotAnswers, SnapshotFails, QrAnswers, QrFails, PollTick, PollFails, HandshakeCompletes
  <2>3. QED BY <1>1, <2>1, <2>2, RoundMoves DEF Onward
<1>4. CASE PollAnswers(k)
  <2>1. PICK r : Onward(r, s) /\ rounds' = [rounds EXCEPT ![k] = r]
    <3>1. \/ rounds' = [rounds EXCEPT ![k] = [s EXCEPT !.lists = @ - 1]]
          \/ rounds' = [rounds EXCEPT ![k] = [s EXCEPT !.lists = @ - 1, !.polling = FALSE]]
      BY <1>1, <1>4 DEF PollAnswers
    <3>2. s.lists > 0 BY <1>4 DEF PollAnswers
    <3>3. QED BY <1>1, <3>1, <3>2, RoundSteps
  <2>2. \/ announced' = announced
        \/ \E p \in Invites \ PeersBefore(k) :
             announced' = announced \cup {[round |-> k, peer |-> p, snapshot |-> s.snapshot]}
    BY <1>1, <1>4 DEF PollAnswers, NewPeers
  <2>3. paired' = paired BY <1>4 DEF PollAnswers
  <2>4. QED BY <1>1, <2>1, <2>2, <2>3, RoundMoves DEF Onward
<1>5. QED BY <1>2, <1>3, <1>4

\* Who is unpaired is no longer among those that stayed, in any round.
LEMMA UnpairKeeps ==
  ASSUME QrInv, NEW p \in Invites, UnpairPeer(p)
  PROVE  QrInv'
<1>1. /\ rounds \in [1..Len(rounds) -> Round] /\ Len(rounds) \in Nat
      /\ DOMAIN rounds = 1..Len(rounds)
  BY LenProperties DEF QrInv
<1>2. /\ paired' = paired \ {p} /\ announced' = announced
      /\ rounds' = [k \in DOMAIN rounds |-> [rounds[k] EXCEPT !.stayed = @ \ {p}]]
  BY DEF UnpairPeer
<1>3. \A s \in Round :
         LET t == [s EXCEPT !.stayed = @ \ {p}]
         IN  t \in Round /\ t.stayed = s.stayed \ {p} /\ t.before = s.before /\ t.snapshot = s.snapshot
  BY DEF Round
<1>4. /\ DOMAIN rounds' = DOMAIN rounds
      /\ \A k \in DOMAIN rounds :
            /\ rounds'[k] \in Round /\ rounds'[k].stayed = rounds[k].stayed \ {p}
            /\ rounds'[k].before = rounds[k].before /\ rounds'[k].snapshot = rounds[k].snapshot
  BY <1>1, <1>2, <1>3
<1>5. rounds' \in Seq(Round)
  <2>1. rounds' \in [1..Len(rounds) -> Round] BY <1>1, <1>2, <1>4
  <2>2. QED BY <1>1, <2>1, SeqDef
<1>6. SnapshotsReachBack'
  <2>1. \A k \in DOMAIN rounds : /\ rounds[k].stayed \subseteq paired
                                 /\ Taken(rounds[k]) => rounds[k].stayed \subseteq rounds[k].before
    BY DEF QrInv, SnapshotsReachBack
  <2>2. \A k \in DOMAIN rounds : Taken(rounds'[k]) <=> Taken(rounds[k])
    BY <1>4 DEF Taken
  <2> HIDE DEF Taken
  <2>3. ASSUME NEW k \in DOMAIN rounds'
        PROVE  /\ rounds'[k].stayed \subseteq paired'
               /\ Taken(rounds'[k]) => rounds'[k].stayed \subseteq rounds'[k].before
    <3>1. k \in DOMAIN rounds BY <1>4
    <3>2. /\ rounds'[k].stayed = rounds[k].stayed \ {p} /\ rounds'[k].before = rounds[k].before
          /\ Taken(rounds'[k]) <=> Taken(rounds[k])
      BY <1>4, <2>2, <3>1
    <3>3. /\ rounds[k].stayed \subseteq paired
          /\ Taken(rounds[k]) => rounds[k].stayed \subseteq rounds[k].before
      BY <2>1, <3>1
    <3>4. QED BY <1>2, <3>2, <3>3
  <2>4. QED BY <2>3 DEF SnapshotsReachBack, Taken
<1>7. AnnouncedIsNew' BY <1>2, <1>4 DEF QrInv, AnnouncedIsNew
<1>8. QED BY <1>2, <1>4, <1>5, <1>6, <1>7 DEF QrInv

\* The other half adds a peer when an invite is accepted, and touches no round.
LEMMA QrStepKeeps == PairingInv /\ QrInv /\ [PairingNext]_pairingVars => QrInv'
<1> SUFFICES ASSUME PairingInv, QrInv, [PairingNext]_pairingVars PROVE QrInv'
  OBVIOUS
<1>1. CASE UNCHANGED <<paired, rounds, announced>>
  BY <1>1 DEF QrInv, SnapshotsReachBack, AnnouncedIsNew
<1>2. CASE \/ CameraStep \/ ClickAccept
           \/ \E i \in Invites : CameraSees(i) \/ PasteInvite(i)
           \/ \E j \in DOMAIN previews : PreviewAnswers(j) \/ PreviewFails(j)
           \/ \E j \in DOMAIN accepts : AcceptAnswers(j) \/ AcceptFails(j)
  <2>1. UNCHANGED <<rounds, announced>>
    BY <1>2 DEF CameraStep, ClickScan, CameraDenied, CameraAnswers, ClickAccept, CameraSees,
                PasteInvite, PreviewAnswers, PreviewFails, AcceptAnswers, AcceptFails, qrVars
  <2>2. paired \subseteq paired' /\ paired' \subseteq Invites
    <3>1. CASE paired' = paired BY <3>1 DEF QrInv
    <3>2. CASE \E j \in DOMAIN accepts : AcceptAnswers(j)
      <4>1. \A j \in DOMAIN accepts : accepts[j] \in Invites
        BY LenProperties, ElementOfSeq DEF PairingInv, UnderWay, AcceptedAsShown
      <4>2. QED BY <3>2, <4>1 DEF AcceptAnswers, QrInv
    <3>3. QED
      BY <1>2, <3>1, <3>2 DEF CameraStep, ClickScan, CameraDenied, CameraAnswers, ClickAccept,
         CameraSees, PasteInvite, PreviewAnswers, PreviewFails, AcceptFails
  <2>3. QED BY <2>1, <2>2 DEF QrInv, SnapshotsReachBack, AnnouncedIsNew
<1>3. QED BY <1>1, <1>2, ShowQrKeeps, RoundKeeps, UnpairKeeps DEF PairingNext, pairingVars, qrVars, CameraStep

\* "Snapshot current peers BEFORE showing QR so we can detect new ones"
\* (pairing.js:90-94): whoever is announced as paired has not been a peer all
\* along since the click whose round announces it, for any number of clicks,
\* ticks, overlapping lists and peers unpaired meanwhile, once that click's
\* snapshot has been read.
THEOREM SpecAnnouncedIsNew == PairingSpec => []AnnouncedIsNew
<1>1. QrInv => AnnouncedIsNew BY DEF QrInv
<1>2. QED BY PairingInitHolds, QrInitHolds, PairingStepKeeps, QrStepKeeps, <1>1, PTL DEF PairingSpec

-------------------------------------------------------------------------------
(***************************************************************************)
(* Backups are saved under a confirmed passphrase, restores bring the file *)
(* that was named on the panel, and no step loses a peer: for any peers,   *)
(* passphrases and foreign files and any number of exports, picks and      *)
(* restores.                                                               *)
(*                                                                         *)
(* The two properties need to know what is under way: the label on the     *)
(* panel names what is loaded (LabelIsLoaded), so a restore carries what   *)
(* the panel named at the click (RestoresChosen); an export carries a      *)
(* confirmed passphrase and, once encrypted, an identity (ExportConfirmed).*)
(***************************************************************************)
LabelIsLoaded == loaded # NoFile => label = loaded
RestoresChosen ==
  \A r \in restores : /\ r = [id |-> r.id, file |-> r.file, pass |-> r.pass, pc |-> r.pc]
                      /\ [file |-> r.file, pass |-> r.pass] \in chosen
OwnChosen ==
  identity \in {None, "here"} \/ \E c \in chosen : c.file.own = identity /\ c.file.pass = c.pass
ExportConfirmed ==
  /\ export = [pc |-> export.pc, pass |-> export.pass, file |-> export.file]
  /\ export.pc \in {"idle", "asked", "encrypted", "save"}
  /\ export.pc # "idle" => export.pass \in confirmed
  /\ export.pc \in {"encrypted", "save"} =>
       export.file.pass = export.pass /\ export.file.own # None

BackupInv == /\ LabelIsLoaded /\ RestoresChosen /\ OwnChosen
        /\ ExportConfirmed /\ SavedUnderConfirmed

LEMMA BackupInitHolds == BackupInit => BackupInv
<1> SUFFICES ASSUME BackupInit PROVE BackupInv
  OBVIOUS
<1>1. ExportConfirmed BY DEF BackupInit, ExportConfirmed, NoExport
<1>2. QED BY <1>1 DEF BackupInit, BackupInv, LabelIsLoaded, RestoresChosen, OwnChosen,
                      SavedUnderConfirmed

\* The steps of the panels and of pairing.
LEMMA PanelKeeps ==
  ASSUME BackupInv,
         \/ \E p \in Devices : Pairs(p)
         \/ OpenExportPanel \/ OpenImportPanel \/ Cancel
         \/ \E x \in Passphrases \cup {""} : TypeExportPass(x) \/ TypeImportPass(x)
         \/ ClickPick \/ PickFails
         \/ \E f \in disk : PickAnswers(f)
  PROVE  BackupInv'
<1>1. UNCHANGED <<restores, chosen, export, disk, confirmed>>
  BY DEF Pairs, OpenExportPanel, OpenImportPanel, Cancel, HideBackupPanels, TypeExportPass,
         TypeImportPass, ClickPick, PickFails, PickAnswers, exportVars, importVars
<1>2. identity' = identity \/ identity' = "here"
  BY DEF Pairs, OpenExportPanel, OpenImportPanel, Cancel, HideBackupPanels, TypeExportPass,
         TypeImportPass, ClickPick, PickFails, PickAnswers, storeVars
<1>3. LabelIsLoaded'
  <2>1. \/ UNCHANGED <<loaded, label>> \/ loaded' = NoFile \/ loaded' = label'
    BY DEF Pairs, OpenExportPanel, OpenImportPanel, Cancel, HideBackupPanels, TypeExportPass,
           TypeImportPass, ClickPick, PickFails, PickAnswers, importVars
  <2>2. QED BY <2>1 DEF BackupInv, LabelIsLoaded
<1>4. OwnChosen' BY <1>1, <1>2 DEF BackupInv, OwnChosen
<1>5. RestoresChosen' /\ ExportConfirmed' /\ SavedUnderConfirmed'
  BY <1>1 DEF BackupInv, RestoresChosen, ExportConfirmed, SavedUnderConfirmed
<1>6. QED BY <1>3, <1>4, <1>5 DEF BackupInv

LEMMA ExportKeeps ==
  ASSUME BackupInv, ClickExport \/ ExportBackup \/ MarkBackup \/ SaveBackup \/ ExportFails
  PROVE  BackupInv'
<1>1. UNCHANGED <<identity, restores, chosen, loaded, label>>
  BY DEF ClickExport, ExportBackup, MarkBackup, SaveBackup, ExportFails, storeVars, importVars
<1>2. LabelIsLoaded' /\ RestoresChosen' /\ OwnChosen'
  BY <1>1 DEF BackupInv, LabelIsLoaded, RestoresChosen, OwnChosen
<1>3. ExportConfirmed'
  <2>1. CASE ClickExport
    <3>1. export' = [pc |-> "asked", pass |-> pass.first, file |-> NoFile]
          /\ pass.first \in confirmed'
      BY <2>1 DEF ClickExport, MayExport
    <3>2. QED BY <3>1 DEF ExportConfirmed
  <2>2. CASE ExportBackup
    <3>1. export' = [pc |-> "encrypted", pass |-> export.pass,
                     file |-> [own |-> identity, peers |-> peers, pass |-> export.pass]]
      BY <2>2 DEF ExportBackup, BackupInv, ExportConfirmed
    <3>2. identity # None /\ export.pass \in confirmed /\ confirmed' = confirmed
      BY <2>2 DEF ExportBackup, BackupInv, ExportConfirmed
    <3>3. QED BY <3>1, <3>2 DEF ExportConfirmed
  <2>3. CASE MarkBackup
    <3>1. export' = [pc |-> "save", pass |-> export.pass, file |-> export.file]
      BY <2>3 DEF MarkBackup, BackupInv, ExportConfirmed
    <3>2. /\ export.pass \in confirmed' /\ export.file.pass = export.pass
          /\ export.file.own # None
      BY <2>3 DEF MarkBackup, BackupInv, ExportConfirmed
    <3>3. QED BY ONLY <3>1, <3>2 DEF ExportConfirmed
  <2>4. CASE SaveBackup \/ ExportFails
    <3>1. export' = [pc |-> "idle", pass |-> "", file |-> NoFile]
      BY <2>4 DEF SaveBackup, ExportFails, NoExport
    <3>2. QED BY ONLY <3>1 DEF ExportConfirmed
  <2>5. QED BY <2>1, <2>2, <2>3, <2>4
<1>4. SavedUnderConfirmed'
  <2>1. confirmed \subseteq confirmed'
    BY DEF ClickExport, ExportBackup, MarkBackup, SaveBackup, ExportFails
  <2>2. CASE SaveBackup
    BY <2>1, <2>2 DEF SaveBackup, BackupInv, ExportConfirmed, SavedUnderConfirmed
  <2>3. CASE ~SaveBackup
    <3>1. disk' = disk BY <2>3 DEF ClickExport, ExportBackup, MarkBackup, ExportFails
    <3>2. QED BY <2>1, <3>1 DEF BackupInv, SavedUnderConfirmed
  <2>4. QED BY <2>2, <2>3
<1>5. QED BY <1>2, <1>3, <1>4 DEF BackupInv

\* The click on "Restore" remembers what the panel names, which is what the
\* restore carries.
LEMMA RestoreKeeps ==
  ASSUME BackupInv,
         ClickRestore \/ \E r \in restores : ApplyBackup(r) \/ RestoreAnswers(r) \/ RestoreFails(r)
  PROVE  BackupInv'
<1>1. UNCHANGED <<export, disk, confirmed, label>> /\ (loaded' = loaded \/ loaded' = NoFile)
  BY DEF ClickRestore, ApplyBackup, RestoreAnswers, RestoreFails, exportVars
<1>2. LabelIsLoaded' /\ ExportConfirmed' /\ SavedUnderConfirmed'
  BY <1>1 DEF BackupInv, LabelIsLoaded, ExportConfirmed, SavedUnderConfirmed
<1>3. RestoresChosen' /\ OwnChosen'
  <2>1. CASE ClickRestore
    <3>1. PICK r : r = [id |-> counts.restores, file |-> loaded, pass |-> importPass,
                        pc |-> "asked"]
      OBVIOUS
    <3>2. restores' = restores \cup {r} /\ identity' = identity
      BY <2>1, <3>1 DEF ClickRestore, storeVars
    <3>3. chosen' = chosen \cup {[file |-> loaded, pass |-> importPass]}
      BY <2>1 DEF ClickRestore, BackupInv, LabelIsLoaded
    <3>4. RestoresChosen'
      <4>1. /\ r = [id |-> r.id, file |-> r.file, pass |-> r.pass, pc |-> r.pc]
            /\ [file |-> r.file, pass |-> r.pass] \in chosen'
        BY <3>1, <3>3
      <4>2. QED BY <3>2, <3>3, <4>1 DEF BackupInv, RestoresChosen
    <3>5. OwnChosen' BY <3>2, <3>3 DEF BackupInv, OwnChosen
    <3>6. QED BY <3>4, <3>5
  <2>2. ASSUME NEW r \in restores, ApplyBackup(r)
        PROVE  RestoresChosen' /\ OwnChosen'
    <3>1. PICK t : t = [r EXCEPT !.pc = "applied"] OBVIOUS
    <3>2. t = [id |-> r.id, file |-> r.file, pass |-> r.pass, pc |-> "applied"]
      <4>1. r = [id |-> r.id, file |-> r.file, pass |-> r.pass, pc |-> r.pc]
        BY DEF BackupInv, RestoresChosen
      <4>2. QED BY ONLY <3>1, <4>1
    <3>3. restores' = (restores \ {r}) \cup {t} /\ chosen' = chosen
      BY <2>2, <3>1 DEF ApplyBackup
    <3>5. [file |-> r.file, pass |-> r.pass] \in chosen BY DEF BackupInv, RestoresChosen
    <3>4. RestoresChosen'
      <4>1. /\ t = [id |-> t.id, file |-> t.file, pass |-> t.pass, pc |-> t.pc]
            /\ t.file = r.file /\ t.pass = r.pass
        BY <3>2
      <4>2. QED BY <3>3, <3>5, <4>1 DEF BackupInv, RestoresChosen
    <3>6. identity' = r.file.own /\ r.pass = r.file.pass BY <2>2 DEF ApplyBackup
    <3>7. OwnChosen' BY <3>3, <3>5, <3>6 DEF OwnChosen
    <3>8. QED BY <3>4, <3>7
  <2>3. ASSUME NEW r \in restores, RestoreAnswers(r) \/ RestoreFails(r)
        PROVE  RestoresChosen' /\ OwnChosen'
    <3>1. restores' \subseteq restores /\ chosen' = chosen /\ identity' = identity
      BY <2>3 DEF RestoreAnswers, RestoreFails, storeVars
    <3>2. QED BY <3>1 DEF BackupInv, RestoresChosen, OwnChosen
  <2>4. QED BY <2>1, <2>2, <2>3
<1>4. QED BY <1>2, <1>3 DEF BackupInv

LEMMA BackupStepKeeps == BackupInv /\ [BackupNext]_backupVars => BackupInv'
<1> SUFFICES ASSUME BackupInv, [BackupNext]_backupVars PROVE BackupInv'
  OBVIOUS
<1>1. CASE UNCHANGED backupVars
  BY <1>1 DEF backupVars, storeVars, exportVars, importVars, BackupInv, LabelIsLoaded, RestoresChosen,
              OwnChosen, ExportConfirmed, SavedUnderConfirmed
<1>2. CASE BackupNext
  BY <1>2, PanelKeeps, ExportKeeps, RestoreKeeps DEF BackupNext
<1>3. QED BY <1>1, <1>2

LEMMA BackupInvariant == BackupSpec => []BackupInv
  BY BackupInitHolds, BackupStepKeeps, PTL DEF BackupSpec

\* A restore brings the identity of a file that was named on the panel, with
\* its passphrase next to it, at a click on "Restore" (onImportGo,
\* pairing.js:822-855).
THEOREM SpecRestoredAsNamed == BackupSpec => []RestoredAsNamed
<1>1. BackupInv => RestoredAsNamed
  BY DEF BackupInv, RestoredAsNamed, RestoresChosen, OwnChosen
<1>2. QED BY BackupInvariant, <1>1, PTL

\* Every backup on disk that this device saved opens with a passphrase that
\* was typed the same twice (onExportGo, pairing.js:739-801).
THEOREM SpecSavedUnderConfirmed == BackupSpec => []SavedUnderConfirmed
<1>1. BackupInv => SavedUnderConfirmed BY DEF BackupInv
<1>2. QED BY BackupInvariant, <1>1, PTL

\* No step loses a peer (apply_backup, identity_backup.rs:226-233).
THEOREM SpecPeersAreKept == BackupSpec => PeersAreKept
<1>1. [BackupNext]_backupVars => [peers \subseteq peers']_backupVars
  <2> SUFFICES ASSUME BackupNext PROVE peers \subseteq peers'
    BY DEF backupVars
  <2>1. CASE \E p \in Devices : Pairs(p) BY <2>1 DEF Pairs
  <2>2. CASE \E r \in restores : ApplyBackup(r) BY <2>2 DEF ApplyBackup
  <2>3. CASE \/ OpenExportPanel \/ OpenImportPanel \/ Cancel
             \/ \E x \in Passphrases \cup {""} : TypeExportPass(x) \/ TypeImportPass(x)
             \/ ClickExport \/ ExportBackup \/ MarkBackup \/ SaveBackup \/ ExportFails
    BY <2>3 DEF OpenExportPanel, OpenImportPanel, Cancel, HideBackupPanels, TypeExportPass,
                TypeImportPass, ClickExport, ExportBackup, MarkBackup, SaveBackup, ExportFails,
                storeVars
  <2>4. CASE \/ ClickPick \/ PickFails \/ ClickRestore
             \/ \E f \in disk : PickAnswers(f)
             \/ \E r \in restores : RestoreAnswers(r) \/ RestoreFails(r)
    BY <2>4 DEF ClickPick, PickFails, ClickRestore, PickAnswers, RestoreAnswers, RestoreFails,
                storeVars
  <2>5. QED BY <2>1, <2>2, <2>3, <2>4 DEF BackupNext
<1>2. QED BY <1>1, PTL DEF BackupSpec, PeersAreKept

-------------------------------------------------------------------------------
(***************************************************************************)
(* What leaves the sending page is what was asked for, and what the relay  *)
(* no longer has was shown, for any set of peers and vaults and any number*)
(* of sends, fetches and acks in any order.                                *)
(*                                                                         *)
(* The inductive invariant follows a payload on its way.  A send under way *)
(* is due to hand over what was asked (SendsAsked): the sealed vault as    *)
(* long as sealing is ahead, then its payload.  What was handed over was   *)
(* asked (HandedOver); what a fetch holds is in the relay or was shown     *)
(* (FetchedIsKnown), and what is being acked was shown (AckedIsShown).     *)
(***************************************************************************)
Payload == [kind : {"vault", "sealed"}, inner : Vaults \cup {None}]
Send == [id : Nat, to : Recipients, vault : Vaults \cup {None},
         pc : {"seal", "direct", "offered"}, payload : Payload]

TransferTypes ==
  /\ json \in Vaults \cup {None} /\ ticked \in BOOLEAN
  /\ modal \subseteq Recipients /\ begun \in Nat
  /\ sending \subseteq Send

Asked(to, p) ==
  \E a \in asked : a.to = to /\ a.vault = p.inner /\ a.seal = IsSealed(p)
Due(s) == IF s.pc = "seal" THEN SealVault(s.payload) ELSE s.payload

SendsAsked == \A s \in sending : Asked(s.to, Due(s))
DirectAsked == \A d \in direct : Asked(d.to, d.payload)
RelayedAsked == \A e \in relay \cup listed : Asked(Reader, e.payload.inner)
FetchedIsKnown == fetch.got \subseteq relay \cup listed
AckedIsShown == acking \subseteq listed

TransferInv == /\ TransferTypes /\ SendsAsked /\ DirectAsked /\ RelayedAsked
        /\ FetchedIsKnown /\ AckedIsShown

\* What was asked stays asked.
LEMMA AskedGrows ==
  ASSUME NEW to, NEW p, asked \subseteq asked', Asked(to, p)
  PROVE  Asked(to, p)'
  BY DEF Asked, IsSealed

LEMMA TransferInitHolds == TransferInit => TransferInv
<1> SUFFICES ASSUME TransferInit PROVE TransferInv
  OBVIOUS
<1>1. TransferTypes BY DEF TransferInit, TransferTypes
<1>2. FetchedIsKnown BY DEF TransferInit, FetchedIsKnown, Idle
<1>3. SendsAsked /\ DirectAsked /\ RelayedAsked /\ AckedIsShown
  BY DEF TransferInit, SendsAsked, DirectAsked, RelayedAsked, AckedIsShown
<1>4. QED BY <1>1, <1>2, <1>3 DEF TransferInv

\* The steps of the sending page that touch no send and hand nothing over.
LEMMA EditingKeeps ==
  ASSUME TransferInv,
         \/ \E v \in Vaults : Lock(v)
         \/ TickSeal \/ OpenSendModal \/ CloseSendModal
         \/ \E p \in Recipients : Unpair(p) \/ RowRemoved(p)
  PROVE  TransferInv'
<1>1. UNCHANGED <<sending, asked, direct, relay, listed, fetch, acking, begun>>
  BY DEF Lock, TickSeal, OpenSendModal, CloseSendModal, Unpair, RowRemoved, readerVars
<1>2. TransferTypes'
  <2>1. json' \in Vaults \cup {None}
    BY DEF TransferInv, TransferTypes, Lock, TickSeal, OpenSendModal, CloseSendModal, Unpair, RowRemoved
  <2>2. ticked' \in BOOLEAN
    BY DEF TransferInv, TransferTypes, Lock, TickSeal, OpenSendModal, CloseSendModal, Unpair, RowRemoved
  <2>3. modal' \subseteq Recipients
    BY DEF TransferInv, TransferTypes, Lock, TickSeal, OpenSendModal, CloseSendModal, Unpair, RowRemoved
  <2>4. QED BY <1>1, <2>1, <2>2, <2>3 DEF TransferInv, TransferTypes
<1>3. QED
  BY <1>1, <1>2 DEF TransferInv, SendsAsked, DirectAsked, RelayedAsked, FetchedIsKnown,
                    AckedIsShown, Asked

\* A click begins a send that is due to hand over what is asked by the click.
LEMMA ClickKeeps ==
  ASSUME TransferInv, NEW p \in Recipients, ClickPeer(p)
  PROVE  TransferInv'
<1>0. PICK a, s :
        /\ a = [to |-> p, vault |-> json, seal |-> ticked]
        /\ s = [id |-> begun, to |-> p, vault |-> json,
                pc |-> IF ticked THEN "seal" ELSE "direct", payload |-> Vault(json)]
  OBVIOUS
<1>1. /\ asked' = asked \cup {a} /\ sending' = sending \cup {s} /\ begun' = begun + 1
      /\ UNCHANGED <<json, ticked, modal, direct, relay, fetch, acking, listed>>
  BY <1>0 DEF ClickPeer, readerVars
<1>2. s \in Send
  <2>1. Vault(json) \in Payload BY DEF TransferInv, TransferTypes, Vault, Payload
  <2>2. QED BY <1>0, <2>1 DEF TransferInv, TransferTypes, Send
<1>3. TransferTypes' BY <1>1, <1>2 DEF TransferInv, TransferTypes
<1>4. Asked(s.to, Due(s))'
  <2>1. a.to = s.to /\ a.vault = Due(s).inner BY <1>0 DEF Due, Vault, SealVault
  <2>2. a.seal = IsSealed(Due(s))
    <3>1. CASE ticked = TRUE BY <1>0, <3>1 DEF Due, SealVault, IsSealed
    <3>2. CASE ticked = FALSE BY <1>0, <3>2 DEF Due, Vault, IsSealed
    <3>3. QED BY <3>1, <3>2 DEF TransferInv, TransferTypes
  <2>3. a \in asked' BY <1>1
  <2>4. QED BY <2>1, <2>2, <2>3 DEF Asked, Due, IsSealed, SealVault
<1>5. SendsAsked'
  <2>1. ASSUME NEW t \in sending PROVE Asked(t.to, Due(t))'
    BY <1>1, <2>1, AskedGrows DEF TransferInv, SendsAsked, Due, SealVault
  <2>2. QED BY <1>1, <1>4, <2>1 DEF SendsAsked
<1>6. DirectAsked' /\ RelayedAsked'
  BY <1>1, AskedGrows DEF TransferInv, DirectAsked, RelayedAsked
<1>7. QED BY <1>1, <1>3, <1>5, <1>6 DEF TransferInv, FetchedIsKnown, AckedIsShown

\* A send hands over only what it is due to, and stays due to the same.
LEMMA SendStepKeeps ==
  ASSUME TransferInv, NEW s \in sending,
         \/ SealAnswers(s) \/ SealFails(s) \/ DirectSend(s)
         \/ DeclineRelay(s) \/ RelaySend(s)
  PROVE  TransferInv'
<1>1. s \in Send /\ Asked(s.to, Due(s))
  BY DEF TransferInv, TransferTypes, SendsAsked
<1>2. /\ UNCHANGED <<json, ticked, begun, asked, fetch, acking, listed>>
      /\ modal' \subseteq Recipients
  BY DEF TransferInv, TransferTypes, SealAnswers, SealFails, DirectSend, DeclineRelay, RelaySend, readerVars
<1>3. \/ sending' = sending \ {s}
      \/ \E t \in Send : /\ t.to = s.to /\ Due(t) = Due(s)
                         /\ sending' = (sending \ {s}) \cup {t}
  <2>1. CASE SealAnswers(s)
    <3>1. PICK t : t = [s EXCEPT !.pc = "direct", !.payload = SealVault(s.payload)]
      OBVIOUS
    <3>2. t \in Send
      BY <1>1, <3>1 DEF Send, Payload, SealVault
    <3>3. s.pc = "seal" /\ sending' = (sending \ {s}) \cup {t}
      BY <2>1, <3>1 DEF SealAnswers, Moves
    <3>4. t.to = s.to /\ t.pc = "direct" /\ t.payload = SealVault(s.payload)
      BY <1>1, <3>1 DEF Send
    <3>5. QED BY <3>2, <3>3, <3>4 DEF Due
  <2>2. CASE DirectSend(s)
    <3>1. PICK t : t = [s EXCEPT !.pc = "offered"] OBVIOUS
    <3>2. t \in Send BY <1>1, <3>1 DEF Send
    <3>3. s.pc = "direct" /\ (sending' = sending \ {s} \/ sending' = (sending \ {s}) \cup {t})
      BY <2>2, <3>1 DEF DirectSend, Moves, Ends
    <3>4. t.to = s.to /\ t.pc = "offered" /\ t.payload = s.payload
      BY <1>1, <3>1 DEF Send
    <3>5. QED BY <3>2, <3>3, <3>4 DEF Due
  <2>3. CASE SealFails(s) \/ DeclineRelay(s) \/ RelaySend(s)
    BY <2>3 DEF SealFails, DeclineRelay, RelaySend, Ends
  <2>4. QED BY <2>1, <2>2, <2>3
<1>4. TransferTypes' BY <1>2, <1>3 DEF TransferInv, TransferTypes
<1>5. SendsAsked'
  <2>1. ASSUME NEW t \in Send, t.to = s.to, Due(t) = Due(s)
        PROVE  Asked(t.to, Due(t))'
    BY <1>1, <1>2, <2>1 DEF Asked, Due, SealVault, IsSealed
  <2>2. ASSUME NEW t \in sending PROVE Asked(t.to, Due(t))'
    BY <1>2, <2>2 DEF TransferInv, SendsAsked, Asked, Due, SealVault, IsSealed
  <2>3. QED BY <1>3, <2>1, <2>2 DEF SendsAsked
<1>6. DirectAsked'
  <2>1. CASE DirectSend(s)
    <3>1. s.pc = "direct" BY <2>1 DEF DirectSend
    <3>2. \A d \in direct' : d \in direct \/ d = [to |-> s.to, payload |-> s.payload]
      BY <2>1 DEF DirectSend
    <3>3. Asked(s.to, s.payload) BY <1>1, <3>1 DEF Due
    <3>4. QED BY <1>2, <3>2, <3>3 DEF TransferInv, DirectAsked, Asked
  <2>2. CASE ~DirectSend(s)
    <3>1. direct' = direct
      BY <2>2 DEF SealAnswers, SealFails, DeclineRelay, RelaySend
    <3>2. QED BY <1>2, <3>1 DEF TransferInv, DirectAsked, Asked
  <2>3. QED BY <2>1, <2>2
<1>7. RelayedAsked' /\ relay \subseteq relay'
  <2>1. CASE RelaySend(s)
    <3>1. s.pc = "offered" BY <2>1 DEF RelaySend
    <3>2. PICK e : e = [id |-> s.id, payload |-> RelayPayload(s)] OBVIOUS
    <3>3. relay' = relay \/ (s.to = Reader /\ relay' = relay \cup {e})
      BY <2>1, <3>2 DEF RelaySend
    <3>4. e.payload.inner = s.payload BY <3>2 DEF RelayPayload, Wrapped
    <3>5. Asked(s.to, s.payload) BY <1>1, <3>1 DEF Due
    <3>6. QED BY <1>2, <3>3, <3>4, <3>5 DEF TransferInv, RelayedAsked, Asked
  <2>2. CASE ~RelaySend(s)
    <3>1. relay' = relay
      BY <2>2 DEF SealAnswers, SealFails, DeclineRelay, DirectSend
    <3>2. QED BY <1>2, <3>1 DEF TransferInv, RelayedAsked, Asked
  <2>3. QED BY <2>1, <2>2
<1>8. FetchedIsKnown' /\ AckedIsShown'
  BY <1>2, <1>7 DEF TransferInv, FetchedIsKnown, AckedIsShown
<1>9. QED BY <1>4, <1>5, <1>6, <1>7, <1>8 DEF TransferInv

\* The reading page learns what is in the relay and takes from it only what
\* it has shown.
LEMMA ReadingKeeps ==
  ASSUME TransferInv,
         \/ ClickInbox \/ RelayReads \/ InboxAnswers \/ InboxFails \/ AckArrives \/ AckLost
         \/ \E e \in list : OpenRow(e)
  PROVE  TransferInv'
<1>1. UNCHANGED <<json, ticked, modal, sending, begun, asked, direct>>
  BY DEF ClickInbox, RelayReads, InboxAnswers, InboxFails, AckArrives, AckLost, OpenRow,
         senderVars
<1>2. TransferTypes' /\ SendsAsked' /\ DirectAsked'
  BY <1>1 DEF TransferInv, TransferTypes, SendsAsked, DirectAsked, Asked
<1>3. relay' \cup listed' \subseteq relay \cup listed
  BY DEF TransferInv, FetchedIsKnown, ClickInbox, RelayReads, InboxAnswers, InboxFails, AckArrives,
         AckLost, OpenRow
<1>4. relay \cup listed \subseteq relay' \cup listed'
  BY DEF TransferInv, AckedIsShown, ClickInbox, RelayReads, InboxAnswers, InboxFails, AckArrives,
         AckLost, OpenRow
<1>5. RelayedAsked'
  BY <1>1, <1>3 DEF TransferInv, RelayedAsked, Asked
<1>6. FetchedIsKnown'
  <2>1. fetch'.got \subseteq relay \cup listed
    BY DEF TransferInv, FetchedIsKnown, ClickInbox, RelayReads, InboxAnswers, InboxFails, AckArrives,
           AckLost, OpenRow, Idle
  <2>2. QED BY <1>4, <2>1 DEF FetchedIsKnown
<1>7. AckedIsShown'
  BY DEF TransferInv, AckedIsShown, ClickInbox, RelayReads, InboxAnswers, InboxFails, AckArrives,
         AckLost, OpenRow
<1>8. QED BY <1>2, <1>5, <1>6, <1>7 DEF TransferInv

LEMMA TransferStepKeeps == TransferInv /\ [TransferNext]_transferVars => TransferInv'
<1> SUFFICES ASSUME TransferInv, [TransferNext]_transferVars PROVE TransferInv'
  OBVIOUS
<1>1. CASE UNCHANGED transferVars
  BY <1>1 DEF transferVars, senderVars, readerVars, TransferInv, TransferTypes, SendsAsked, DirectAsked, RelayedAsked,
              FetchedIsKnown, AckedIsShown, Asked
<1>2. CASE TransferNext
  BY <1>2, EditingKeeps, ClickKeeps, SendStepKeeps, ReadingKeeps DEF TransferNext
<1>3. QED BY <1>1, <1>2

LEMMA TransferInvariant == TransferSpec => []TransferInv
  BY TransferInitHolds, TransferStepKeeps, PTL DEF TransferSpec

\* What leaves the page is the vault on display at the click, for the peer
\* clicked and sealed as the box said (sendToPeer, pairing.js:437-507): for any
\* number of sends, peers and vaults.
THEOREM SpecSentAsAsked == TransferSpec => []SentAsAsked
<1>1. TransferInv => SentAsAsked
  <2> SUFFICES ASSUME TransferInv, NEW d \in Left
               PROVE  \E a \in asked : /\ a.to = d.to /\ a.vault = d.payload.inner
                                       /\ a.seal = IsSealed(d.payload)
    BY DEF SentAsAsked
  <2>1. CASE d \in direct BY <2>1 DEF TransferInv, DirectAsked, Asked
  <2>2. CASE \E e \in relay \cup listed : d = [to |-> Reader, payload |-> e.payload.inner]
    BY <2>2 DEF TransferInv, RelayedAsked, Asked
  <2>3. QED BY <2>1, <2>2 DEF Left
<1>2. QED BY TransferInvariant, <1>1, PTL

\* The relay loses only what the reading page has shown (renderInbox,
\* pairing.js:581-583): whatever arrives between a fetch and its acks stays.
THEOREM SpecGoneWasShown == TransferSpec => GoneWasShown
<1>1. TransferInv /\ [TransferNext]_transferVars => [\A e \in relay \ relay' : e \in listed]_transferVars
  <2> SUFFICES ASSUME TransferInv, TransferNext PROVE \A e \in relay \ relay' : e \in listed
    BY DEF transferVars
  <2>1. CASE AckArrives BY <2>1 DEF TransferInv, AckedIsShown, AckArrives
  <2>2. CASE ~AckArrives
    <3>1. relay \subseteq relay'
      <4>1. CASE \/ \E v \in Vaults : Lock(v)
                 \/ TickSeal \/ OpenSendModal \/ CloseSendModal
                 \/ \E p \in Recipients : Unpair(p) \/ RowRemoved(p) \/ ClickPeer(p)
        BY <4>1 DEF Lock, TickSeal, OpenSendModal, CloseSendModal, Unpair, RowRemoved, ClickPeer
      <4>2. CASE \E s \in sending : \/ SealAnswers(s) \/ SealFails(s) \/ DirectSend(s)
                                  \/ DeclineRelay(s) \/ RelaySend(s)
        BY <4>2 DEF SealAnswers, SealFails, DirectSend, DeclineRelay, RelaySend
      <4>3. CASE ClickInbox \/ RelayReads \/ InboxAnswers \/ InboxFails \/ AckLost
                 \/ \E e \in list : OpenRow(e)
        BY <4>3 DEF ClickInbox, RelayReads, InboxAnswers, InboxFails, AckLost, OpenRow
      <4>4. QED BY <2>2, <4>1, <4>2, <4>3 DEF TransferNext
    <3>2. QED BY <3>1
  <2>3. QED BY <2>1, <2>2
<1>2. QED BY TransferInvariant, <1>1, PTL DEF TransferSpec, GoneWasShown

-------------------------------------------------------------------------------
(***************************************************************************)
(* What the chat page keeps apart, for any peers and phrases and any       *)
(* number of commands under way: messages are sealed under a phrase        *)
(* entered for their peer, the input bar is gone while a conversation is   *)
(* locked, and plaintext of a locked one is about to leave the display.    *)
(*                                                                         *)
(* A key is kept only for the peer the dialog named (KeysAreEntered): an   *)
(* unlock answers for whoever is active by then, and the dialog, which     *)
(* covers the page, lets nobody else become active (DialogNamesActive).    *)
(***************************************************************************)
Keys == {DeriveKey(Me, p, phrase) : p \in Peers, phrase \in Phrases}
SealedHi == [key : Keys, nonce : {0}, aad : {<<>>}, body : {"hi"}, intact : {TRUE}]
Rightful == {s \in [to : Peers, stored : BOOLEAN, ct : SealedHi] :
               <<s.to, s.ct.key[1].typed>> \in entered}

Call(S) == [peer : Peers \cup {None}, from : S]

ChatUiTypes ==
  /\ keys \in [Peers -> Keys \cup {NoKey}]
  /\ active \in Peers \cup {None}
  /\ dialog \in [title : Peers \cup {None}, by : {None, "unlock", "pairing"}]
  /\ \E S : calls \in Seq(Call(S))
  /\ view.peer \in Peers \cup {None}

SendsAreRightful == sends \in Seq(Rightful)
DialogNamesActive ==
  DialogShown /\ dialog.by # "pairing" => active \in {dialog.title, None}
KeysAreEntered ==
  \A p \in Peers : keys[p] # NoKey => <<p, keys[p][1].typed>> \in entered
BarMeansUnlocked == bar /\ active # None => keys[active] # NoKey

ChatUiInv == /\ ChatUiTypes /\ SendsAreRightful /\ DialogNamesActive /\ KeysAreEntered
        /\ BarMeansUnlocked /\ PlaintextIsOnItsWayOut /\ NeverAskedToUnlockFirst

---------------------------------------------------------------------------
\* A derived key is a key, made from the phrase.
LEMMA KeyFacts ==
  ASSUME NEW p, NEW phrase
  PROVE  /\ DeriveKey(Me, p, phrase) # NoKey
         /\ DeriveKey(Me, p, phrase)[1].typed = phrase
  BY DEF DeriveKey, ChatKey, Heard, NoKey

LEMMA KeyInKeys ==
  ASSUME NEW p \in Peers, NEW phrase \in Phrases
  PROVE  DeriveKey(Me, p, phrase) \in Keys
  BY DEF Keys

\* A further call leaves a sequence of calls that is not empty.
LEMMA LoadFacts ==
  ASSUME NEW p \in Peers \cup {None}, \E S : calls \in Seq(Call(S)), Load(p)
  PROVE  calls' # <<>> /\ \E S : calls' \in Seq(Call(S))
<1>1. PICK S : calls \in Seq(Call(S)) OBVIOUS
<1>2. PICK n : calls' = Append(calls, [peer |-> p, from |-> n]) BY DEF Load
<1>3. calls \in Seq(Call(S \cup {n}))
  <2>1. Call(S) \subseteq Call(S \cup {n}) BY DEF Call
  <2>2. QED BY <1>1, <2>1, SeqGrows
<1>4. [peer |-> p, from |-> n] \in Call(S \cup {n}) BY DEF Call
<1>5. calls' \in Seq(Call(S \cup {n})) /\ Len(calls') = Len(calls) + 1
  BY <1>2, <1>3, <1>4, AppendProperties
<1>6. Len(calls) \in Nat BY <1>1, LenProperties
<1>7. Len(calls) + 1 # 0 /\ Len(<<>>) = 0 BY <1>6, EmptySeq
<1>8. QED BY <1>5, <1>7

\* What was rightful stays so when more has been entered.
LEMMA RightfulGrows ==
  ASSUME entered \subseteq entered', SendsAreRightful, UNCHANGED sends
  PROVE  SendsAreRightful'
<1>1. Rightful \subseteq Rightful' BY DEF Rightful
<1>2. QED BY <1>1, SeqGrows DEF SendsAreRightful

LEMMA ChatUiInitHolds == ChatInit => ChatUiInv
<1> SUFFICES ASSUME ChatInit PROVE ChatUiInv
  OBVIOUS
<1>1. ChatUiTypes /\ SendsAreRightful
  <2>1. <<>> \in Seq(Call({})) /\ <<>> \in Seq(Rightful) BY EmptySeq
  <2>2. QED BY <2>1 DEF ChatInit, ChatUiTypes, SendsAreRightful, NoDialog
<1>2. QED
  BY <1>1 DEF ChatInit, ChatUiInv, DialogNamesActive, DialogShown, KeysAreEntered, BarMeansUnlocked,
              PlaintextIsOnItsWayOut, NeverAskedToUnlockFirst

---------------------------------------------------------------------------
\* Conversations are opened, left and locked.
LEMMA OpenKeeps ==
  ASSUME ChatUiInv, NEW p \in Peers, OpenChat(p)
  PROVE  ChatUiInv'
<1>1. /\ active' = p /\ bar' = (keys[p] # NoKey) /\ ~DialogShown
      /\ UNCHANGED <<keys, dialog, sends, view, alerted, entered>>
  BY DEF OpenChat, Covered
<1>2. calls' # <<>> /\ \E S : calls' \in Seq(Call(S))
  BY LoadFacts DEF OpenChat, ChatUiInv, ChatUiTypes
<1>3. QED
  BY <1>1, <1>2, RightfulGrows
  DEF ChatUiInv, ChatUiTypes, DialogNamesActive, DialogShown, KeysAreEntered, BarMeansUnlocked,
      PlaintextIsOnItsWayOut, NeverAskedToUnlockFirst

LEMMA LeaveKeeps ==
  ASSUME ChatUiInv, ThreadBack \/ OwnHexAnswers
  PROVE  ChatUiInv'
<1>1. /\ UNCHANGED <<keys, bar, dialog, calls, sends, view, alerted, entered>>
      /\ active' \in {active, None}
  BY DEF ThreadBack, OwnHexAnswers
<1>2. QED
  BY <1>1, RightfulGrows
  DEF ChatUiInv, ChatUiTypes, DialogNamesActive, DialogShown, KeysAreEntered, BarMeansUnlocked,
      PlaintextIsOnItsWayOut, NeverAskedToUnlockFirst

LEMMA LockKeeps ==
  ASSUME ChatUiInv, DoLock
  PROVE  ChatUiInv'
<1>1. /\ active \in Peers /\ keys' = [keys EXCEPT ![active] = NoKey] /\ bar' = FALSE
      /\ UNCHANGED <<active, dialog, sends, view, alerted, entered>>
  BY DEF DoLock, ChatUiInv, ChatUiTypes
<1>2. calls' # <<>> /\ \E S : calls' \in Seq(Call(S))
  BY LoadFacts DEF DoLock, ChatUiInv, ChatUiTypes
<1>3. keys' \in [Peers -> Keys \cup {NoKey}]
      /\ \A p \in Peers : keys'[p] # NoKey => keys'[p] = keys[p]
  BY <1>1 DEF ChatUiInv, ChatUiTypes
<1>4. KeysAreEntered' BY <1>1, <1>3 DEF ChatUiInv, KeysAreEntered
<1>5. QED
  BY <1>1, <1>2, <1>3, <1>4, RightfulGrows
  DEF ChatUiInv, ChatUiTypes, DialogNamesActive, DialogShown, BarMeansUnlocked,
      PlaintextIsOnItsWayOut, NeverAskedToUnlockFirst

---------------------------------------------------------------------------
\* The dialog is opened, answered or cancelled.
LEMMA AskKeeps ==
  ASSUME ChatUiInv, PromptUnlock \/ \E p \in Peers : PairingAsks(p)
  PROVE  ChatUiInv'
<1>1. UNCHANGED <<keys, active, bar, calls, sends, view, alerted, entered>>
  BY DEF PromptUnlock, PairingAsks
<1>2. /\ dialog' \in [title : Peers \cup {None}, by : {None, "unlock", "pairing"}]
      /\ dialog'.by # "pairing" => dialog'.title = active
  BY DEF PromptUnlock, PairingAsks, ShowPhraseDialog, ChatUiInv, ChatUiTypes
<1>3. QED
  BY <1>1, <1>2, RightfulGrows
  DEF ChatUiInv, ChatUiTypes, DialogNamesActive, DialogShown, KeysAreEntered, BarMeansUnlocked,
      PlaintextIsOnItsWayOut, NeverAskedToUnlockFirst

LEMMA CancelKeeps ==
  ASSUME ChatUiInv, PhraseCancel
  PROVE  ChatUiInv'
<1>1. /\ UNCHANGED <<keys, active, bar, calls, sends, view, alerted, entered>>
      /\ dialog' = NoDialog
  BY DEF PhraseCancel
<1>2. dialog' \in [title : Peers \cup {None}, by : {None, "unlock", "pairing"}] /\ ~DialogShown'
  BY <1>1 DEF NoDialog, DialogShown
<1>3. QED
  BY <1>1, <1>2, RightfulGrows
  DEF ChatUiInv, ChatUiTypes, DialogNamesActive, KeysAreEntered, BarMeansUnlocked,
      PlaintextIsOnItsWayOut, NeverAskedToUnlockFirst

\* The phrase becomes the key of the peer the dialog names, or of nobody.
LEMMA PhraseKeeps ==
  ASSUME ChatUiInv, NEW phrase \in Phrases \cup {""}, PhraseOk(phrase)
  PROVE  ChatUiInv'
<1>1. PICK q : q = IF dialog.by = "pairing" THEN dialog.title ELSE active OBVIOUS
<1>2. PICK k : k = DeriveKey(Me, q, phrase) OBVIOUS
<1>3. /\ DialogShown /\ dialog' = NoDialog
      /\ entered' = entered \cup {<<dialog.title, phrase>>}
      /\ UNCHANGED <<active, sends, view, alerted>>
  BY DEF PhraseOk
<1>4. dialog' \in [title : Peers \cup {None}, by : {None, "unlock", "pairing"}] /\ ~DialogShown'
  BY <1>3 DEF NoDialog, DialogShown
<1>5. DialogNamesActive' BY <1>4 DEF DialogNamesActive
<1>6. CASE phrase # "" /\ q # None /\ own
  <2>1. /\ q \in Peers /\ q = dialog.title /\ phrase \in Phrases
    BY <1>1, <1>3, <1>6 DEF ChatUiInv, ChatUiTypes, DialogNamesActive
  <2>2. k \in Keys /\ k # NoKey /\ k[1].typed = phrase
    <3>1. k \in Keys BY <1>2, <2>1, KeyInKeys
    <3>2. QED BY <1>2, <3>1, KeyFacts
  <2>3. keys' = [keys EXCEPT ![q] = k]
    BY <1>1, <1>2, <1>6 DEF PhraseOk
  <2>4. /\ keys' \in [Peers -> Keys \cup {NoKey}] /\ keys'[q] = k
        /\ \A p \in Peers : p # q => keys'[p] = keys[p]
    BY <2>1, <2>2, <2>3 DEF ChatUiInv, ChatUiTypes
  <2>5. \/ dialog.by = "unlock" /\ bar' = TRUE /\ Load(q)
        \/ dialog.by # "unlock" /\ UNCHANGED <<bar, calls>>
    BY <1>1, <1>6 DEF PhraseOk
  <2>6. (calls' = calls \/ calls' # <<>>) /\ \E S : calls' \in Seq(Call(S))
    BY <2>1, <2>5, LoadFacts DEF ChatUiInv, ChatUiTypes
  <2>7. ChatUiTypes' BY <1>3, <1>4, <2>4, <2>6 DEF ChatUiInv, ChatUiTypes
  <2>8. KeysAreEntered'
    <3> SUFFICES ASSUME NEW p \in Peers, keys'[p] # NoKey
                 PROVE  <<p, keys'[p][1].typed>> \in entered'
      BY DEF KeysAreEntered
    <3>1. CASE p = q BY <1>3, <2>1, <2>2, <2>4, <3>1
    <3>2. CASE p # q BY <1>3, <2>4, <3>2 DEF ChatUiInv, KeysAreEntered
    <3>3. QED BY <3>1, <3>2
  <2>9. BarMeansUnlocked'
    <3> SUFFICES ASSUME bar', active # None PROVE keys'[active] # NoKey
      BY <1>3 DEF BarMeansUnlocked
    <3>1. active \in Peers BY DEF ChatUiInv, ChatUiTypes
    <3>2. CASE active = q BY <2>2, <2>4, <3>2
    <3>3. CASE active # q
      <4>1. bar' = bar BY <1>1, <2>5, <3>3
      <4>2. QED BY <2>4, <3>1, <3>3, <4>1 DEF ChatUiInv, BarMeansUnlocked
    <3>4. QED BY <3>2, <3>3
  <2>10. PlaintextIsOnItsWayOut'
    <3> SUFFICES ASSUME view.peer # None, view.word # None, keys'[view.peer] = NoKey
                 PROVE  calls' # <<>>
      BY <1>3 DEF PlaintextIsOnItsWayOut
    <3>1. view.peer # q BY <2>2, <2>4
    <3>2. keys[view.peer] = NoKey BY <2>3, <3>1 DEF ChatUiInv, ChatUiTypes
    <3>3. QED BY <2>6, <3>2 DEF ChatUiInv, PlaintextIsOnItsWayOut
  <2>11. QED
    BY <1>3, <1>5, <2>7, <2>8, <2>9, <2>10, RightfulGrows DEF ChatUiInv, NeverAskedToUnlockFirst
<1>7. CASE ~(phrase # "" /\ q # None /\ own)
  <2>1. keys' = keys /\ UNCHANGED <<bar, calls>> BY <1>1, <1>7 DEF PhraseOk
  <2>2. QED
    BY <1>3, <1>4, <1>5, <2>1, RightfulGrows
    DEF ChatUiInv, ChatUiTypes, KeysAreEntered, BarMeansUnlocked, PlaintextIsOnItsWayOut,
        NeverAskedToUnlockFirst
<1>8. QED BY <1>6, <1>7

---------------------------------------------------------------------------
\* Messages are sealed with the key of their peer.
LEMMA SendKeeps ==
  ASSUME ChatUiInv, DoSend
  PROVE  ChatUiInv'
<1>1. /\ bar /\ active \in Peers
      /\ UNCHANGED <<keys, active, bar, dialog, calls, view, entered>>
  BY DEF DoSend, ChatUiInv, ChatUiTypes
<1>2. keys[active] # NoKey /\ keys[active] \in Keys
  BY <1>1 DEF DoSend, ChatUiInv, ChatUiTypes, BarMeansUnlocked
<1>3. PICK s : s = [to |-> active, stored |-> FALSE, ct |-> EncryptMessage("hi", keys[active])]
  OBVIOUS
<1>4. sends' = Append(sends, s) /\ alerted' = alerted
  BY <1>2, <1>3 DEF DoSend
<1>5. s \in Rightful
  <2>1. s.ct = [key |-> keys[active], nonce |-> 0, aad |-> <<>>, body |-> "hi",
                intact |-> TRUE]
    BY <1>3 DEF EncryptMessage, Seal
  <2>2. s.ct \in SealedHi BY <1>2, <2>1 DEF SealedHi
  <2>3. <<active, keys[active][1].typed>> \in entered
    BY <1>1, <1>2 DEF ChatUiInv, KeysAreEntered
  <2>4. QED BY <1>1, <1>3, <2>1, <2>2, <2>3 DEF Rightful
<1>6. Rightful' = Rightful BY <1>1 DEF Rightful
<1>7. SendsAreRightful'
  BY <1>4, <1>5, <1>6, AppendProperties DEF ChatUiInv, SendsAreRightful
<1>8. QED
  BY <1>1, <1>4, <1>7
  DEF ChatUiInv, ChatUiTypes, DialogNamesActive, DialogShown, KeysAreEntered, BarMeansUnlocked,
      PlaintextIsOnItsWayOut, NeverAskedToUnlockFirst

LEMMA SettleKeeps ==
  ASSUME ChatUiInv, NEW i \in DOMAIN sends, SendStores(i) \/ SendSettles(i)
  PROVE  ChatUiInv'
<1>1. UNCHANGED <<keys, active, bar, dialog, view, alerted, entered>>
  BY DEF SendStores, SendSettles
<1>2. (calls' = calls \/ calls' # <<>>) /\ \E S : calls' \in Seq(Call(S))
  BY LoadFacts DEF SendStores, SendSettles, ChatUiInv, ChatUiTypes
<1>3. sends' \in Seq(Rightful)
  <2>1. CASE SendStores(i)
    <3>1. sends[i] \in Rightful /\ Len(sends) \in Nat /\ DOMAIN sends = 1..Len(sends)
          /\ \A j \in 1..Len(sends) : sends[j] \in Rightful
      BY LenProperties, ElementOfSeq DEF ChatUiInv, SendsAreRightful
    <3>2. PICK t : t = [sends[i] EXCEPT !.stored = TRUE] OBVIOUS
    <3>3. t \in Rightful BY <3>1, <3>2 DEF Rightful
    <3>4. sends' = [sends EXCEPT ![i] = t] BY <2>1, <3>2 DEF SendStores
    <3>5. sends \in [1..Len(sends) -> Rightful]
      BY LenProperties DEF ChatUiInv, SendsAreRightful
    <3>6. sends' \in [1..Len(sends) -> Rightful] BY <3>3, <3>4, <3>5
    <3>7. QED BY <3>1, <3>6, SeqDef
  <2>2. CASE SendSettles(i)
    BY <2>2, WithoutType DEF SendSettles, ChatUiInv, SendsAreRightful
  <2>3. QED BY <2>1, <2>2
<1>4. SendsAreRightful' BY <1>1, <1>3 DEF SendsAreRightful, Rightful
<1>5. QED
  BY <1>1, <1>2, <1>4
  DEF ChatUiInv, ChatUiTypes, DialogNamesActive, DialogShown, KeysAreEntered, BarMeansUnlocked,
      PlaintextIsOnItsWayOut, NeverAskedToUnlockFirst

\* An answer shows the thread with the keys of the moment.
LEMMA AnswerKeeps ==
  ASSUME ChatUiInv, NEW i \in DOMAIN calls, HistoryAnswers(i) \/ HistoryFails(i)
  PROVE  ChatUiInv'
<1>1. UNCHANGED <<keys, active, bar, dialog, sends, alerted, entered>>
  BY DEF HistoryAnswers, HistoryFails
<1>2. \E S : calls' \in Seq(Call(S))
  BY WithoutType DEF HistoryAnswers, HistoryFails, ChatUiInv, ChatUiTypes
<1>3. PICK n : RenderMessages(calls[i].peer, n)
  BY DEF HistoryAnswers, HistoryFails
<1>4. calls[i].peer \in Peers \cup {None}
  <2>1. PICK S : calls \in Seq(Call(S)) BY DEF ChatUiInv, ChatUiTypes
  <2>2. calls[i] \in Call(S) BY <2>1, LenProperties, ElementOfSeq
  <2>3. QED BY <2>2 DEF Call
<1>5. view'.peer = calls[i].peer BY <1>3 DEF RenderMessages
<1>6. view'.word # None => view'.peer # None /\ keys[view'.peer] # NoKey
  BY <1>3 DEF RenderMessages
<1>7. QED
  BY <1>1, <1>2, <1>4, <1>5, <1>6, RightfulGrows
  DEF ChatUiInv, ChatUiTypes, DialogNamesActive, DialogShown, KeysAreEntered, BarMeansUnlocked,
      PlaintextIsOnItsWayOut, NeverAskedToUnlockFirst

LEMMA NewsKeeps ==
  ASSUME ChatUiInv, FetchNewMessages \/ \E p \in Peers, phrase \in Phrases : PeerWrites(p, phrase)
  PROVE  ChatUiInv'
<1>1. UNCHANGED <<keys, active, bar, dialog, sends, view, alerted, entered>>
  BY DEF FetchNewMessages, PeerWrites
<1>2. (calls' = calls \/ calls' # <<>>) /\ \E S : calls' \in Seq(Call(S))
  BY LoadFacts DEF FetchNewMessages, PeerWrites, ChatUiInv, ChatUiTypes
<1>3. QED
  BY <1>1, <1>2, RightfulGrows
  DEF ChatUiInv, ChatUiTypes, DialogNamesActive, DialogShown, KeysAreEntered, BarMeansUnlocked,
      PlaintextIsOnItsWayOut, NeverAskedToUnlockFirst

---------------------------------------------------------------------------
LEMMA ChatUiStepKeeps == ChatUiInv /\ [ChatNext]_chatVars => ChatUiInv'
<1> SUFFICES ASSUME ChatUiInv, [ChatNext]_chatVars PROVE ChatUiInv'
  OBVIOUS
<1>1. CASE UNCHANGED chatVars
  BY <1>1, RightfulGrows
  DEF chatVars, ChatUiInv, ChatUiTypes, DialogNamesActive, DialogShown, KeysAreEntered, BarMeansUnlocked,
      PlaintextIsOnItsWayOut, NeverAskedToUnlockFirst
<1>2. CASE ChatNext
  BY <1>2, OpenKeeps, LeaveKeeps, LockKeeps, AskKeeps, CancelKeeps, PhraseKeeps, SendKeeps,
     SettleKeeps, AnswerKeeps, NewsKeeps DEF ChatNext
<1>3. QED BY <1>1, <1>2

LEMMA ChatUiInvariant == ChatSpec => []ChatUiInv
  BY ChatUiInitHolds, ChatUiStepKeeps, PTL DEF ChatSpec

\* Whatever chat_send gets was sealed under a phrase that was entered while
\* the dialog named the very peer it goes to (promptUnlock, chat-ui.js:357-368).
THEOREM SpecSentUnderItsPhrase == ChatSpec => []SentUnderItsPhrase
<1>1. ChatUiInv => SentUnderItsPhrase
  <2> SUFFICES ASSUME ChatUiInv, NEW i \in DOMAIN sends
               PROVE  <<sends[i].to, sends[i].ct.key[1].typed>> \in entered
    BY DEF SentUnderItsPhrase
  <2>1. sends[i] \in Rightful
    BY LenProperties, ElementOfSeq DEF ChatUiInv, SendsAreRightful
  <2>2. QED BY <2>1 DEF Rightful
<1>2. QED BY ChatUiInvariant, <1>1, PTL

\* Plaintext of a locked conversation stays on display only while an answer is
\* under way (doLock, chat-ui.js:370-381).
THEOREM SpecPlaintextIsOnItsWayOut == ChatSpec => []PlaintextIsOnItsWayOut
<1>1. ChatUiInv => PlaintextIsOnItsWayOut BY DEF ChatUiInv
<1>2. QED BY ChatUiInvariant, <1>1, PTL

\* Nobody is told to unlock first: the input bar is only there for a
\* conversation whose key is known (doSend, chat-ui.js:525-527).
THEOREM SpecNeverAskedToUnlockFirst == ChatSpec => []NeverAskedToUnlockFirst
<1>1. ChatUiInv => NeverAskedToUnlockFirst BY DEF ChatUiInv
<1>2. QED BY ChatUiInvariant, <1>1, PTL

---------------------------------------------------------------------------
\* What the two devices of a conversation seal for each other, and what is on
\* display of it.  A key is the one of its peer and of some phrase; whatever is
\* sent, stored or shown of a thread was sealed with such a key of that thread.
KeyFor(p, k) == \E phrase \in Phrases : k = DeriveKey(Me, p, phrase)
SealedFor(p) == {EncryptMessage(text, DeriveKey(Me, p, phrase)) : text \in {"hi", "yo"},
                                                              phrase \in Phrases}
KeysFit == \A p \in Peers : keys[p] = NoKey \/ KeyFor(p, keys[p])
SendsAreSealed == \A i \in DOMAIN sends : sends[i].ct \in SealedFor(sends[i].to)
ThreadsAreSealed == DOMAIN store = Peers /\ \A p \in Peers : store[p] \in Seq(SealedFor(p))
ReadInv == KeysFit /\ SendsAreSealed /\ ThreadsAreSealed /\ SamePhraseReads

\* Both devices derive one key of one phrase (deriveKey, chat-ui.js:128-146).
LEMMA SameKeyBothWays ==
  ASSUME NEW p, NEW phrase
  PROVE  DeriveKey(p, Me, phrase) = DeriveKey(Me, p, phrase)
<1>1. {p, Me} = {Me, p}
  OBVIOUS
<1> QED
  BY <1>1 DEF DeriveKey

LEMMA SealedIs ==
  ASSUME NEW p, NEW c \in SealedFor(p)
  PROVE  \E text \in {"hi", "yo"}, phrase \in Phrases :
           /\ c.key = ChatKey(Heard(phrase), {Me, p}) /\ c.key[1] = Heard(phrase)
           /\ c.nonce = 0 /\ c.aad = <<>> /\ c.body = text /\ c.intact = TRUE
<1>1. PICK text, phrase :
        text \in {"hi", "yo"} /\ phrase \in Phrases /\ c = EncryptMessage(text, DeriveKey(Me, p, phrase))
  BY DEF SealedFor
<1>2. /\ c.key = ChatKey(Heard(phrase), {Me, p})
      /\ c.nonce = 0 /\ c.aad = <<>> /\ c.body = text /\ c.intact = TRUE
  BY <1>1 DEF EncryptMessage, Seal, DeriveKey
<1>3. c.key[1] = Heard(phrase)
  BY <1>2 DEF ChatKey
<1> QED
  BY <1>1, <1>2, <1>3

\* What an envelope copied from a locked thread opens with (decryptChatEnvelope).
LEMMA CopyOpens ==
  ASSUME NEW p, NEW c \in SealedFor(p), NEW env,
         env = [ids |-> {Me, p}, nonce |-> c.nonce, ct |-> c, missing |-> {}]
  PROVE  DecryptChatEnvelope(env, c.key[1]) = Plain(c.body)
<1>1. PICK phrase, heard : /\ phrase \in Phrases /\ heard = Heard(phrase)
                           /\ c.key = ChatKey(heard, {Me, p}) /\ c.key[1] = heard
                           /\ c.nonce = 0 /\ c.aad = <<>> /\ c.intact = TRUE
  BY SealedIs
<1>2. PICK r : r = DecryptChatEnvelope(env, heard)
  OBVIOUS
<1>3. env.missing = {} /\ env.ct = c /\ env.ids = {Me, p} /\ env.nonce = c.nonce
  OBVIOUS
<1>4. Speaks(heard)
  <2>1. heard.typed = phrase
    BY <1>1 DEF Heard
  <2>2. phrase # ""
    BY <1>1, PhrasesAreNotEmpty, Zenon
  <2> QED
    BY <2>1, <2>2, Zenon DEF Speaks
<1>5. PICK err \in Errors \cup {"none"} :
        /\ Judgement(r, err, IF Opens(env.ct, ChatKey(heard, env.ids), env.nonce, <<>>)
                             THEN Plain(env.ct.body) ELSE Refused("auth"))
        /\ env.missing = {} /\ Speaks(heard) => err = "none"
  BY <1>2, ChatAnswers, Zenon
<1>6. Judgement(r, "none", IF Opens(env.ct, ChatKey(heard, env.ids), env.nonce, <<>>)
                           THEN Plain(env.ct.body) ELSE Refused("auth"))
  BY <1>3, <1>4, <1>5
<1>7. Opens(env.ct, ChatKey(heard, env.ids), env.nonce, <<>>)
  BY <1>1, <1>3 DEF Opens
<1> QED
  BY <1>1, <1>2, <1>3, <1>6, <1>7 DEF Judgement

\* A message on display, with the key of the moment.
LEMMA BubbleReads ==
  ASSUME NEW p \in Peers, keys[p] = NoKey \/ KeyFor(p, keys[p]), NEW c \in SealedFor(p),
         NEW b, b = Bubble(p, c),
         NEW word, word = IF keys[p] = NoKey THEN None ELSE keys[p][1].typed
  PROVE  /\ word # None => (b.shown = b.ct.body <=> word = b.ct.key[1].typed)
         /\ b.copy # NoEnvelope => DecryptChatEnvelope(b.copy, b.ct.key[1]) = Plain(b.ct.body)
<1>1. PICK text \in {"hi", "yo"}, phrase \in Phrases :
        /\ c.key = ChatKey(Heard(phrase), {Me, p}) /\ c.key[1] = Heard(phrase)
        /\ c.nonce = 0 /\ c.aad = <<>> /\ c.body = text /\ c.intact = TRUE
  BY SealedIs, Zenon
<1>2. CASE keys[p] = NoKey
  <2>1. b.ct = c /\ word = None
    BY <1>2 DEF Bubble
  <2>2. b.copy = IF ~own THEN NoEnvelope
                 ELSE [ids |-> {Me, p}, nonce |-> c.nonce, ct |-> c, missing |-> {}]
    BY <1>2 DEF Bubble
  <2> QED
    BY <2>1, <2>2, CopyOpens
<1>3. CASE keys[p] # NoKey
  <2>1. b.ct = c /\ b.copy = NoEnvelope /\ word = keys[p][1].typed
        /\ b.shown = IF Opens(c, keys[p], 0, <<>>) THEN c.body ELSE "can't decrypt"
    BY <1>3 DEF Bubble
  <2>2. PICK typed : keys[p] = ChatKey(Heard(typed), {Me, p})
    BY <1>3 DEF KeyFor, DeriveKey
  <2>3. PICK mine, theirs : mine = Heard(typed) /\ theirs = Heard(phrase)
    OBVIOUS
  <2>4. mine.typed = typed /\ theirs.typed = phrase /\ (mine = theirs <=> typed = phrase)
    BY <2>3 DEF Heard
  <2>5. keys[p] = <<mine, {Me, p}>> /\ c.key = <<theirs, {Me, p}>>
    BY <1>1, <2>2, <2>3 DEF ChatKey
  <2>6. word = typed
    <3>1. keys[p][1] = mine
      BY <2>5
    <3> QED
      BY <2>1, <2>4, <3>1
  <2>7. c.key[1].typed = phrase
    <3>1. c.key[1] = theirs
      BY <2>5
    <3> QED
      BY <2>4, <3>1
  <2>8. Opens(c, keys[p], 0, <<>>) <=> c.key = keys[p]
    BY <1>1, Zenon DEF Opens
  <2>9. c.key = keys[p] <=> mine = theirs
    BY <2>5
  <2>10. c.body # "can't decrypt"
    BY <1>1
  <2>11. Opens(c, keys[p], 0, <<>>) <=> typed = phrase
    BY <2>4, <2>8, <2>9
  <2> QED
    BY <2>1, <2>6, <2>7, <2>10, <2>11
<1> QED
  BY <1>2, <1>3

LEMMA ReadInitHolds == ChatInit => ReadInv
<1> SUFFICES ASSUME ChatInit PROVE ReadInv
  OBVIOUS
<1>1. /\ keys = [p \in Peers |-> NoKey] /\ sends = <<>> /\ store = [p \in Peers |-> <<>>]
      /\ view.bubbles = <<>>
  BY DEF ChatInit
<1>2. \A p : <<>> \in Seq(SealedFor(p))
  BY EmptySeq
<1> QED
  BY <1>1, <1>2 DEF ReadInv, KeysFit, SendsAreSealed, ThreadsAreSealed, SamePhraseReads

\* A thread that is not displayed anew shows what it showed.
LEMMA UnseenKeeps ==
  ASSUME ReadInv, UNCHANGED <<sends, store, view>>, KeysFit'
  PROVE  ReadInv'
  BY DEF ReadInv, SendsAreSealed, ThreadsAreSealed, SamePhraseReads

\* Keys are set only as derived for their peer, or forgotten.
LEMMA KeysKept ==
  ASSUME ChatUiInv, ReadInv,
         \/ OwnHexAnswers \/ ThreadBack \/ DoLock \/ PromptUnlock \/ PhraseCancel
         \/ FetchNewMessages \/ \E p \in Peers : OpenChat(p) \/ PairingAsks(p)
         \/ \E phrase \in Phrases \cup {""} : PhraseOk(phrase)
  PROVE  ReadInv'
<1>1. UNCHANGED <<sends, store, view>>
  BY DEF OwnHexAnswers, ThreadBack, DoLock, PromptUnlock, PhraseCancel, FetchNewMessages,
         OpenChat, PairingAsks, PhraseOk
<1>2. KeysFit'
  <2>1. CASE keys' = keys
    BY <2>1 DEF ReadInv, KeysFit
  <2>2. CASE DoLock
    <3>1. keys' = [keys EXCEPT ![active] = NoKey] /\ DOMAIN keys = Peers
      BY <2>2 DEF DoLock, ChatUiInv, ChatUiTypes
    <3> QED
      BY <3>1 DEF ReadInv, KeysFit
  <2>3. ASSUME NEW phrase \in Phrases \cup {""}, PhraseOk(phrase) PROVE KeysFit'
    <3>1. PICK q : q = IF dialog.by = "pairing" THEN dialog.title ELSE active
      OBVIOUS
    <3>2. \/ keys' = keys
          \/ phrase # "" /\ q # None /\ keys' = [keys EXCEPT ![q] = DeriveKey(Me, q, phrase)]
      BY <2>3, <3>1 DEF PhraseOk
    <3>3. CASE phrase # "" /\ q # None /\ keys' = [keys EXCEPT ![q] = DeriveKey(Me, q, phrase)]
      <4>1. DOMAIN keys = Peers
        BY DEF ChatUiInv, ChatUiTypes
      <4>2. KeyFor(q, DeriveKey(Me, q, phrase))
        BY <2>3, <3>3 DEF KeyFor
      <4> QED
        BY <3>3, <4>1, <4>2 DEF ReadInv, KeysFit
    <3> QED
      BY <2>1, <3>2, <3>3
  <2>4. keys' = keys \/ DoLock \/ \E phrase \in Phrases \cup {""} : PhraseOk(phrase)
    BY DEF OwnHexAnswers, ThreadBack, PromptUnlock, PhraseCancel, FetchNewMessages,
           OpenChat, PairingAsks
  <2> QED
    BY <2>1, <2>2, <2>3, <2>4
<1> QED
  BY <1>1, <1>2, UnseenKeeps

\* Messages are sent and stored as sealed for their thread.
LEMMA MessagesAreSealed ==
  ASSUME ChatUiInv, ReadInv,
         \/ DoSend \/ \E i \in DOMAIN sends : SendStores(i) \/ SendSettles(i)
         \/ \E p \in Peers, phrase \in Phrases : PeerWrites(p, phrase)
  PROVE  ReadInv'
<1>1. keys' = keys /\ view' = view
  BY DEF DoSend, SendStores, SendSettles, PeerWrites
<1>2. KeysFit' /\ SamePhraseReads'
  BY <1>1 DEF ReadInv, KeysFit, SamePhraseReads
<1>3. sends \in Seq(Rightful)
  BY DEF ChatUiInv, SendsAreRightful
<1>4. Len(sends) \in Nat /\ DOMAIN sends = 1..Len(sends)
      /\ \A i \in DOMAIN sends : sends[i].to \in Peers /\ DOMAIN sends[i] = {"to", "stored", "ct"}
  <2>1. Len(sends) \in Nat /\ DOMAIN sends = 1..Len(sends)
    BY <1>3, LenProperties
  <2>2. ASSUME NEW i \in DOMAIN sends, NEW s, s = sends[i]
        PROVE  s.to \in Peers /\ DOMAIN s = {"to", "stored", "ct"}
    <3>1. s \in Rightful
      BY <1>3, <2>1, <2>2, ElementOfSeq
    <3>2. s \in [to : Peers, stored : BOOLEAN, ct : SealedHi]
      BY <3>1 DEF Rightful
    <3> QED
      BY <3>2
  <2> QED
    BY <2>1, <2>2
<1>5. CASE DoSend
  <2>1. store' = store /\ active \in Peers
    BY <1>5 DEF DoSend, ChatUiInv, ChatUiTypes
  <2>2. CASE keys[active] = NoKey
    BY <1>2, <1>5, <2>1, <2>2 DEF DoSend, ReadInv, SendsAreSealed, ThreadsAreSealed
  <2>3. CASE keys[active] # NoKey
    <3>1. PICK s : /\ s = [to |-> active, stored |-> FALSE,
                           ct |-> EncryptMessage("hi", keys[active])]
                   /\ sends' = Append(sends, s)
      BY <1>5, <2>3 DEF DoSend
    <3>2. s.ct \in SealedFor(s.to) /\ s.to = active
      <4>1. PICK phrase \in Phrases : keys[active] = DeriveKey(Me, active, phrase)
        BY <2>1, <2>3 DEF ReadInv, KeysFit, KeyFor
      <4> QED
        BY <3>1, <4>1 DEF SealedFor
    <3>3. \A i \in DOMAIN sends' : sends'[i] = s \/ (i \in DOMAIN sends /\ sends'[i] = sends[i])
      BY <1>3, <1>4, <3>1, AppendProperties
    <3>4. SendsAreSealed'
      BY <3>2, <3>3 DEF ReadInv, SendsAreSealed
    <3> QED
      BY <1>2, <2>1, <3>4 DEF ReadInv, ThreadsAreSealed
  <2> QED
    BY <2>2, <2>3
<1>6. ASSUME NEW i \in DOMAIN sends, SendStores(i) PROVE ReadInv'
  <2>1. PICK to, ct : to = sends[i].to /\ ct = sends[i].ct
    OBVIOUS
  <2>2. /\ sends' = [sends EXCEPT ![i].stored = TRUE]
        /\ store' = [store EXCEPT ![to] = Append(@, ct)]
    BY <1>6, <2>1 DEF SendStores
  <2>3. to \in Peers /\ ct \in SealedFor(to)
    BY <1>4, <2>1 DEF ReadInv, SendsAreSealed
  <2>4. \A p \in Peers : store'[p] \in Seq(SealedFor(p))
    <3> SUFFICES ASSUME NEW p \in Peers PROVE store'[p] \in Seq(SealedFor(p))
      OBVIOUS
    <3>1. store[p] \in Seq(SealedFor(p)) /\ DOMAIN store = Peers
      BY DEF ReadInv, ThreadsAreSealed
    <3>2. CASE p = to
      BY <2>2, <2>3, <3>1, <3>2, AppendProperties
    <3>3. CASE p # to
      BY <2>2, <3>1, <3>3
    <3> QED
      BY <3>2, <3>3
  <2>5. \A j \in DOMAIN sends' : j \in DOMAIN sends /\ sends'[j].to = sends[j].to
                                 /\ sends'[j].ct = sends[j].ct
    BY <1>4, <2>2
  <2> QED
    BY <1>2, <2>2, <2>4, <2>5 DEF ReadInv, SendsAreSealed, ThreadsAreSealed
<1>7. ASSUME NEW i \in DOMAIN sends, SendSettles(i) PROVE ReadInv'
  <2>1. sends' = Without(sends, i) /\ store' = store
    BY <1>7 DEF SendSettles
  <2>2. PICK kept : kept = {s \in Rightful : s.ct \in SealedFor(s.to)}
    OBVIOUS
  <2>3. sends \in Seq(kept)
    <3>1. \A j \in 1..Len(sends) : sends[j] \in kept
      BY <1>3, <1>4, <2>2, ElementOfSeq DEF ReadInv, SendsAreSealed
    <3>2. sends \in [1..Len(sends) -> kept]
      BY <1>3, <3>1, LenProperties
    <3> QED
      BY <1>4, <3>2, SeqDef
  <2>4. sends' \in Seq(kept)
    BY <2>1, <2>3, WithoutType
  <2>5. \A j \in DOMAIN sends' : sends'[j] \in kept
    BY <2>4, LenProperties, ElementOfSeq
  <2> QED
    BY <1>2, <2>1, <2>2, <2>5 DEF ReadInv, SendsAreSealed, ThreadsAreSealed
<1>8. ASSUME NEW p \in Peers, NEW phrase \in Phrases, PeerWrites(p, phrase) PROVE ReadInv'
  <2>1. PICK c : c = EncryptMessage("yo", DeriveKey(Me, p, phrase))
    OBVIOUS
  <2>2. sends' = sends /\ store' = [store EXCEPT ![p] = Append(@, c)]
    BY <1>8, <2>1, SameKeyBothWays DEF PeerWrites
  <2>3. c \in SealedFor(p)
    BY <2>1 DEF SealedFor
  <2>4. \A q \in Peers : store'[q] \in Seq(SealedFor(q))
    <3> SUFFICES ASSUME NEW q \in Peers PROVE store'[q] \in Seq(SealedFor(q))
      OBVIOUS
    <3>1. store[q] \in Seq(SealedFor(q)) /\ DOMAIN store = Peers
      BY DEF ReadInv, ThreadsAreSealed
    <3>2. CASE q = p
      BY <2>2, <2>3, <3>1, <3>2, AppendProperties
    <3>3. CASE q # p
      BY <2>2, <3>1, <3>3
    <3> QED
      BY <3>2, <3>3
  <2> QED
    BY <1>2, <2>2, <2>4 DEF ReadInv, SendsAreSealed, ThreadsAreSealed
<1> QED
  BY <1>5, <1>6, <1>7, <1>8

\* An answer is shown with the keys of the moment.
LEMMA AnswersAreRead ==
  ASSUME ChatUiInv, ReadInv, NEW i \in DOMAIN calls, HistoryAnswers(i) \/ HistoryFails(i)
  PROVE  ReadInv'
<1>1. keys' = keys /\ sends' = sends /\ store' = store
  BY DEF HistoryAnswers, HistoryFails
<1>2. calls[i].peer \in Peers \cup {None}
  <2>1. PICK S : calls \in Seq(Call(S))
    BY DEF ChatUiInv, ChatUiTypes
  <2>2. calls[i] \in Call(S)
    BY <2>1, LenProperties, ElementOfSeq
  <2> QED
    BY <2>2 DEF Call
<1>3. PICK p, n : /\ p = calls[i].peer /\ RenderMessages(p, n)
                  /\ \/ n = 0
                     \/ p \in Peers /\ \E from : n \in from .. Len(store[p])
  BY <1>2 DEF HistoryAnswers, HistoryFails
<1>4. PICK word : word = IF p = None \/ keys[p] = NoKey THEN None ELSE keys[p][1].typed
  OBVIOUS
<1>5. /\ view'.word = word
      /\ view'.bubbles = [j \in 1..n |-> Bubble(p, store[p][j])]
  BY <1>3, <1>4 DEF RenderMessages
<1>6. ASSUME NEW j \in 1..n, NEW b, b = Bubble(p, store[p][j])
      PROVE  /\ word # None => (b.shown = b.ct.body <=> word = b.ct.key[1].typed)
             /\ b.copy # NoEnvelope => DecryptChatEnvelope(b.copy, b.ct.key[1]) = Plain(b.ct.body)
  <2>1. p \in Peers /\ store[p] \in Seq(SealedFor(p))
    BY <1>3 DEF ReadInv, ThreadsAreSealed
  <2>2. j \in 1..Len(store[p])
    <3>1. Len(store[p]) \in Nat
      BY <2>1, LenProperties
    <3> QED
      BY <1>3, <3>1
  <2>3. PICK c \in SealedFor(p) : c = store[p][j]
    BY <2>1, <2>2, ElementOfSeq
  <2>4. keys[p] = NoKey \/ KeyFor(p, keys[p])
    BY <2>1 DEF ReadInv, KeysFit
  <2>5. CASE p = None
    <3>1. word = None
      BY <1>4, <2>5
    <3>2. PICK w : w = IF keys[p] = NoKey THEN None ELSE keys[p][1].typed
      OBVIOUS
    <3> QED
      BY <1>6, <2>1, <2>3, <2>4, <3>1, <3>2, BubbleReads
  <2>6. CASE p # None
    <3>1. word = IF keys[p] = NoKey THEN None ELSE keys[p][1].typed
      BY <1>4, <2>6
    <3> QED
      BY <1>6, <2>1, <2>3, <2>4, <3>1, BubbleReads
  <2> QED
    BY <2>5, <2>6
<1>7. SamePhraseReads'
  <2> SUFFICES ASSUME NEW j \in DOMAIN view'.bubbles, NEW b, b = view'.bubbles[j]
               PROVE  /\ view'.word # None => (b.shown = b.ct.body <=> view'.word = b.ct.key[1].typed)
                      /\ b.copy # NoEnvelope =>
                           DecryptChatEnvelope(b.copy, b.ct.key[1]) = Plain(b.ct.body)
    BY DEF SamePhraseReads
  <2>1. j \in 1..n /\ b = Bubble(p, store[p][j])
    BY <1>5
  <2> QED
    BY <1>5, <1>6, <2>1
<1> QED
  BY <1>1, <1>7 DEF ReadInv, KeysFit, SendsAreSealed, ThreadsAreSealed

LEMMA ReadStepKeeps == ChatUiInv /\ ReadInv /\ [ChatNext]_chatVars => ReadInv'
<1> SUFFICES ASSUME ChatUiInv, ReadInv, [ChatNext]_chatVars PROVE ReadInv'
  OBVIOUS
<1>1. CASE UNCHANGED chatVars
  BY <1>1 DEF chatVars, ReadInv, KeysFit, SendsAreSealed, ThreadsAreSealed, SamePhraseReads
<1>2. CASE ChatNext
  BY <1>2, KeysKept, MessagesAreSealed, AnswersAreRead DEF ChatNext
<1> QED
  BY <1>1, <1>2

\* "Both sides produce the same key" (chat-ui.js:129-132): whatever is on display
\* of a thread reads exactly under the phrase its writer typed, on either
\* device, and what is copied of a locked thread opens on the vault page under it.
THEOREM SpecSamePhraseReads == ChatSpec => []SamePhraseReads
<1>1. ReadInv => SamePhraseReads
  BY DEF ReadInv
<1> QED
  BY <1>1, ReadInitHolds, ReadStepKeeps, ChatUiInvariant, PTL DEF ChatSpec

-------------------------------------------------------------------------------
(***************************************************************************)
(* What the QNotify page promises, for any topics, phrases and texts, any  *)
(* number of messages, watches and polls, and answers in any order: what   *)
(* is published is the form as it stood at a click, the phrase named next  *)
(* to a message opens it, and a watch shows each message of its topic      *)
(* once.                                                                   *)
(*                                                                         *)
(* The last needs to know what every poll under way is about to show: what *)
(* waits for libsodium is marked as seen and shown nowhere else            *)
(* (AboutToShow), and what an answer will leave unseen is none of the      *)
(* watch's messages up to its time marker (AnswersFollow, QueuesFollow).   *)
(***************************************************************************)
Form == [topic : Topics \cup {None}, text : Texts \cup {"", "m"}, phrase : TopicPhrases \cup {""}]
Ids == 1..Len(server)

\* What is being published was in the form at a click.
PublishInv ==
  /\ side \in {"publish", "watch"} /\ server \in Seq(Form)
  /\ pub \in Form /\ clicked \subseteq Form
  /\ \/ publishing = NotPublishing
     \/ \E f \in clicked, pc \in {"encrypt", "posted"} : publishing = [pc |-> pc, form |-> f]
  /\ PublishedAsTyped

PollRecord == [n : Nat, topic : Topics, after : Nat, round : Nat, pc : {"asked", "rendering"},
               at : Nat, phrase : TopicPhrases \cup {None}, queue : SUBSET Nat, from : Nat]
WatchTypes ==
  /\ ready \in BOOLEAN /\ stale \in BOOLEAN /\ starts \in Nat /\ polled \in Nat
  /\ watch \in [topic : Topics \cup {None}, phrase : TopicPhrases \cup {None}, last : 0..Len(server),
                seen : SUBSET Ids]
  /\ polls \subseteq PollRecord
  /\ \A k \in polls : /\ k.round <= starts /\ k.after <= Len(server)
                      /\ k.pc = "rendering" => k.at \in Ids /\ k.queue \subseteq Ids
  /\ \A e \in inbox : e.id \in Ids /\ e.round \in Nat /\ e.round <= starts

Rendering == {k \in polls : k.pc = "rendering"}

\* What has been shown in this watch, or is about to be, is marked as seen;
\* what is about to be shown is so once.
AboutToShow ==
  /\ \A e \in inbox : e.round = starts => e.id \in watch.seen
  /\ \A k \in Rendering : k.round = starts => k.at \in watch.seen
  /\ \A k, l \in Rendering : k.round = l.round /\ k.at = l.at => k = l
  /\ \A k \in Rendering, e \in inbox : ~(e.round = k.round /\ e.id = k.at)

\* The messages of topic t up to id j are among S.
Complete(t, j, S) == \A id \in 1..j : server[id].topic = t => id \in S

OfThisWatch == {k \in polls : k.round = starts}
AnswersFollow ==
  \A k \in OfThisWatch : k.pc = "asked" => Complete(k.topic, k.after, watch.seen)
QueuesFollow ==
  \A k \in OfThisWatch : k.pc = "rendering" =>
    \A j \in k.queue : Complete(k.topic, j, watch.seen \cup k.queue)
SkipsNothing ==
  ~stale => /\ watch.topic # None => /\ \A k \in OfThisWatch : k.topic = watch.topic
                                    /\ Complete(watch.topic, watch.last, watch.seen)
            /\ AnswersFollow /\ QueuesFollow

WatchInv == WatchTypes /\ AboutToShow /\ NothingTwice /\ SkipsNothing /\ NamedPhraseOpens
IInv == PublishInv /\ WatchInv
-------------------------------------------------------------------------------
\* The newest of some messages, and the oldest.
LEMMA NewestIs ==
  ASSUME NEW n \in Nat, NEW S \in SUBSET (0..n), S # {}
  PROVE  MaxOf(S) \in S /\ \A k \in S : k <= MaxOf(S)
<1> DEFINE T == {b \in Nat : \A k \in S : k <= b}
<1>1. n \in T
  OBVIOUS
<1>2. PICK b \in T : \A c \in T : b <= c
  BY <1>1, LeastNumber
<1>3. b \in S
  <2> SUFFICES ASSUME b \notin S PROVE FALSE
    OBVIOUS
  <2>1. \A k \in S : k < b
    BY <1>2
  <2>0. PICK j : j \in S
    OBVIOUS
  <2>2. b - 1 \in Nat /\ \A k \in S : k <= b - 1
    BY <1>2, <2>0, <2>1
  <2>3. b - 1 \in T
    BY <2>2
  <2> QED
    BY <1>2, <2>3
<1> QED
  BY <1>2, <1>3 DEF MaxOf

LEMMA OldestIs ==
  ASSUME NEW S \in SUBSET Nat, S # {}
  PROVE  MinOf(S) \in S /\ \A k \in S : MinOf(S) <= k
<1>1. PICK b \in S : \A c \in S : b <= c
  BY LeastNumber
<1> QED
  BY <1>1 DEF MinOf

\* Messages published later change none of those there.
LEMMA ServerGrows ==
  ASSUME NEW S, NEW s \in Seq(S), NEW x \in S
  PROVE  /\ Append(s, x) \in Seq(S) /\ Len(s) \in Nat /\ Len(Append(s, x)) = Len(s) + 1
         /\ \A i \in 1..Len(s) : Append(s, x)[i] = s[i]
         /\ DOMAIN s = 1..Len(s) /\ DOMAIN Append(s, x) = 1..(Len(s) + 1)
         /\ Append(s, x)[Len(s) + 1] = x
  BY AppendProperties, LenProperties

\* A message that is unlocked gives its text and nothing else
\* (notify.js:196-222).
LEMMA Unlocked ==
  ASSUME NEW v, NEW heard, NotifyDecryptMessage(v, heard).ok
  PROVE  NotifyDecryptMessage(v, heard) = Plain(NotifyDecryptMessage(v, heard).text)
  BY DEF NotifyDecryptMessage, OpenTwoLayers, Plain, Refused, Unsupported

\* What an entry names opens it.
EntryOpens(e) ==
  e.used # None => NotifyDecryptMessage(Envelope(e.id), HeardPhrase(e.used)) = Plain(e.text)
LEMMA EntryIs ==
  ASSUME NEW k, NEW id, NEW phrase, NEW round
  PROVE  /\ Entry(k, id, phrase, round).id = id
         /\ Entry(k, id, phrase, round).round = round
         /\ EntryOpens(Entry(k, id, phrase, round))
<1> DEFINE r == IF phrase = None THEN Refused("no phrase")
                ELSE NotifyDecryptMessage(Envelope(id), HeardPhrase(phrase))
           e == Entry(k, id, phrase, round)
<1>1. e = [id |-> id, poll |-> k.n, round |-> round, text |-> r.text,
           used |-> IF r.ok THEN phrase ELSE None]
  BY DEF Entry, NamedPhrase
<1>2. phrase = None => ~r.ok
  BY DEF Refused
<1>3. r.ok /\ phrase # None => NotifyDecryptMessage(Envelope(id), HeardPhrase(phrase)) = Plain(r.text)
  BY Unlocked
<1> HIDE DEF e, r
<1>4. e.id = id /\ e.round = round /\ e.text = r.text /\ e.used = IF r.ok THEN phrase ELSE None
  BY <1>1
<1>5. EntryOpens(e)
  BY <1>2, <1>3, <1>4 DEF EntryOpens
<1> QED
  BY <1>4, <1>5 DEF e

-------------------------------------------------------------------------------
\* Publishing seals the form of the click (onPublish, notify.js:278-307).
LEMMA PublishInit == NotifyInit => PublishInv
<1> SUFFICES ASSUME NotifyInit PROVE PublishInv
  OBVIOUS
<1>1. <<>> \in Seq(Form) /\ DOMAIN <<>> = {}
  BY EmptySeq
<1>2. pub \in Form
  BY DEF NotifyInit, Form
<1> QED
  BY <1>1, <1>2 DEF NotifyInit, PublishInv, PublishedAsTyped

LEMMA PublishStep ==
  ASSUME PublishInv, NotifyNext
  PROVE  PublishInv'
<1>1. side' = side
  BY DEF NotifyNext, SodiumReady, TypePublish, ClickPublish, PublishPosts, PublishAnswers, PublishFails,
     OthersPublish, StopWatching, PollTimer, StartWatching, AnswerComes, AnswerFails, RenderResumes
<1>2. CASE UNCHANGED <<server, publishVars>>
  BY <1>1, <1>2 DEF PublishInv, PublishedAsTyped, publishVars
<1>3. CASE TypePublish
  <2>1. pub' \in Form
    BY <1>3 DEF TypePublish, PublishInv, Form
  <2> QED
    BY <1>1, <1>3, <2>1 DEF TypePublish, PublishInv, PublishedAsTyped
<1>4. CASE ClickPublish
  <2>1. /\ publishing' = [pc |-> "encrypt", form |-> pub] /\ clicked' = clicked \cup {pub}
        /\ UNCHANGED <<pub, server>>
    BY <1>4 DEF ClickPublish
  <2>2. \E f \in clicked', pc \in {"encrypt", "posted"} : publishing' = [pc |-> pc, form |-> f]
    BY <2>1
  <2> QED
    BY <1>1, <2>1, <2>2 DEF PublishInv, PublishedAsTyped
<1>5. CASE PublishPosts
  <2>1. PICK f \in clicked : publishing = [pc |-> "encrypt", form |-> f]
    BY <1>5 DEF PublishPosts, PublishInv
  <2>2. f \in Form /\ f = Message(f.topic, f.text, f.phrase)
    BY DEF PublishInv, Form, Message
  <2>3. server' = Append(server, f)
    BY <1>5, <2>1, <2>2 DEF PublishPosts, Sealed
  <2>4. publishing' = [pc |-> "posted", form |-> f] /\ UNCHANGED <<pub, clicked>>
    BY <1>5, <2>1 DEF PublishPosts
  <2>5. server' \in Seq(Form) /\ (side' = "publish" => \A id \in DOMAIN server' : server'[id] \in clicked)
    <3>1. /\ server' \in Seq(Form) /\ Len(server) \in Nat
          /\ DOMAIN server = 1..Len(server) /\ DOMAIN server' = 1..(Len(server) + 1)
          /\ \A i \in 1..Len(server) : server'[i] = server[i]
          /\ server'[Len(server) + 1] = f
      BY <2>2, <2>3, ServerGrows DEF PublishInv
    <3>2. side' = "publish" => \A i \in DOMAIN server : server[i] \in clicked
      BY <1>1 DEF PublishInv, PublishedAsTyped
    <3> QED
      BY <3>1, <3>2
  <2> QED
    BY <1>1, <2>4, <2>5 DEF PublishInv, PublishedAsTyped
<1>6. CASE PublishAnswers \/ PublishFails
  <2>1. publishing' = NotPublishing /\ UNCHANGED <<server, clicked>>
        /\ (pub' = pub \/ pub' = [pub EXCEPT !.text = ""])
    BY <1>6 DEF PublishAnswers, PublishFails
  <2>2. pub' \in Form
    BY <2>1 DEF PublishInv, Form
  <2> QED
    BY <1>1, <2>1, <2>2 DEF PublishInv, PublishedAsTyped
<1>7. CASE OthersPublish
  <2>1. /\ side' = "watch" /\ UNCHANGED <<pub, publishing, clicked>>
        /\ \E t \in Topics, p \in TopicPhrases : server' = Append(server, Message(t, "m", p))
    BY <1>1, <1>7 DEF OthersPublish, Watching, publishVars
  <2>2. \A t \in Topics, p \in TopicPhrases : Message(t, "m", p) \in Form
    BY DEF Message, Form
  <2>3. server' \in Seq(Form)
    BY <2>1, <2>2, AppendProperties DEF PublishInv
  <2> QED
    BY <2>1, <2>3 DEF PublishInv, PublishedAsTyped
<1> QED
  BY <1>2, <1>3, <1>4, <1>5, <1>6, <1>7 DEF NotifyNext, SodiumReady, StopWatching, PollTimer,
     StartWatching, AnswerComes, AnswerFails, RenderResumes

\* The server only grows.
LEMMA ServerStep ==
  ASSUME PublishInv, NotifyNext
  PROVE  /\ Len(server) \in Nat /\ Len(server') \in Nat /\ Len(server) <= Len(server')
         /\ \A i \in Ids : server'[i] = server[i]
<1>1. server \in Seq(Form) /\ Len(server) \in Nat
  BY LenProperties DEF PublishInv
<1>2. CASE server' = server
  BY <1>1, <1>2
<1>3. CASE \E f \in Form : server' = Append(server, f)
  BY <1>1, <1>3, ServerGrows DEF Ids
<1>4. PublishPosts => \E f \in Form : server' = Append(server, f)
  <2> SUFFICES ASSUME PublishPosts PROVE \E f \in Form : server' = Append(server, f)
    OBVIOUS
  <2>1. PICK f \in clicked : publishing = [pc |-> "encrypt", form |-> f]
    BY DEF PublishPosts, PublishInv
  <2>2. f \in Form /\ f = Message(f.topic, f.text, f.phrase)
    BY DEF PublishInv, Form, Message
  <2> QED
    BY <2>1, <2>2 DEF PublishPosts, Sealed
<1>5. OthersPublish => \E f \in Form : server' = Append(server, f)
  <2>1. \A t \in Topics, p \in TopicPhrases : Message(t, "m", p) \in Form
    BY DEF Message, Form
  <2> QED
    BY <2>1 DEF OthersPublish
<1> QED
  BY <1>2, <1>3, <1>4, <1>5 DEF NotifyNext, SodiumReady, TypePublish, ClickPublish, PublishAnswers,
     PublishFails, StopWatching, PollTimer, StartWatching, AnswerComes, AnswerFails, RenderResumes

-------------------------------------------------------------------------------
\* What the loop of pollOnce comes to (notify.js:355-420): nothing is new; or
\* all that is new is shown; or the oldest waits for libsodium and holds up
\* the rest.
Marked(ids, last) ==
  /\ last \in Nat /\ watch.last <= last /\ \A i \in ids : i <= last
  /\ last \in ids \cup {watch.last}
  /\ watch' = [watch EXCEPT !.seen = watch.seen \cup ids, !.last = last]
AllShown(k, queue, box) ==
  /\ polls' = polls \ {k}
  /\ inbox' = box \cup {Entry(k, id, watch.phrase, starts) : id \in Unseen(queue)}
  /\ \E last : Marked(Unseen(queue), last)
HeldUp(k, queue, at) ==
  [k EXCEPT !.pc = "rendering", !.at = at, !.phrase = watch.phrase,
            !.queue = Unseen(queue) \ {at}, !.round = starts]
FirstWaits(k, queue, box, at) ==
  /\ ~ready /\ at \in Unseen(queue) /\ \A i \in Unseen(queue) : at <= i
  /\ polls' = (polls \ {k}) \cup {HeldUp(k, queue, at)}
  /\ inbox' = box
  /\ \E last : Marked({at}, last)

LEMMA MarkedIs ==
  ASSUME PublishInv, WatchTypes, NEW ids \in SUBSET Ids,
         watch' = [watch EXCEPT !.seen = watch.seen \cup ids, !.last = MaxOf(ids \cup {watch.last})]
  PROVE  \E last : Marked(ids, last)
<1> DEFINE S == ids \cup {watch.last}
<1>1. Len(server) \in Nat /\ watch.last \in 0..Len(server)
  BY LenProperties DEF PublishInv, WatchTypes
<1>2. S \in SUBSET (0..Len(server)) /\ S # {}
  BY <1>1 DEF Ids
<1>3. MaxOf(S) \in S /\ \A i \in S : i <= MaxOf(S)
  BY <1>1, <1>2, NewestIs
<1>5. /\ MaxOf(S) \in Nat /\ watch.last <= MaxOf(S) /\ \A i \in ids : i <= MaxOf(S)
      /\ MaxOf(S) \in ids \cup {watch.last}
  <2> DEFINE m == MaxOf(S)
  <2>1. m \in S /\ (\A i \in S : i <= m)
    BY <1>3
  <2>3. S \subseteq Nat
    <3> HIDE DEF S
    <3> QED
      BY <1>1, <1>2
  <2> HIDE DEF m
  <2>2. m \in Nat /\ watch.last <= m /\ (\A i \in ids : i <= m) /\ m \in ids \cup {watch.last}
    BY <2>1, <2>3
  <2> QED
    BY <2>2 DEF m
<1>4. Marked(ids, MaxOf(S))
  BY <1>5 DEF Marked
<1> QED
  BY <1>4

LEMMA ShowIs ==
  ASSUME PublishInv, WatchTypes, NEW k \in polls, NEW queue \in SUBSET Ids, NEW box,
         Show(k, queue, box)
  PROVE  \/ polls' = polls \ {k} /\ inbox' = box /\ watch' = watch
         \/ AllShown(k, queue, box)
         \/ \E at : FirstWaits(k, queue, box, at)
<1> DEFINE new == Unseen(queue)
           at == MinOf(new)
<1>0. Len(server) \in Nat
  BY LenProperties DEF PublishInv
<1>5. Ids \subseteq Nat
  BY <1>0 DEF Ids
<1>6. new \in SUBSET Ids
  BY DEF Unseen
<1>1. new \in SUBSET Ids /\ Ids \subseteq Nat
  BY <1>5, <1>6
<1>2. CASE new = {}
  BY <1>2 DEF Show
<1>3. CASE new # {} /\ (ready \/ watch.phrase = None)
  <2>1. /\ polls' = polls \ {k}
        /\ inbox' = box \cup {Entry(k, id, watch.phrase, starts) : id \in new}
        /\ watch' = [watch EXCEPT !.seen = watch.seen \cup new, !.last = MaxOf(new \cup {watch.last})]
    BY <1>3 DEF Show
  <2>2. \E last : Marked(new, last)
    BY <1>1, <2>1, MarkedIs
  <2> QED
    BY <2>1, <2>2 DEF AllShown
<1>4. CASE new # {} /\ ~(ready \/ watch.phrase = None)
  <2>1. at \in new /\ \A i \in new : at <= i
    BY <1>1, <1>4, OldestIs
  <2>2. /\ polls' = (polls \ {k}) \cup {HeldUp(k, queue, at)}
        /\ inbox' = box
        /\ watch' = [watch EXCEPT !.seen = watch.seen \cup {at}, !.last = MaxOf({at} \cup {watch.last})]
    BY <1>4 DEF Show, HeldUp
  <2>3. \E last : Marked({at}, last)
    <3>1. {at} \in SUBSET Ids
      BY <1>1, <2>1
    <3> HIDE DEF at, new
    <3> QED
      BY <2>2, <3>1, MarkedIs
  <2> QED
    BY <1>4, <2>1, <2>2, <2>3 DEF FirstWaits
<1> QED
  BY <1>2, <1>3, <1>4

\* Ids are numbers, and there are as many as messages.
LEMMA IdsAre ==
  ASSUME PublishInv
  PROVE  Len(server) \in Nat /\ Ids \subseteq Nat /\ \A i \in Ids : i <= Len(server)
<1>1. Len(server) \in Nat
  BY LenProperties DEF PublishInv
<1> QED
  BY <1>1 DEF Ids

LEMMA HeldUpIs ==
  ASSUME PublishInv, WatchTypes, NEW k \in polls, NEW queue \in SUBSET Ids, NEW at \in Unseen(queue)
  PROVE  LET h == HeldUp(k, queue, at)
         IN /\ h \in PollRecord /\ h.pc = "rendering" /\ h.at = at /\ h.round = starts
            /\ h.topic = k.topic /\ h.after = k.after /\ h.queue = Unseen(queue) \ {at}
<1>1. /\ k \in PollRecord /\ at \in Nat /\ starts \in Nat /\ watch.phrase \in TopicPhrases \cup {None}
      /\ Unseen(queue) \ {at} \in SUBSET Nat
  BY IdsAre DEF WatchTypes, Unseen
<1>2. ASSUME NEW q \in SUBSET Nat, NEW p \in TopicPhrases \cup {None}
      PROVE  LET h == [k EXCEPT !.pc = "rendering", !.at = at, !.phrase = p, !.queue = q, !.round = starts]
             IN /\ h \in PollRecord /\ h.pc = "rendering" /\ h.at = at /\ h.round = starts
                /\ h.topic = k.topic /\ h.after = k.after /\ h.queue = q
  BY <1>1 DEF PollRecord
<1> QED
  BY <1>1, <1>2 DEF HeldUp

WatchRecord(n) == [topic : Topics \cup {None}, phrase : TopicPhrases \cup {None}, last : 0..n,
                   seen : SUBSET (1..n)]
LEMMA MarkedMeans ==
  ASSUME PublishInv, WatchTypes, NEW ids \in SUBSET Ids, NEW last, Marked(ids, last)
  PROVE  /\ watch' \in WatchRecord(Len(server))
         /\ watch'.topic = watch.topic /\ watch'.seen = watch.seen \cup ids /\ watch'.last = last
<1>1. /\ watch \in WatchRecord(Len(server)) /\ Len(server) \in Nat
      /\ watch' = [watch EXCEPT !.seen = watch.seen \cup ids, !.last = last]
  BY IdsAre DEF WatchTypes, WatchRecord, Marked, Ids
<1>2. last \in 0..Len(server)
  <2>1. last \in Nat /\ last \in ids \cup {watch.last}
    BY DEF Marked
  <2>2. \A i \in ids \cup {watch.last} : i <= Len(server)
    BY IdsAre DEF WatchTypes
  <2> QED
    BY <1>1, <2>1, <2>2
<1>3. watch.seen \cup ids \in SUBSET (1..Len(server))
  BY DEF WatchTypes, Ids
<1> QED
  BY <1>1, <1>2, <1>3 DEF WatchRecord

\* The polls and entries a round of the loop brings.
LEMMA ShowBrings ==
  ASSUME PublishInv, WatchTypes, NEW k \in polls, NEW queue \in SUBSET Ids, NEW box,
         Show(k, queue, box)
  PROVE  /\ \A p \in polls' : \/ p \in polls \ {k}
                              \/ \E at \in Unseen(queue) : p = HeldUp(k, queue, at)
         /\ \A e \in inbox' : \/ e \in box
                              \/ \E id \in Unseen(queue) : e = Entry(k, id, watch.phrase, starts)
<1>1. CASE polls' = polls \ {k} /\ inbox' = box
  BY <1>1
<1>2. CASE AllShown(k, queue, box)
  <2>1. /\ polls' = polls \ {k}
        /\ inbox' = box \cup {Entry(k, id, watch.phrase, starts) : id \in Unseen(queue)}
    BY <1>2 DEF AllShown
  <2> QED
    BY <2>1
<1>3. ASSUME NEW at, FirstWaits(k, queue, box, at)
      PROVE  /\ \A p \in polls' : \/ p \in polls \ {k}
                                  \/ \E a \in Unseen(queue) : p = HeldUp(k, queue, a)
             /\ inbox' = box
  <2>1. /\ at \in Unseen(queue) /\ polls' = (polls \ {k}) \cup {HeldUp(k, queue, at)}
        /\ inbox' = box
    BY <1>3 DEF FirstWaits
  <2> QED
    BY <2>1
<1> QED
  BY <1>1, <1>2, <1>3, ShowIs

Typed(box) == \A e \in box : e.id \in Ids /\ e.round \in Nat /\ e.round <= starts

LEMMA ShowKeepsTypes ==
  ASSUME PublishInv, WatchTypes, NEW k \in polls, NEW queue \in SUBSET Ids, NEW box, Typed(box),
         Show(k, queue, box), UNCHANGED <<ready, server, starts, polled>>, stale' \in BOOLEAN
  PROVE  WatchTypes'
<1>1. starts \in Nat /\ starts <= starts /\ Ids' = Ids /\ Len(server') = Len(server)
            /\ Typed(box)' = Typed(box)
  BY DEF WatchTypes, Ids, Typed
<1>2. watch' \in WatchRecord(Len(server))
  <2>1. Unseen(queue) \in SUBSET Ids
    BY DEF Unseen
  <2>2. ASSUME NEW at, FirstWaits(k, queue, box, at) PROVE watch' \in WatchRecord(Len(server))
    <3>1. {at} \in SUBSET Ids /\ \E last : Marked({at}, last)
      BY <2>1, <2>2 DEF FirstWaits
    <3> QED
      BY <3>1, MarkedMeans
  <2>3. AllShown(k, queue, box) => watch' \in WatchRecord(Len(server))
    BY <2>1, MarkedMeans DEF AllShown
  <2>4. watch \in WatchRecord(Len(server))
    BY DEF WatchTypes, WatchRecord, Ids
  <2> QED
    BY <2>2, <2>3, <2>4, ShowIs
<1>3. \A p \in polls' : p \in polls \/ \E at \in Unseen(queue) : p = HeldUp(k, queue, at)
  BY ShowBrings
<1>4. \A p \in polls' : /\ p \in PollRecord /\ p.round <= starts /\ p.after <= Len(server)
                        /\ p.pc = "rendering" => p.at \in Ids /\ p.queue \subseteq Ids
  <2> SUFFICES ASSUME NEW p \in polls'
               PROVE  /\ p \in PollRecord /\ p.round <= starts /\ p.after <= Len(server)
                      /\ p.pc = "rendering" => p.at \in Ids /\ p.queue \subseteq Ids
    OBVIOUS
  <2>1. CASE p \in polls
    BY <2>1 DEF WatchTypes
  <2>2. ASSUME NEW at \in Unseen(queue), p = HeldUp(k, queue, at)
        PROVE  /\ p \in PollRecord /\ p.round <= starts /\ p.after <= Len(server)
               /\ p.pc = "rendering" => p.at \in Ids /\ p.queue \subseteq Ids
    <3>1. /\ p \in PollRecord /\ p.at = at /\ p.round = starts
          /\ p.after = k.after /\ p.queue = Unseen(queue) \ {at}
      BY <2>2, HeldUpIs
    <3> QED
      BY <1>1, <3>1 DEF WatchTypes, Unseen
  <2> QED
    BY <1>3, <2>1, <2>2
<1>5. Typed(inbox')
  <2>1. \A e \in inbox' : e \in box
                          \/ \E id \in Unseen(queue) : e = Entry(k, id, watch.phrase, starts)
    BY ShowBrings
  <2> QED
    BY <1>1, <2>1, EntryIs DEF Typed, Unseen
<1> QED
  BY <1>1, <1>2, <1>4, <1>5 DEF WatchTypes, WatchRecord, Typed, Ids

-------------------------------------------------------------------------------
\* Each message once: what is in box, and what the polls of R wait to show.
OnceIn(box, R) ==
  /\ \A e \in box : e.round = starts => e.id \in watch.seen
  /\ \A k \in R : k.round = starts => k.at \in watch.seen
  /\ \A k, l \in R : k.round = l.round /\ k.at = l.at => k = l
  /\ \A k \in R, e \in box : ~(e.round = k.round /\ e.id = k.at)
  /\ \A e, f \in box : e.id = f.id /\ e.round = f.round => e = f

LEMMA OnceInIsAbout == OnceIn(inbox, Rendering) <=> AboutToShow /\ NothingTwice
  BY DEF OnceIn, AboutToShow, NothingTwice

\* What was not seen before is marked, and so shown or about to be shown only
\* by the poll that found it.
LEMMA ShowKeepsOnce ==
  ASSUME PublishInv, WatchTypes, NEW k \in polls, NEW queue \in SUBSET Ids, NEW box,
         OnceIn(box, Rendering \ {k}), Show(k, queue, box), starts' = starts
  PROVE  AboutToShow' /\ NothingTwice'
<1> DEFINE R == Rendering \ {k}
           new == Unseen(queue)
<1>1. new \in SUBSET Ids /\ new \cap watch.seen = {}
  BY DEF Unseen
<1>2. OnceIn(box, R)
  OBVIOUS
<1>3. OnceIn(inbox, Rendering)' => AboutToShow' /\ NothingTwice'
  BY OnceInIsAbout, PTL
<1> HIDE DEF R, new
<1>4. CASE polls' = polls \ {k} /\ inbox' = box /\ watch' = watch
  <2>1. Rendering' = R
    BY <1>4 DEF Rendering, R
  <2> QED
    BY <1>2, <1>3, <1>4, <2>1 DEF OnceIn
<1>5. CASE AllShown(k, queue, box)
  <2>1. /\ Rendering' = R
        /\ inbox' = box \cup {Entry(k, id, watch.phrase, starts) : id \in new}
    BY <1>5 DEF AllShown, Rendering, R, new
  <2>2. watch'.seen = watch.seen \cup new
    BY <1>1, <1>5, MarkedMeans DEF AllShown, new
  <2>3. \A e \in inbox' : \/ e \in box
                          \/ \E id \in new : /\ e = Entry(k, id, watch.phrase, starts)
                                             /\ e.id = id /\ e.round = starts
    BY <2>1, EntryIs
  <2>4. \A e \in inbox' : e.round = starts => e.id \in watch'.seen
    BY <1>2, <2>2, <2>3 DEF OnceIn
  <2>5. \A l \in R : l.round = starts => l.at \in watch'.seen
    BY <1>2, <2>2 DEF OnceIn
  <2>6. \A l \in R, e \in inbox' : ~(e.round = l.round /\ e.id = l.at)
    BY <1>1, <1>2, <2>3 DEF OnceIn
  <2>7. ASSUME NEW e \in inbox', NEW f \in inbox', e.id = f.id, e.round = f.round PROVE e = f
    <3>1. CASE e \in box /\ f \in box
      BY <1>2, <2>7, <3>1 DEF OnceIn
    <3>2. CASE e \notin box /\ f \notin box
      BY <2>3, <2>7, <3>2
    <3>3. CASE e \in box /\ f \notin box
      BY <1>1, <1>2, <2>3, <2>7, <3>3 DEF OnceIn
    <3>4. CASE e \notin box /\ f \in box
      BY <1>1, <1>2, <2>3, <2>7, <3>4 DEF OnceIn
    <3> QED
      BY <3>1, <3>2, <3>3, <3>4
  <2>8. \A l, m \in R : l.round = m.round /\ l.at = m.at => l = m
    BY <1>2 DEF OnceIn
  <2> QED
    BY <1>3, <2>1, <2>4, <2>5, <2>6, <2>7, <2>8 DEF OnceIn
<1>6. ASSUME NEW at, FirstWaits(k, queue, box, at)
      PROVE  AboutToShow' /\ NothingTwice'
  <2> DEFINE h == HeldUp(k, queue, at)
  <2>1. at \in new /\ h.at = at /\ h.round = starts
    BY <1>6, HeldUpIs DEF FirstWaits, new
  <2>2. inbox' = box /\ Rendering' \subseteq R \cup {h}
    BY <1>6 DEF FirstWaits, Rendering, R
  <2> HIDE DEF h
  <2>3. watch'.seen = watch.seen \cup {at}
    <3>1. {at} \in SUBSET Ids /\ \E last : Marked({at}, last)
      BY <1>1, <1>6, <2>1 DEF FirstWaits
    <3> QED
      BY <3>1, MarkedMeans
  <2>4. at \notin watch.seen
    BY <1>1, <2>1
  <2>5. \A e \in box : e.round = starts => e.id \in watch'.seen /\ e.id # at
    BY <1>2, <2>3, <2>4 DEF OnceIn
  <2>6. \A l \in R : l.round = starts => l.at \in watch'.seen /\ l.at # at
    BY <1>2, <2>3, <2>4 DEF OnceIn
  <2>7. \A l \in R \cup {h} : l.round = starts => l.at \in watch'.seen
    BY <2>1, <2>3, <2>6
  <2>8. \A l, m \in R \cup {h} : l.round = m.round /\ l.at = m.at => l = m
    BY <1>2, <2>1, <2>6 DEF OnceIn
  <2>9. \A l \in R \cup {h}, e \in box : ~(e.round = l.round /\ e.id = l.at)
    BY <1>2, <2>1, <2>5 DEF OnceIn
  <2> QED
    BY <1>2, <1>3, <2>2, <2>5, <2>7, <2>8, <2>9 DEF OnceIn
<1> QED
  BY <1>4, <1>5, <1>6, ShowIs

-------------------------------------------------------------------------------
\* What the loop leaves behind is none of this watch's messages.
LEMMA CompleteGrows ==
  ASSUME NEW t, NEW j, NEW S, NEW T, S \subseteq T, Complete(t, j, S)
  PROVE  Complete(t, j, T)
  BY DEF Complete

\* What a round of the loop does to this watch's marks.
Follow(t, queue) == \A j \in queue : Complete(t, j, watch.seen \cup queue)
LEMMA ShowSees ==
  ASSUME PublishInv, WatchTypes, NEW k \in polls, NEW queue \in SUBSET Ids, NEW box,
         Follow(k.topic, queue), Show(k, queue, box)
  PROVE  /\ watch'.topic = watch.topic /\ watch.seen \subseteq watch'.seen
         /\ watch'.last = watch.last \/ Complete(k.topic, watch'.last, watch'.seen)
         /\ \A at \in Unseen(queue) : HeldUp(k, queue, at) \in polls' \ polls =>
              watch.seen \cup Unseen(queue) \subseteq watch'.seen \cup (Unseen(queue) \ {at})
<1> DEFINE new == Unseen(queue)
           Goal == /\ watch'.topic = watch.topic /\ watch.seen \subseteq watch'.seen
                   /\ watch'.last = watch.last \/ Complete(k.topic, watch'.last, watch'.seen)
                   /\ \A at \in new : HeldUp(k, queue, at) \in polls' \ polls =>
                        watch.seen \cup new \subseteq watch'.seen \cup (new \ {at})
<1>1. new \in SUBSET Ids /\ watch.seen \cup queue = watch.seen \cup new
  BY DEF Unseen
<1>2. \A j \in new : Complete(k.topic, j, watch.seen \cup new)
  BY <1>1 DEF Follow, Unseen
<1>3. CASE polls' = polls \ {k} /\ watch' = watch
  BY <1>3
<1>4. CASE AllShown(k, queue, box)
  <2>1. PICK last : Marked(new, last)
    BY <1>4 DEF AllShown
  <2>2. watch'.topic = watch.topic /\ watch'.seen = watch.seen \cup new /\ watch'.last = last
    BY <1>1, <2>1, MarkedMeans
  <2>3. last \in new \cup {watch.last}
    BY <2>1 DEF Marked
  <2>4. polls' = polls \ {k}
    BY <1>4 DEF AllShown
  <2> HIDE DEF new
  <2> QED
    BY <1>2, <2>2, <2>3, <2>4
<1>5. ASSUME NEW at, FirstWaits(k, queue, box, at) PROVE Goal
  <2>0. {at} \in SUBSET Ids /\ at \in new /\ \A i \in new : at <= i
    BY <1>1, <1>5 DEF FirstWaits
  <2>1. PICK last : Marked({at}, last)
    BY <1>5 DEF FirstWaits
  <2>2. watch'.topic = watch.topic /\ watch'.seen = watch.seen \cup {at} /\ watch'.last = last
    BY <2>0, <2>1, MarkedMeans
  <2>3. last = at \/ last = watch.last
    BY <2>1 DEF Marked
  <2>4. Complete(k.topic, at, watch'.seen)
    <3> SUFFICES ASSUME NEW id \in 1..at, server[id].topic = k.topic PROVE id \in watch'.seen
      BY DEF Complete
    <3>1. id \in watch.seen \cup new
      BY <1>2, <2>0 DEF Complete
    <3>2. id \in new => id = at
      <4>1. at \in Nat /\ id \in Nat /\ id <= at
        BY <2>0, IdsAre
      <4> QED
        BY <2>0, <4>1
    <3> QED
      BY <2>2, <3>1, <3>2
  <2>5. \A b \in new : HeldUp(k, queue, b) \in polls' \ polls => b = at
    <3> SUFFICES ASSUME NEW b \in new, HeldUp(k, queue, b) \in polls' \ polls PROVE b = at
      OBVIOUS
    <3>1. HeldUp(k, queue, b) = HeldUp(k, queue, at)
      BY <1>5 DEF FirstWaits
    <3>2. HeldUp(k, queue, b).at = b /\ HeldUp(k, queue, at).at = at
      BY <2>0, HeldUpIs
    <3> QED
      BY <3>1, <3>2
  <2> HIDE DEF new
  <2> QED
    BY <2>2, <2>3, <2>4, <2>5
<1> HIDE DEF Goal
<1>6. Goal
  BY <1>5, <1>3, <1>4, ShowIs DEF Goal
<1> QED
  BY <1>6 DEF Goal

LEMMA ShowKeepsSkips ==
  ASSUME PublishInv, WatchTypes, SkipsNothing, NEW k \in polls, NEW queue \in SUBSET Ids, NEW box,
         ~stale, k.round = starts, Follow(k.topic, queue), Show(k, queue, box),
         UNCHANGED <<server, starts>>
  PROVE  SkipsNothing'
<1>1. /\ watch'.topic = watch.topic /\ watch.seen \subseteq watch'.seen
      /\ watch'.last = watch.last \/ Complete(k.topic, watch'.last, watch'.seen)
  BY ShowSees
<1>2. \A t, j, S, T : S \subseteq T /\ Complete(t, j, S) => Complete(t, j, T)
  BY CompleteGrows
<1>3. k \in OfThisWatch
  BY DEF OfThisWatch
<1>4. /\ watch.topic # None => /\ \A p \in OfThisWatch : p.topic = watch.topic
                               /\ Complete(watch.topic, watch.last, watch.seen)
      /\ AnswersFollow /\ QueuesFollow
  BY DEF SkipsNothing
<1>5. \A p \in polls' : p \in polls \/ \E at \in Unseen(queue) : p = HeldUp(k, queue, at)
  BY ShowBrings
<1>6. ASSUME NEW p \in polls', p \in polls, p.round = starts
      PROVE  /\ watch.topic # None => p.topic = watch.topic
             /\ p.pc = "asked" => Complete(p.topic, p.after, watch'.seen)
             /\ p.pc = "rendering" => \A j \in p.queue : Complete(p.topic, j, watch'.seen \cup p.queue)
  <2>1. p \in OfThisWatch
    BY <1>6 DEF OfThisWatch
  <2>2. watch.seen \cup p.queue \subseteq watch'.seen \cup p.queue
    BY <1>1
  <2>3. p.pc = "asked" => Complete(p.topic, p.after, watch'.seen)
    BY <1>1, <1>2, <1>4, <2>1 DEF AnswersFollow
  <2>4. p.pc = "rendering" => \A j \in p.queue : Complete(p.topic, j, watch'.seen \cup p.queue)
    <3> SUFFICES ASSUME p.pc = "rendering", NEW j \in p.queue
                 PROVE  Complete(p.topic, j, watch'.seen \cup p.queue)
      OBVIOUS
    <3>1. Complete(p.topic, j, watch.seen \cup p.queue)
      BY <1>4, <2>1 DEF QueuesFollow
    <3> QED
      BY <2>2, <3>1, CompleteGrows
  <2> QED
    BY <1>4, <2>1, <2>3, <2>4
<1>7. ASSUME NEW p \in polls', p \notin polls
      PROVE  /\ watch.topic # None => p.topic = watch.topic
             /\ p.pc = "asked" => Complete(p.topic, p.after, watch'.seen)
             /\ p.pc = "rendering" => \A j \in p.queue : Complete(p.topic, j, watch'.seen \cup p.queue)
  <2>1. PICK at \in Unseen(queue) : p = HeldUp(k, queue, at)
    BY <1>5, <1>7
  <2>2. p.pc = "rendering" /\ p.topic = k.topic /\ p.queue = Unseen(queue) \ {at}
    BY <2>1, HeldUpIs
  <2>3. watch.seen \cup Unseen(queue) \subseteq watch'.seen \cup p.queue
    BY <1>7, <2>1, <2>2, ShowSees
  <2>4. watch.seen \cup queue = watch.seen \cup Unseen(queue)
    BY DEF Unseen
  <2>5. \A j \in p.queue : Complete(p.topic, j, watch.seen \cup Unseen(queue))
    BY <2>2, <2>4 DEF Follow, Unseen
  <2>6. \A j \in p.queue : Complete(p.topic, j, watch'.seen \cup p.queue)
    BY <1>2, <2>3, <2>5
  <2> QED
    BY <1>3, <1>4, <2>2, <2>6
<1>8. watch'.topic # None => Complete(watch'.topic, watch'.last, watch'.seen)
  <2> SUFFICES ASSUME watch.topic # None PROVE Complete(watch.topic, watch'.last, watch'.seen)
    BY <1>1
  <2>1. k.topic = watch.topic /\ Complete(watch.topic, watch.last, watch'.seen)
    BY <1>1, <1>2, <1>3, <1>4
  <2> QED
    BY <1>1, <2>1
<1>9. \A t, j, S : Complete(t, j, S)' <=> Complete(t, j, S)
  BY DEF Complete
<1>10. \A p \in OfThisWatch' : p \in polls' /\ p.round = starts
  BY DEF OfThisWatch
<1>11. AnswersFollow' /\ QueuesFollow'
  BY <1>6, <1>7, <1>9, <1>10 DEF AnswersFollow, QueuesFollow
<1>12. Complete(watch.topic, watch.last, watch.seen)' <=> Complete(watch'.topic, watch'.last, watch'.seen)
  BY DEF Complete
<1> QED
  BY <1>1, <1>6, <1>7, <1>8, <1>10, <1>11, <1>12 DEF SkipsNothing

-------------------------------------------------------------------------------
\* The phrase named next to a message keeps opening it.
LEMMA EnvelopeStays ==
  ASSUME PublishInv, NotifyNext, NEW id \in Ids
  PROVE  Envelope(id)' = Envelope(id)
<1>1. server'[id] = server[id]
  BY ServerStep
<1> QED
  BY <1>1 DEF Envelope

LEMMA NamedPhraseStep ==
  ASSUME PublishInv, WatchTypes, NamedPhraseOpens, NotifyNext,
         \A e \in inbox' : e \in inbox \/ \E k, id, phrase, round : /\ id \in Ids
                                                                    /\ e = Entry(k, id, phrase, round)
  PROVE  NamedPhraseOpens'
<1> SUFFICES ASSUME NEW e \in inbox', e.used # None
             PROVE  NotifyDecryptMessage(Envelope(e.id), HeardPhrase(e.used))' = Plain(e.text)
  BY DEF NamedPhraseOpens, HeardPhrase, Plain
<1>1. CASE e \in inbox
  <2>1. e.id \in Ids /\ NotifyDecryptMessage(Envelope(e.id), HeardPhrase(e.used)) = Plain(e.text)
    BY <1>1 DEF WatchTypes, NamedPhraseOpens
  <2>2. Envelope(e.id)' = Envelope(e.id)
    BY <2>1, EnvelopeStays
  <2> QED
    BY <2>1, <2>2 DEF NotifyDecryptMessage, HeardPhrase
<1>2. ASSUME NEW k, NEW id \in Ids, NEW phrase, NEW round, e = Entry(k, id, phrase, round)
      PROVE  NotifyDecryptMessage(Envelope(e.id), HeardPhrase(e.used))' = Plain(e.text)
  <2>1. e.id = id /\ EntryOpens(e)
    BY <1>2, EntryIs
  <2>2. Envelope(e.id)' = Envelope(e.id)
    BY <2>1, EnvelopeStays
  <2> QED
    BY <2>1, <2>2 DEF NotifyDecryptMessage, HeardPhrase, EntryOpens
<1> QED
  BY <1>1, <1>2

-------------------------------------------------------------------------------
\* The steps.
LEMMA WatchInit == NotifyInit => WatchInv
<1> SUFFICES ASSUME NotifyInit PROVE WatchInv
  OBVIOUS
<1>1. /\ watch = [topic |-> None, phrase |-> None, last |-> 0, seen |-> {}]
      /\ ready = FALSE /\ stale = FALSE /\ starts = 0 /\ polled = 0
      /\ polls = {} /\ inbox = {} /\ server = <<>>
  BY DEF NotifyInit
<1>2. Len(server) = 0
  BY <1>1
<1>3. WatchTypes
  <2>1. {} \in SUBSET Ids /\ 0 \in 0..Len(server)
    BY <1>2
  <2>2. watch \in [topic : Topics \cup {None}, phrase : TopicPhrases \cup {None}, last : 0..Len(server),
                  seen : SUBSET Ids]
    BY <1>1, <2>1
  <2> QED
    BY <1>1, <2>2 DEF WatchTypes
<1>4. AboutToShow /\ NothingTwice /\ NamedPhraseOpens
  BY <1>1 DEF AboutToShow, NothingTwice, NamedPhraseOpens, Rendering
<1>5. SkipsNothing
  BY <1>1 DEF SkipsNothing, OfThisWatch, AnswersFollow, QueuesFollow
<1> QED
  BY <1>3, <1>4, <1>5 DEF WatchInv

\* The server takes a message, or something elsewhere on the page changes.
LEMMA ElsewhereKeeps ==
  ASSUME PublishInv, WatchInv, NotifyNext, UNCHANGED watchVars, ready' \in BOOLEAN
  PROVE  WatchInv'
<1>1. /\ watch' = watch /\ starts' = starts /\ polls' = polls /\ polled' = polled
      /\ inbox' = inbox /\ stale' = stale
  BY DEF watchVars
<1>2. /\ Len(server) \in Nat /\ Len(server') \in Nat /\ Len(server) <= Len(server')
      /\ \A i \in Ids : server'[i] = server[i]
  BY ServerStep
<1>3. Ids \subseteq Ids' /\ 0..Len(server) \subseteq 0..Len(server')
  BY <1>2 DEF Ids
<1>4. WatchTypes'
  <2>1. watch' \in [topic : Topics \cup {None}, phrase : TopicPhrases \cup {None}, last : 0..Len(server'),
                    seen : SUBSET Ids']
    BY <1>1, <1>3 DEF WatchTypes, WatchInv
  <2>2. \A k \in polls : k.after <= Len(server')
    BY <1>2 DEF WatchTypes, WatchInv, PollRecord
  <2>3. \A e \in inbox : e.id \in Ids'
    BY <1>3 DEF WatchTypes, WatchInv
  <2>4. \A k \in polls : k.pc = "rendering" => k.at \in Ids' /\ k.queue \subseteq Ids'
    BY <1>3 DEF WatchTypes, WatchInv
  <2> QED
    BY <1>1, <2>1, <2>2, <2>3, <2>4 DEF WatchTypes, WatchInv
<1>5. (AboutToShow /\ NothingTwice)'
  BY <1>1 DEF WatchInv, AboutToShow, NothingTwice, Rendering
<1>6. NamedPhraseOpens'
  BY <1>1, NamedPhraseStep DEF WatchInv
<1>8. SkipsNothing'
  <2> SUFFICES ASSUME ~stale PROVE SkipsNothing'
    BY <1>1 DEF SkipsNothing
  <2>1. OfThisWatch' = OfThisWatch
    BY <1>1 DEF OfThisWatch
  <2>2. /\ watch.topic # None => /\ \A p \in OfThisWatch : p.topic = watch.topic
                                 /\ Complete(watch.topic, watch.last, watch.seen)
        /\ AnswersFollow /\ QueuesFollow
    BY DEF SkipsNothing, WatchInv
  <2>3. watch.topic # None => Complete(watch.topic, watch.last, watch.seen)'
    <3> SUFFICES ASSUME watch.topic # None PROVE Complete(watch.topic, watch.last, watch.seen)'
      OBVIOUS
    <3>1. \A id \in 1..watch.last : id \in Ids
      BY <1>2 DEF Ids, WatchInv, WatchTypes
    <3> QED
      BY <1>1, <1>2, <2>2, <3>1 DEF Complete
  <2>4. AnswersFollow'
    <3> SUFFICES ASSUME NEW k \in OfThisWatch, k.pc = "asked"
                 PROVE  Complete(k.topic, k.after, watch.seen)'
      BY <2>1 DEF AnswersFollow
    <3>1. \A id \in 1..k.after : id \in Ids
      BY <1>2 DEF Ids, WatchInv, WatchTypes, PollRecord, OfThisWatch
    <3> QED
      BY <1>1, <1>2, <2>2, <3>1 DEF Complete, AnswersFollow
  <2>5. QueuesFollow'
    <3> SUFFICES ASSUME NEW k \in OfThisWatch, k.pc = "rendering", NEW j \in k.queue
                 PROVE  Complete(k.topic, j, watch.seen \cup k.queue)'
      BY <2>1 DEF QueuesFollow
    <3>1. \A id \in 1..j : id \in Ids
      <4>1. j \in Ids
        BY DEF WatchInv, WatchTypes, OfThisWatch
      <4> QED
        BY <1>2, <4>1 DEF Ids
    <3> QED
      BY <1>1, <1>2, <2>2, <3>1 DEF Complete, QueuesFollow
  <2> QED
    BY <1>1, <2>1, <2>2, <2>3, <2>4, <2>5 DEF SkipsNothing
<1> QED
  BY <1>4, <1>5, <1>6, <1>8 DEF WatchInv

GoodPoll(k) == /\ k \in PollRecord /\ k.round <= starts /\ k.after <= Len(server)
               /\ k.pc = "rendering" => k.at \in Ids /\ k.queue \subseteq Ids
LEMMA TypesStay ==
  ASSUME PublishInv, WatchTypes, server' = server, ready' = ready, stale' \in BOOLEAN,
         starts' \in Nat, starts <= starts', polled' \in Nat, watch' \in WatchRecord(Len(server)),
         \A k \in polls' : k \in polls \/ GoodPoll(k)', inbox' \subseteq inbox
  PROVE  WatchTypes'
<1>1. Ids' = Ids /\ Len(server') = Len(server) /\ starts \in Nat
  BY DEF Ids, WatchTypes
<1>2. \A k \in polls : GoodPoll(k) /\ k.round \in Nat
  BY DEF WatchTypes, GoodPoll, PollRecord
<1>3. \A k \in polls : GoodPoll(k)'
  BY <1>1, <1>2 DEF GoodPoll
<1>4. \A k \in polls' : GoodPoll(k)'
  BY <1>3
<1>5. \A e \in inbox' : e.id \in Ids /\ e.round \in Nat /\ e.round <= starts'
  BY <1>1 DEF WatchTypes
<1>6. watch' \in [topic : Topics \cup {None}, phrase : TopicPhrases \cup {None}, last : 0..Len(server'),
                  seen : SUBSET Ids']
  BY <1>1 DEF WatchRecord, Ids
<1>7. ready' \in BOOLEAN
  BY DEF WatchTypes
<1>8. polls' \subseteq PollRecord
  BY <1>4 DEF GoodPoll
<1>9. \A k \in polls' : /\ k.round <= starts' /\ k.after <= Len(server')
                        /\ k.pc = "rendering" => k.at \in Ids' /\ k.queue \subseteq Ids'
  BY <1>4 DEF GoodPoll
<1> QED
  BY <1>1, <1>5, <1>6, <1>7, <1>8, <1>9 DEF WatchTypes

\* The first poll of a watch; the polls of earlier ones go on.
LEMMA PollIs ==
  ASSUME PublishInv, WatchTypes, NEW t \in Topics, NEW last \in 0..Len(server), starts' \in Nat
  PROVE  LET p == Poll(t, last)
         IN /\ p \in PollRecord /\ p.pc = "asked" /\ p.topic = t /\ p.after = last
            /\ p.round = starts'
<1>1. Len(server) \in Nat /\ polled \in Nat /\ last \in Nat
  BY IdsAre DEF WatchTypes
<1> QED
  BY <1>1 DEF Poll, PollRecord

LEMMA StartKeeps ==
  ASSUME PublishInv, WatchInv, NotifyNext,
         NEW t \in Topics, NEW phrase \in TopicPhrases \cup {None}, StartWatching(t, phrase)
  PROVE  WatchInv'
<1>0. PICK p : p = Poll(t, 0)
  OBVIOUS
<1>1. /\ starts' = starts + 1 /\ inbox' = {} /\ stale' = FALSE /\ polled' = polled + 1
      /\ watch' = [topic |-> t, phrase |-> phrase, last |-> 0, seen |-> {}]
      /\ UNCHANGED <<ready, server>>
  BY DEF StartWatching, Begun
<1>2. polls' = polls \cup {p}
  BY <1>0, <1>1 DEF StartWatching
<1>3. WatchTypes /\ Len(server) \in Nat /\ starts' \in Nat /\ 0 \in 0..Len(server)
  BY <1>1, IdsAre DEF WatchInv, WatchTypes
<1>4. p \in PollRecord /\ p.pc = "asked" /\ p.topic = t /\ p.after = 0 /\ p.round = starts'
  BY <1>0, <1>3, PollIs
<1>5. \A k \in polls : k.round # starts' /\ k.round <= starts'
  BY <1>1, <1>3 DEF WatchTypes, PollRecord
<1>6. OfThisWatch' = {p}
  BY <1>2, <1>4, <1>5 DEF OfThisWatch
<1>7. WatchTypes'
  <2>1. watch' \in WatchRecord(Len(server))
    BY <1>1, <1>3 DEF WatchRecord
  <2>2. GoodPoll(p)'
    <3>1. p.round <= starts' /\ p.after <= Len(server')
      BY <1>1, <1>3, <1>4
    <3> QED
      BY <1>4, <3>1 DEF GoodPoll
  <2>3. starts <= starts' /\ polled' \in Nat
    BY <1>1, <1>3 DEF WatchTypes
  <2> QED
    BY <1>1, <1>2, <1>3, <2>1, <2>2, <2>3, TypesStay
<1>8. Rendering' = Rendering
  BY <1>2, <1>4 DEF Rendering
<1>9. \A k \in Rendering : k.round # starts'
  BY <1>5 DEF Rendering
<1>10. (AboutToShow /\ NothingTwice /\ NamedPhraseOpens)'
  BY <1>1, <1>8, <1>9 DEF AboutToShow, NothingTwice, NamedPhraseOpens, WatchInv
<1>11. SkipsNothing'
  <2>1. watch'.last = 0 /\ watch'.topic = t
    BY <1>1
  <2>2. \A u, S : Complete(u, 0, S)'
    BY DEF Complete
  <2>3. AnswersFollow'
    BY <1>4, <1>6, <2>2 DEF AnswersFollow, Complete
  <2>4. QueuesFollow'
    BY <1>4, <1>6 DEF QueuesFollow
  <2>5. Complete(watch.topic, watch.last, watch.seen)'
    BY <2>1 DEF Complete
  <2> QED
    BY <1>4, <1>6, <2>1, <2>3, <2>4, <2>5 DEF SkipsNothing
<1> QED
  BY <1>7, <1>10, <1>11 DEF WatchInv

LEMMA StopKeeps ==
  ASSUME PublishInv, WatchInv, StopWatching
  PROVE  WatchInv'
<1>1. /\ watch' = [watch EXCEPT !.topic = None, !.phrase = None]
      /\ UNCHANGED <<ready, server, starts, polls, polled, inbox, stale>>
  BY DEF StopWatching
<1>2. /\ watch' \in [topic : Topics \cup {None}, phrase : TopicPhrases \cup {None}, last : 0..Len(server),
                     seen : SUBSET Ids]
      /\ watch'.topic = None /\ watch'.seen = watch.seen
  BY <1>1 DEF WatchInv, WatchTypes
<1>3. WatchTypes'
  <2>1. watch' \in WatchRecord(Len(server))
    BY <1>2 DEF WatchRecord, Ids
  <2>2. WatchTypes /\ starts \in Nat /\ starts <= starts /\ polled \in Nat /\ stale \in BOOLEAN
    BY DEF WatchInv, WatchTypes
  <2> QED
    BY <1>1, <2>1, <2>2, TypesStay
<1>4. (AboutToShow /\ NothingTwice)'
  BY <1>1, <1>2 DEF WatchInv, AboutToShow, NothingTwice, Rendering
<1>5. NamedPhraseOpens'
  BY <1>1 DEF WatchInv, NamedPhraseOpens, Envelope
<1>6. SkipsNothing'
  BY <1>1, <1>2 DEF WatchInv, SkipsNothing, OfThisWatch, AnswersFollow, QueuesFollow, Complete
<1> QED
  BY <1>3, <1>4, <1>5, <1>6 DEF WatchInv

LEMMA TickKeeps ==
  ASSUME PublishInv, WatchInv, PollTimer
  PROVE  WatchInv'
<1>0. PICK p : p = Poll(watch.topic, watch.last)
  OBVIOUS
<1>1. /\ watch.topic # None /\ polls' = polls \cup {p} /\ polled' = polled + 1
      /\ UNCHANGED <<ready, server, starts, watch, inbox, stale>>
  BY <1>0 DEF PollTimer
<1>2. /\ WatchTypes /\ watch.topic \in Topics /\ watch.last \in 0..Len(server)
      /\ Len(server) \in Nat /\ starts' \in Nat
  BY <1>1, IdsAre DEF WatchInv, WatchTypes
<1>3. /\ p \in PollRecord /\ p.pc = "asked" /\ p.topic = watch.topic /\ p.after = watch.last
      /\ p.round = starts
  BY <1>0, <1>1, <1>2, PollIs
<1>4. p.round <= starts /\ p.after <= Len(server)
  BY <1>2, <1>3 DEF WatchTypes
<1>5. WatchTypes'
  <2>1. watch \in WatchRecord(Len(server))
    BY <1>2 DEF WatchTypes, WatchRecord, Ids
  <2>2. GoodPoll(p)'
    BY <1>1, <1>3, <1>4 DEF GoodPoll
  <2>3. starts \in Nat /\ starts <= starts /\ polled' \in Nat /\ stale \in BOOLEAN
    BY <1>1, <1>2 DEF WatchTypes
  <2> QED
    BY <1>1, <1>2, <2>1, <2>2, <2>3, TypesStay
<1>6. Rendering' = Rendering
  BY <1>1, <1>3 DEF Rendering
<1>7. (AboutToShow /\ NothingTwice /\ NamedPhraseOpens)'
  BY <1>1, <1>6 DEF WatchInv, AboutToShow, NothingTwice, NamedPhraseOpens, Envelope
<1>8. SkipsNothing'
  <2>1. OfThisWatch' = OfThisWatch \cup {p}
    BY <1>1, <1>3 DEF OfThisWatch
  <2> QED
    BY <1>1, <1>3, <2>1 DEF WatchInv, SkipsNothing, AnswersFollow, QueuesFollow, Complete
<1> QED
  BY <1>5, <1>7, <1>8 DEF WatchInv

LEMMA FailKeeps ==
  ASSUME PublishInv, WatchInv, NEW k \in polls, AnswerFails(k)
  PROVE  WatchInv'
<1>1. polls' = polls \ {k} /\ UNCHANGED <<ready, server, starts, polled, watch, inbox, stale>>
  BY DEF AnswerFails
<1>2. WatchTypes'
  <2>1. watch \in WatchRecord(Len(server))
    BY DEF WatchInv, WatchTypes, WatchRecord, Ids
  <2>2. WatchTypes /\ starts \in Nat /\ starts <= starts /\ polled \in Nat /\ stale \in BOOLEAN
    BY DEF WatchInv, WatchTypes
  <2> QED
    BY <1>1, <2>1, <2>2, TypesStay
<1>3. (AboutToShow /\ NothingTwice /\ NamedPhraseOpens)'
  BY <1>1 DEF WatchInv, AboutToShow, NothingTwice, NamedPhraseOpens, Envelope, Rendering
<1>4. SkipsNothing'
  BY <1>1 DEF WatchInv, SkipsNothing, AnswersFollow, QueuesFollow, Complete, OfThisWatch
<1> QED
  BY <1>2, <1>3, <1>4 DEF WatchInv

\* An answer, or a decryption that waited, goes through the loop.
LEMMA ShowKeeps ==
  ASSUME PublishInv, WatchInv, NotifyNext, NEW k \in polls, NEW queue \in SUBSET Ids, NEW box,
         Typed(box), OnceIn(box, Rendering \ {k}),
         \A e \in box : e \in inbox \/ \E id \in Ids : \E phrase, round : e = Entry(k, id, phrase, round),
         ~stale /\ k.round = starts => Follow(k.topic, queue),
         Show(k, queue, box), stale' = (stale \/ k.round # starts),
         UNCHANGED <<ready, server, starts, polled>>
  PROVE  WatchInv'
<1>1. WatchTypes /\ stale' \in BOOLEAN
  BY DEF WatchInv, WatchTypes
<1>2. WatchTypes'
  BY <1>1, ShowKeepsTypes
<1>3. AboutToShow' /\ NothingTwice'
  BY <1>1, ShowKeepsOnce
<1>4. NamedPhraseOpens'
  <2>1. \A e \in inbox' : \/ e \in box
                          \/ \E id \in Unseen(queue) : e = Entry(k, id, watch.phrase, starts)
    BY <1>1, ShowBrings
  <2>2. Unseen(queue) \subseteq Ids
    BY DEF Unseen
  <2>3. \A e \in inbox' : e \in inbox \/ \E p, id, phrase, round : /\ id \in Ids
                                                                   /\ e = Entry(p, id, phrase, round)
    BY <2>1, <2>2
  <2> QED
    BY <1>1, <2>3, NamedPhraseStep DEF WatchInv
<1>5. SkipsNothing'
  <2>1. CASE stale'
    BY <2>1 DEF SkipsNothing
  <2>2. CASE ~stale'
    BY <1>1, <2>2, ShowKeepsSkips DEF WatchInv
  <2> QED
    BY <2>1, <2>2
<1> QED
  BY <1>2, <1>3, <1>4, <1>5 DEF WatchInv

LEMMA MessagesKeep ==
  ASSUME PublishInv, WatchInv, NotifyNext, NEW k \in polls, AnswerComes(k)
  PROVE  WatchInv'
<1>1. PICK n \in k.from .. Len(server) : Show(k, Batch(k, n), inbox)
  BY DEF AnswerComes
<1>2. /\ k.pc = "asked" /\ stale' = (stale \/ k.round # starts)
      /\ UNCHANGED <<ready, server, starts, polled>>
  BY DEF AnswerComes
<1>3. k \in PollRecord /\ WatchTypes /\ Len(server) \in Nat
  BY IdsAre DEF WatchInv, WatchTypes
<1>4. k.from \in Nat /\ k.after \in Nat
  BY <1>3 DEF PollRecord
<1>5. n \in Nat /\ n <= Len(server)
  BY <1>1, <1>3, <1>4
<1>6. Batch(k, n) \in SUBSET Ids
  BY <1>3, <1>5 DEF Batch, Ids
<1>7. Typed(inbox)
  BY <1>3 DEF Typed, WatchTypes
<1>8. OnceIn(inbox, Rendering \ {k})
  <2>1. OnceIn(inbox, Rendering)
    BY OnceInIsAbout DEF WatchInv
  <2> QED
    BY <2>1 DEF OnceIn
<1>9. ASSUME ~stale, k.round = starts PROVE Follow(k.topic, Batch(k, n))
  <2>1. Complete(k.topic, k.after, watch.seen)
    BY <1>2, <1>9 DEF WatchInv, SkipsNothing, AnswersFollow, OfThisWatch
  <2> SUFFICES ASSUME NEW j \in Batch(k, n), NEW id \in 1..j, server[id].topic = k.topic
               PROVE  id \in watch.seen \cup Batch(k, n)
    BY DEF Follow, Complete
  <2>2. j \in 1..n
    BY DEF Batch
  <2>3. id \in 1..n /\ (id <= k.after => id \in 1..k.after)
    BY <1>4, <1>5, <2>2
  <2>4. CASE id <= k.after
    BY <2>1, <2>3, <2>4 DEF Complete
  <2>5. CASE ~(id <= k.after)
    <3>1. id > k.after
      BY <1>4, <2>3, <2>5
    <3> QED
      BY <2>3, <3>1 DEF Batch
  <2> QED
    BY <2>4, <2>5
<1> HIDE DEF WatchInv
<1> QED
  BY <1>1, <1>2, <1>6, <1>7, <1>8, <1>9, ShowKeeps

LEMMA ResumeKeeps ==
  ASSUME PublishInv, WatchInv, NotifyNext, NEW k \in polls, RenderResumes(k)
  PROVE  WatchInv'
<1>0. PICK late : late = Entry(k, k.at, k.phrase, k.round)
  OBVIOUS
<1>1. /\ k.pc = "rendering" /\ stale' = (stale \/ k.round # starts)
      /\ Show(k, k.queue, inbox \cup {late})
      /\ UNCHANGED <<ready, server, starts, polled>>
  BY <1>0 DEF RenderResumes
<1>2. k \in PollRecord /\ WatchTypes /\ k.queue \in SUBSET Ids /\ k.at \in Ids /\ k.round <= starts
  BY <1>1 DEF WatchInv, WatchTypes
<1>3. late.id = k.at /\ late.round = k.round
  BY <1>0, EntryIs
<1>4. Typed(inbox \cup {late})
  BY <1>2, <1>3 DEF Typed, WatchTypes, PollRecord
<1>5. OnceIn(inbox \cup {late}, Rendering \ {k})
  <2>1. OnceIn(inbox, Rendering)
    BY OnceInIsAbout DEF WatchInv
  <2>2. k \in Rendering
    BY <1>1 DEF Rendering
  <2>3. late.round = starts => late.id \in watch.seen
    BY <1>3, <2>1, <2>2 DEF OnceIn
  <2>4. \A l \in Rendering \ {k} : ~(late.round = l.round /\ late.id = l.at)
    BY <1>3, <2>1, <2>2 DEF OnceIn
  <2>5. \A e \in inbox : ~(e.round = late.round /\ e.id = late.id)
    BY <1>3, <2>1, <2>2 DEF OnceIn
  <2> QED
    BY <2>1, <2>3, <2>4, <2>5 DEF OnceIn
<1>6. ASSUME ~stale, k.round = starts PROVE Follow(k.topic, k.queue)
  BY <1>1, <1>6 DEF WatchInv, SkipsNothing, QueuesFollow, OfThisWatch, Follow
<1>7. \A e \in inbox \cup {late} :
        e \in inbox \/ \E id \in Ids : \E phrase, round : e = Entry(k, id, phrase, round)
  BY <1>0, <1>2
<1> QED
  BY <1>1, <1>2, <1>4, <1>5, <1>6, <1>7, ShowKeeps

LEMMA WatchStep ==
  ASSUME PublishInv, WatchInv, NotifyNext
  PROVE  WatchInv'
<1>1. SodiumReady \/ TypePublish \/ ClickPublish \/ PublishPosts \/ PublishAnswers
      \/ PublishFails \/ OthersPublish => UNCHANGED watchVars /\ ready' \in BOOLEAN
  BY DEF SodiumReady, TypePublish, ClickPublish, PublishPosts, PublishAnswers, PublishFails,
     OthersPublish, WatchInv, WatchTypes
<1>2. CASE UNCHANGED watchVars /\ ready' \in BOOLEAN
  BY <1>2, ElsewhereKeeps
<1>3. CASE StopWatching
  BY <1>3, StopKeeps
<1>4. CASE PollTimer
  BY <1>4, TickKeeps
<1>5. ASSUME NEW t \in Topics, NEW phrase \in TopicPhrases \cup {None}, StartWatching(t, phrase)
      PROVE  WatchInv'
  BY <1>5, StartKeeps
<1>6. ASSUME NEW k \in polls, AnswerComes(k) \/ AnswerFails(k) \/ RenderResumes(k)
      PROVE  WatchInv'
  BY <1>6, MessagesKeep, FailKeeps, ResumeKeeps
<1> QED
  BY <1>1, <1>2, <1>3, <1>4, <1>5, <1>6 DEF NotifyNext

LEMMA Stutter ==
  ASSUME PublishInv, WatchInv, UNCHANGED notifyVars
  PROVE  PublishInv' /\ WatchInv'
<1>1. /\ side' = side /\ ready' = ready /\ server' = server
      /\ pub' = pub /\ publishing' = publishing /\ clicked' = clicked
      /\ watch' = watch /\ starts' = starts /\ polls' = polls /\ polled' = polled
      /\ inbox' = inbox /\ stale' = stale
  BY DEF notifyVars, publishVars, watchVars
<1>2. PublishInv'
  BY <1>1 DEF PublishInv, PublishedAsTyped
<1>3. WatchTypes'
  <2>1. Ids' = Ids
    BY <1>1 DEF Ids
  <2> QED
    BY <1>1, <2>1 DEF WatchInv, WatchTypes
<1>4. (AboutToShow /\ NothingTwice /\ NamedPhraseOpens)'
  BY <1>1 DEF WatchInv, AboutToShow, NothingTwice, NamedPhraseOpens, Envelope, Rendering
<1>5. SkipsNothing'
  BY <1>1 DEF WatchInv, SkipsNothing, AnswersFollow, QueuesFollow, Complete, OfThisWatch
<1> QED
  BY <1>2, <1>3, <1>4, <1>5 DEF WatchInv

LEMMA NotifyInv == NotifySpec => []IInv
<1>1. NotifyInit => IInv
  BY PublishInit, WatchInit DEF IInv
<1>2. IInv /\ [NotifyNext]_notifyVars => IInv'
  BY PublishStep, WatchStep, Stutter DEF IInv
<1> QED
  BY <1>1, <1>2, PTL DEF NotifySpec

-------------------------------------------------------------------------------
\* What the server takes from onPublish is the form as it stood at a click,
\* however it is edited while libsodium loads (notify.js:278-307).
THEOREM SpecPublishedAsTyped == NotifySpec => []PublishedAsTyped
<1>1. IInv => PublishedAsTyped
  BY DEF IInv, PublishInv
<1> QED
  BY <1>1, NotifyInv, PTL

\* The phrase captured when a message's rendering began (notify.js:392-395)
\* opens the message it is named next to, whatever the phrase is by now.
THEOREM SpecNamedPhraseOpens == NotifySpec => []NamedPhraseOpens
<1>1. IInv => NamedPhraseOpens
  BY DEF IInv, WatchInv
<1> QED
  BY <1>1, NotifyInv, PTL

\* Polls that overlap (notify.js:340-420) show each message of the topic at
\* most once, and pass over none for as long as no answer to an earlier watch
\* has come into this one.
THEOREM SpecEachMessageOnce == NotifySpec => []EachMessageOnce
<1>1. IInv => EachMessageOnce
  BY DEF IInv, WatchInv, EachMessageOnce, SkipsNothing, WatchSkipsNothing, Complete
<1> QED
  BY <1>1, NotifyInv, PTL

-------------------------------------------------------------------------------
(***************************************************************************)
(* What the vault page promises, for any texts, inputs and any number of   *)
(* submissions, whatever is typed, picked or renewed while a task waits.   *)
(*                                                                         *)
(* A salt or nonce on display has been drawn after everything that was     *)
(* locked (Unused); the encrypt button is off for a weak phrase or a task  *)
(* that waits (Gates); and the outcome on display is of the input that was *)
(* tried last (SuccessIsOfLastTry), since a task reads and answers in one. *)
(***************************************************************************)
EncFields == {"message", "phrase", "mode", "preset", "nonce", "salt", "off", "status", "tasks",
              "sent", "renewed", "json", "buttons", "copying"}
DecFields == {"input", "phrase", "off", "status", "tasks", "sent", "reading", "text", "tried"}
DrawnFor(v) == {v.salt, v.wrapNonce, v.contentNonce}

FormsAreForms ==
  /\ DOMAIN enc = EncFields /\ DOMAIN dec = DecFields
  /\ enc.phrase \in TypedPhrases \cup GeneratedPhrases /\ enc.tasks \in Nat
  /\ dec.input \in Inputs \cup {Nothing} /\ dec.reading \subseteq Inputs
Gates == vaultLoaded = "ready" /\ enc.off => enc.tasks > 0 \/ Weak(enc.phrase)
Unused ==
  /\ next \in Nat
  /\ vaultLoaded # "ready" => made = {}
  /\ vaultLoaded = "ready" => enc.salt \in 0 .. next - 1 /\ enc.nonce \in 0 .. next - 1
  /\ \A m \in made : /\ DrawnFor(m.vault) \subseteq 0 .. next - 1
                     /\ enc.salt \notin DrawnFor(m.vault) /\ enc.nonce \notin DrawnFor(m.vault)
VaultPageInv ==
  FormsAreForms /\ Gates /\ Unused /\ LockedAsShown /\ SuccessIsOfLastTry

\* The generator makes no weak phrase (chat.js:956-1020).
LEMMA GeneratedIsStrong ==
  ASSUME NEW p \in GeneratedPhrases
  PROVE  ~Weak(p) /\ p.word = "generated"
<1>1. PICK common \in BOOLEAN : p = Phrase("generated", 18, 3, 4, FALSE, common)
  BY DEF GeneratedPhrases
<1>2. /\ p.word = "generated" /\ p.len = 18 /\ p.classes = 3 /\ p.seps = 4 /\ p.triple = FALSE
      /\ p.common = common
  BY <1>1 DEF Phrase
<1>3. Cardinality({n \in {8, 12, 16, 24} : p.len >= n}) = 3
  <2>1. {n \in {8, 12, 16, 24} : p.len >= n} = {8} \cup {12} \cup {16}
    BY <1>2
  <2>2. IsFiniteSet({8}) /\ Cardinality({8}) = 1
    BY FS_Singleton
  <2>3. IsFiniteSet({8} \cup {12}) /\ Cardinality({8} \cup {12}) = 2
    BY <2>2, FS_AddElement
  <2>4. Cardinality({8} \cup {12} \cup {16}) = 3
    BY <2>3, FS_AddElement
  <2> QED
    BY <2>1, <2>4
<1>4. SeparatorBonus(p) = 2 /\ Least(p.classes, 2) = 2
  BY <1>2 DEF SeparatorBonus, Least
<1>5. PasswordStrength(p) \in Nat /\ PasswordStrength(p) >= 3
  <2> DEFINE minus == (IF p.triple THEN 2 ELSE 0) + (IF p.common THEN 4 ELSE 0)
             score == IF minus > 7 THEN 0 ELSE 7 - minus
  <2>1. minus \in {0, 4}
    BY <1>2
  <2>2. score \in {3, 7}
    BY <2>1
  <2>3. PasswordStrength(p) = Least(score, 7)
    BY <1>2, <1>3, <1>4 DEF PasswordStrength
  <2> QED
    BY <2>2, <2>3 DEF Least
<1> QED
  BY <1>2, <1>5 DEF Weak, MinStrength

\* What a page locks is what it was given (encryptVaultV2).
LEMMA PagesLock ==
  ASSUME NEW text, NEW heard, NEW mode, NEW preset, NEW now, NEW rnd,
         NEW v \in {SiteEncryptV2(text, heard, mode, preset, now, rnd),
                    LandingEncryptV2(text, heard, mode, preset, now, rnd),
                    DesktopEncryptV2(text, heard, mode, preset, now, rnd)}
  PROVE  /\ v.ct.body = text /\ v.wrapped.key[1] = heard /\ v.mode = mode
         /\ v.salt = rnd.salt /\ v.wrapNonce = rnd.wrapNonce /\ v.contentNonce = rnd.contentNonce
<1>1. PICK s :
        /\ s = Skeleton("V2", "wrapped", "0.28.1", now, mode, preset, rnd)
        /\ v = WithCiphertexts(s,
                 Seal(KdfKey(heard, rnd.salt, preset.ops, preset.mem), rnd.wrapNonce,
                      BuildAADV2(s), rnd.key),
                 Seal(rnd.key, rnd.contentNonce, BuildAADV2(s), text))
  BY DEF SiteEncryptV2, LandingEncryptV2, DesktopEncryptV2, EncryptV2With, SiteAADV2,
         LandingAADV2, DesktopAADV2
<1>2. /\ IsRecord(s) /\ s.mode = mode /\ s.salt = rnd.salt /\ s.wrapNonce = rnd.wrapNonce
      /\ s.contentNonce = rnd.contentNonce
  BY <1>1, SkeletonIs
<1>3. /\ SameHeader(v, s)
      /\ v.wrapped = Seal(KdfKey(heard, rnd.salt, preset.ops, preset.mem), rnd.wrapNonce,
                          BuildAADV2(s), rnd.key)
      /\ v.ct = Seal(rnd.key, rnd.contentNonce, BuildAADV2(s), text)
  BY <1>1, <1>2, FilledIn
<1>4. /\ v.mode = s.mode /\ v.salt = s.salt /\ v.wrapNonce = s.wrapNonce
      /\ v.contentNonce = s.contentNonce
  BY <1>3 DEF SameHeader, VaultFields
<1>5. v.ct.body = text
  BY <1>3 DEF Seal
<1>6. v.wrapped.key = KdfKey(heard, rnd.salt, preset.ops, preset.mem)
  BY <1>3 DEF Seal
<1>7. v.wrapped.key[1] = heard
  BY <1>6, OneKeyPerPhrase
<1> QED
  BY <1>2, <1>4, <1>5, <1>7

\* What the page answers to an input: its content, or an error.
Tells(i, r) ==
  \/ i # Nothing /\ i.form # "cut" /\ r = Plain(i.vault.ct.body)
  \/ \E e \in Errors \cup {"auth", "content", "empty", "parse"} : r = Refused(e)

LEMMA VaultAnswers ==
  ASSUME NEW v, NEW heard, NEW r \in {SiteDecryptVault(v, heard), LandingDecryptVault(v, heard),
                                      DesktopDecryptVault(v, heard)}
  PROVE  r = Plain(v.ct.body) \/ \E e \in Errors \cup {"auth", "content"} : r = Refused(e)
<1>1. PICK v2, v1, nt : /\ v2 = DecryptV2With(ValidateV2(v), BuildAADV2(v), v, heard)
                        /\ v1 = DecryptV1With(v, heard) /\ nt = DecryptNotifyWith(v, heard)
  OBVIOUS
<1>2. r \in {v2, v1, nt, Refused("unsupported")}
  BY <1>1 DEF SiteDecryptVault, LandingDecryptVault, DesktopDecryptVault, Unsupported,
      SiteDecryptV2, LandingDecryptV2, DesktopDecryptV2, SiteAADV2, LandingAADV2, DesktopAADV2,
      SiteDecryptV1, LandingDecryptV1, DesktopDecryptV1, SiteDecryptNotify, LandingDecryptNotify
<1>3. CASE r = v2
  <2>1. ValidateV2(v) \in Seq(Check)
    BY ValidateV2Is DEF Passes
  <2>2. PICK err \in Errors \cup {"none"} :
          Judgement(v2, err, Layers(v, heard, BuildAADV2(v), BuildAADV2(v)))
    BY <1>1, <2>1, V2Answers
  <2> QED
    BY <1>3, <2>2 DEF Judgement, Layers
<1>4. CASE r = v1
  <2>1. PICK err \in Errors \cup {"none"} : Judgement(v1, err, LayerV1(v, heard))
    BY <1>1, V1Answers
  <2> QED
    BY <1>4, <2>1 DEF Judgement, LayerV1
<1>5. CASE r = nt
  <2>1. PICK err \in Errors \cup {"none"} :
          Judgement(nt, err, Layers(v, heard, <<v.wrapAad>>, <<v.contentAad>>))
    BY <1>1, NotifyAnswers
  <2> QED
    BY <1>5, <2>1 DEF Judgement, Layers
<1>6. "unsupported" \in Errors
  BY DEF Errors
<1> QED
  BY <1>2, <1>3, <1>4, <1>5, <1>6

LEMMA ChatTells ==
  ASSUME NEW env, NEW heard, NEW r, r = DecryptChatEnvelope(env, heard)
  PROVE  r = Plain(env.ct.body) \/ \E e \in Errors \cup {"auth"} : r = Refused(e)
<1>1. PICK err \in Errors \cup {"none"} :
        Judgement(r, err, IF Opens(env.ct, ChatKey(heard, env.ids), env.nonce, <<>>)
                          THEN Plain(env.ct.body) ELSE Refused("auth"))
  BY ChatAnswers
<1> QED
  BY <1>1 DEF Judgement

LEMMA InputsTell ==
  ASSUME NEW i \in Inputs \cup {Nothing}, NEW heard,
         NEW r \in {ParseAndDecrypt(i, heard, SiteDecryptVault),
                    ParseAndDecrypt(i, heard, LandingDecryptVault),
                    ParseAndDecrypt(i, heard, DesktopDecryptVault)}
  PROVE  Tells(i, r)
<1>1. CASE i = Nothing
  BY <1>1 DEF ParseAndDecrypt, Tells
<1>2. CASE i # Nothing
  <2>1. i.form \in {"json", "line", "sheet", "chat", "cut"}
    BY <1>2, InputsHaveForms
  <2>2. CASE i.form = "chat"
    <3>1. r = DecryptChatEnvelope(i.vault, heard)
      BY <1>2, <2>2 DEF ParseAndDecrypt
    <3>2. r = Plain(i.vault.ct.body) \/ \E e \in Errors \cup {"auth"} : r = Refused(e)
      BY <3>1, ChatTells
    <3> QED
      BY <1>2, <2>2, <3>2 DEF Tells
  <2>3. CASE i.form = "cut"
    BY <1>2, <2>3 DEF ParseAndDecrypt, Tells
  <2>4. CASE i.form \in {"json", "line", "sheet"}
    <3>1. r \in {SiteDecryptVault(i.vault, heard), LandingDecryptVault(i.vault, heard),
                 DesktopDecryptVault(i.vault, heard)}
      BY <1>2, <2>4 DEF ParseAndDecrypt
    <3>2. r = Plain(i.vault.ct.body) \/ \E e \in Errors \cup {"auth", "content"} : r = Refused(e)
      BY <3>1, VaultAnswers
    <3> QED
      BY <1>2, <2>4, <3>2 DEF Tells
  <2> QED
    BY <2>1, <2>2, <2>3, <2>4
<1> QED
  BY <1>1, <1>2

LEMMA VaultPageInitHolds == VaultPageInit => VaultPageInv
<1> SUFFICES ASSUME VaultPageInit PROVE VaultPageInv
  OBVIOUS
<1>1. FormsAreForms
  BY DEF VaultPageInit, FormsAreForms, EncFields, DecFields, TypedPhrases
<1>2. Gates /\ Unused /\ LockedAsShown
  BY DEF VaultPageInit, Gates, Unused, LockedAsShown
<1>3. SuccessIsOfLastTry
  BY DEF VaultPageInit, SuccessIsOfLastTry
<1> QED
  BY <1>1, <1>2, <1>3 DEF VaultPageInv

\* What the decrypt form does leaves the encrypt form alone, and the other way
\* round.
LEMMA EncryptFormKept ==
  ASSUME VaultPageInv, UNCHANGED <<vaultLoaded, enc, next, made>>, DOMAIN dec' = DecFields,
         dec'.input \in Inputs \cup {Nothing}, dec'.reading \subseteq Inputs, SuccessIsOfLastTry'
  PROVE  VaultPageInv'
  BY DEF VaultPageInv, FormsAreForms, Gates, Unused, LockedAsShown

LEMMA DecryptFormKept ==
  ASSUME VaultPageInv, dec' = dec, DOMAIN enc' = EncFields,
         enc'.phrase \in TypedPhrases \cup GeneratedPhrases, enc'.tasks \in Nat,
         Gates', Unused', LockedAsShown'
  PROVE  VaultPageInv'
  BY DEF VaultPageInv, FormsAreForms, SuccessIsOfLastTry

\* An edit of the encrypt form.
LEMMA EditsKeep ==
  ASSUME VaultPageInv, UNCHANGED <<vaultLoaded, dec, next, made>>, DOMAIN enc' = EncFields,
         enc'.phrase \in TypedPhrases \cup GeneratedPhrases, enc'.tasks \in Nat,
         enc'.off => enc'.tasks > 0 \/ Weak(enc'.phrase) \/ (enc.off /\ enc'.tasks = enc.tasks
                                                             /\ enc'.phrase = enc.phrase),
         enc'.salt = enc.salt, enc'.nonce = enc.nonce
  PROVE  VaultPageInv'
<1>1. Gates'
  BY DEF VaultPageInv, Gates
<1>2. Unused' /\ LockedAsShown'
  BY DEF VaultPageInv, Unused, LockedAsShown
<1> QED
  BY <1>1, <1>2, DecryptFormKept

LEMMA FormEditsKeep ==
  ASSUME VaultPageInv,
         \/ TypeMessage \/ TypePhrase \/ GeneratePassphrase \/ SetMode \/ SetLockStrength
         \/ SubmitEncrypt \/ Copy \/ CopySettles
  PROVE  VaultPageInv'
<1>1. /\ DOMAIN enc = EncFields /\ enc.phrase \in TypedPhrases \cup GeneratedPhrases
      /\ enc.tasks \in Nat
  BY DEF VaultPageInv, FormsAreForms
<1>2. UNCHANGED <<vaultLoaded, dec, next, made>>
  BY DEF TypeMessage, TypePhrase, GeneratePassphrase, SetMode, SetLockStrength, SubmitEncrypt,
         Copy, CopySettles, Edits
<1>3. CASE TypePhrase \/ GeneratePassphrase
  <2>1. PICK p \in TypedPhrases \cup GeneratedPhrases :
          enc' = [[enc EXCEPT !.phrase = p] EXCEPT !.off = Weak([enc EXCEPT !.phrase = p].phrase)]
    BY <1>3 DEF TypePhrase, GeneratePassphrase, Edits, Gated
  <2>2. /\ DOMAIN enc' = EncFields /\ enc'.phrase = p /\ enc'.tasks = enc.tasks
        /\ enc'.salt = enc.salt /\ enc'.nonce = enc.nonce
    BY <1>1, <2>1 DEF EncFields
  <2>3. enc'.off = Weak(enc'.phrase)
    BY <1>1, <2>1 DEF EncFields
  <2> QED
    BY <1>1, <1>2, <2>2, <2>3, EditsKeep
<1>4. CASE SubmitEncrypt
  <2>1. enc' = [enc EXCEPT !.off = TRUE, !.status = "Encrypting", !.tasks = @ + 1, !.sent = @ + 1]
    BY <1>4 DEF SubmitEncrypt, Edits
  <2>2. /\ DOMAIN enc' = EncFields /\ enc'.phrase = enc.phrase /\ enc'.tasks = enc.tasks + 1
        /\ enc'.salt = enc.salt /\ enc'.nonce = enc.nonce
    BY <1>1, <2>1 DEF EncFields
  <2>3. enc'.tasks \in Nat /\ enc'.tasks > 0
    BY <1>1, <2>2
  <2> QED
    BY <1>1, <1>2, <2>2, <2>3, EditsKeep
<1>5. CASE TypeMessage \/ SetMode \/ SetLockStrength \/ Copy \/ CopySettles
  <2>1. PICK m, k, l, c, s : enc' \in {[enc EXCEPT !.message = m], [enc EXCEPT !.mode = k],
                                    [enc EXCEPT !.preset = l], [enc EXCEPT !.copying = c],
                                    [enc EXCEPT !.copying = c, !.status = s]}
    BY <1>5 DEF TypeMessage, SetMode, SetLockStrength, Copy, CopySettles, Edits
  <2>2. /\ DOMAIN enc' = EncFields /\ enc'.phrase = enc.phrase /\ enc'.tasks = enc.tasks
        /\ enc'.salt = enc.salt /\ enc'.nonce = enc.nonce /\ enc'.off = enc.off
    BY <1>1, <2>1 DEF EncFields
  <2> QED
    BY <1>1, <1>2, <2>2, EditsKeep
<1> QED
  BY <1>3, <1>4, <1>5

\* What is drawn for the display was never used.
LEMMA RenewalsKeep ==
  ASSUME VaultPageInv, ClickRegenNonce \/ ClickRegenSalt
  PROVE  VaultPageInv'
<1>1. /\ DOMAIN enc = EncFields /\ enc.phrase \in TypedPhrases \cup GeneratedPhrases
      /\ enc.tasks \in Nat /\ next \in Nat /\ vaultLoaded = "ready"
  BY DEF VaultPageInv, FormsAreForms, Unused, ClickRegenNonce, ClickRegenSalt, Renew, Using
<1>2. /\ next' = next + 1 /\ UNCHANGED <<vaultLoaded, dec, made>>
      /\ \/ enc' = [[enc EXCEPT !.nonce = next] EXCEPT !.renewed = @ + 1]
         \/ enc' = [[enc EXCEPT !.salt = next] EXCEPT !.renewed = @ + 1]
  BY DEF ClickRegenNonce, ClickRegenSalt, Renew, RegenerateNonce, RegenerateSalt
<1>3. /\ DOMAIN enc' = EncFields /\ enc'.phrase = enc.phrase /\ enc'.tasks = enc.tasks
      /\ enc'.off = enc.off /\ enc'.salt \in {enc.salt, next} /\ enc'.nonce \in {enc.nonce, next}
  BY <1>1, <1>2 DEF EncFields
<1>4. Gates'
  BY <1>2, <1>3 DEF VaultPageInv, Gates
<1>5. \A m \in made : DrawnFor(m.vault) \subseteq 0 .. next - 1 /\ next \notin DrawnFor(m.vault)
  BY <1>1 DEF VaultPageInv, Unused
<1>6. \A m \in made : enc'.salt \notin DrawnFor(m.vault) /\ enc'.nonce \notin DrawnFor(m.vault)
  BY <1>3, <1>5 DEF VaultPageInv, Unused
<1>7. Unused'
  <2>1. enc'.salt \in 0 .. next' - 1 /\ enc'.nonce \in 0 .. next' - 1 /\ next' \in Nat
    BY <1>1, <1>2, <1>3 DEF VaultPageInv, Unused
  <2>2. 0 .. next - 1 \subseteq 0 .. next' - 1
    BY <1>1, <1>2
  <2>3. \A m \in made : DrawnFor(m.vault) \subseteq 0 .. next' - 1
    BY <1>5, <2>2
  <2> QED
    BY <1>1, <1>2, <1>6, <2>1, <2>3 DEF Unused, DrawnFor
<1>8. LockedAsShown'
  BY <1>2, <1>6 DEF VaultPageInv, LockedAsShown, DrawnFor
<1> QED
  BY <1>1, <1>2, <1>3, <1>4, <1>7, <1>8, DecryptFormKept

LEMMA LoadKeeps ==
  ASSUME VaultPageInv, LoadSite \/ LoadLanding \/ LoadDesktop
  PROVE  VaultPageInv'
<1>1. /\ DOMAIN enc = EncFields /\ enc.phrase \in TypedPhrases \cup GeneratedPhrases
      /\ enc.tasks \in Nat /\ next \in Nat /\ made = {}
  BY DEF VaultPageInv, FormsAreForms, Unused, LoadSite, LoadLanding, LoadDesktop, LoadPage
<1>2. PICK e, f : /\ e = [[[enc EXCEPT !.mode = "self"] EXCEPT !.nonce = next] EXCEPT !.salt = next + 1]
                  /\ f = [e EXCEPT !.off = Weak(e.phrase)]
  OBVIOUS
<1>3. /\ made' = made
      /\ \/ vaultLoaded' = "ready" /\ enc' = f /\ dec' = [dec EXCEPT !.off = FALSE]
            /\ next' = next + 2
         \/ vaultLoaded' = "failed" /\ UNCHANGED <<enc, dec, next>>
  BY <1>2 DEF LoadSite, LoadLanding, LoadDesktop, LoadPage, Gated, RegenerateSalt, RegenerateNonce
<1>4. CASE vaultLoaded' = "ready" /\ enc' = f /\ dec' = [dec EXCEPT !.off = FALSE] /\ next' = next + 2
  <2>1. /\ DOMAIN enc' = EncFields /\ enc'.phrase = enc.phrase /\ enc'.tasks = enc.tasks
        /\ enc'.salt = next + 1 /\ enc'.nonce = next
    BY <1>1, <1>2, <1>4 DEF EncFields
  <2>2. enc'.off = Weak(enc'.phrase)
    BY <1>1, <1>2, <1>4 DEF EncFields
  <2>3. Gates' /\ LockedAsShown'
    BY <1>1, <1>3, <2>2 DEF Gates, LockedAsShown
  <2>4. Unused'
    BY <1>1, <1>3, <1>4, <2>1 DEF Unused
  <2>5. /\ DOMAIN dec' = DecFields /\ dec'.input = dec.input /\ dec'.reading = dec.reading
        /\ dec'.status = dec.status /\ dec'.text = dec.text /\ dec'.tried = dec.tried
    BY <1>4 DEF VaultPageInv, FormsAreForms, DecFields
  <2> QED
    BY <1>1, <2>1, <2>3, <2>4, <2>5 DEF VaultPageInv, FormsAreForms, SuccessIsOfLastTry
<1>5. CASE vaultLoaded' = "failed" /\ UNCHANGED <<enc, dec, next>>
  BY <1>1, <1>3, <1>5
     DEF VaultPageInv, FormsAreForms, Gates, Unused, LockedAsShown, SuccessIsOfLastTry
<1> QED
  BY <1>3, <1>4, <1>5

\* What the task of a submission does: nothing is locked, or a vault of what
\* the form holds by then, with what is on display.
TaskWith(v, err) ==
  /\ Using("encrypt") /\ enc.tasks > 0 /\ UNCHANGED <<vaultLoaded, dec>>
  /\ err = "none" => ~Weak(enc.phrase)
  /\ enc' = [(IF err = "none"
              THEN RegenerateSalt(RegenerateNonce(
                     [enc EXCEPT !.message = "", !.phrase = NoPhrase, !.json = v,
                                 !.buttons = v, !.status = "Locked!"], next + 2), next + 3)
              ELSE [enc EXCEPT !.status = err]) EXCEPT !.tasks = @ - 1, !.off = FALSE]
  /\ IF err = "none"
     THEN /\ made' = made \cup {[vault |-> v, message |-> enc.message,
                                 phrase |-> enc.phrase, mode |-> enc.mode]}
          /\ next' = next + 4
     ELSE UNCHANGED <<made, next>>

LEMMA TaskLocks ==
  ASSUME VaultPageInv, SiteEncryptTask \/ LandingEncryptTask \/ DesktopEncryptTask
  PROVE  /\ vaultLoaded = "ready" /\ UNCHANGED <<vaultLoaded, dec>>
         /\ DOMAIN enc' = EncFields /\ enc'.tasks \in Nat /\ enc'.off = FALSE
         /\ \/ /\ UNCHANGED <<made, next>>
               /\ enc'.phrase = enc.phrase /\ enc'.salt = enc.salt /\ enc'.nonce = enc.nonce
            \/ /\ ~Weak(enc.phrase) /\ next' = next + 4
               /\ enc'.phrase = NoPhrase /\ enc'.salt = next + 3 /\ enc'.nonce = next + 2
               /\ \E m : /\ made' = made \cup {m} /\ m.phrase = enc.phrase /\ m.mode = m.vault.mode
                         /\ m.vault.ct.body = m.message
                         /\ m.vault.wrapped.key[1] = HeardOf(m.phrase)
                         /\ DrawnFor(m.vault) = {enc.salt, enc.nonce, next}
<1>1. PICK rnd, preset : /\ rnd = [salt |-> enc.salt, wrapNonce |-> enc.nonce,
                                   contentNonce |-> next, key |-> <<next + 1>>]
                         /\ preset = LockPresets[enc.preset]
  OBVIOUS
<1> DEFINE S == SiteEncryptV2(enc.message, HeardOf(enc.phrase), enc.mode, preset, "now", rnd)
           L == LandingEncryptV2(enc.message, HeardOf(enc.phrase), enc.mode, preset, "now", rnd)
           D == DesktopEncryptV2(enc.message, HeardOf(enc.phrase), enc.mode, preset, "now", rnd)
<1>2. PICK v, err : v \in {S, L, D} /\ TaskWith(v, err)
  <2> DEFINE says == IF Weak(enc.phrase) THEN "weak"
                     ELSE FirstError(EncryptChecks(enc.message, HeardOf(enc.phrase), enc.mode, preset))
  <2>1. CASE SiteEncryptTask
    <3>1. TaskWith(S, says)
      BY <1>1, <2>1 DEF SiteEncryptTask, EncryptTask, TaskWith
    <3> HIDE DEF S, L, D, says
    <3> QED
      BY <3>1
  <2>2. CASE LandingEncryptTask
    <3>1. TaskWith(L, says)
      BY <1>1, <2>2 DEF LandingEncryptTask, EncryptTask, TaskWith
    <3> HIDE DEF S, L, D, says
    <3> QED
      BY <3>1
  <2>3. CASE DesktopEncryptTask
    <3>1. TaskWith(D, says)
      BY <1>1, <2>3 DEF DesktopEncryptTask, EncryptTask, TaskWith
    <3> HIDE DEF S, L, D, says
    <3> QED
      BY <3>1
  <2> QED
    BY <2>1, <2>2, <2>3
<1>3. DOMAIN enc = EncFields /\ enc.tasks \in Nat
  BY DEF VaultPageInv, FormsAreForms
<1>4. vaultLoaded = "ready"
  BY <1>2 DEF TaskWith, Using
<1>5. CASE err # "none"
  <2>1. enc' = [[enc EXCEPT !.status = err] EXCEPT !.tasks = @ - 1, !.off = FALSE]
        /\ UNCHANGED <<made, next>>
    BY <1>2, <1>5 DEF TaskWith
  <2>2. /\ DOMAIN enc' = EncFields /\ enc'.tasks = enc.tasks - 1 /\ enc'.off = FALSE
        /\ enc'.phrase = enc.phrase /\ enc'.salt = enc.salt /\ enc'.nonce = enc.nonce
    BY <1>3, <2>1 DEF EncFields
  <2> QED
    BY <1>2, <1>3, <1>4, <2>1, <2>2 DEF TaskWith
<1>6. CASE err = "none"
  <2>1. PICK e : e = [enc EXCEPT !.message = "", !.phrase = NoPhrase, !.json = v,
                                 !.buttons = v, !.status = "Locked!"]
    OBVIOUS
  <2>2. PICK f : f = [[e EXCEPT !.nonce = next + 2] EXCEPT !.salt = next + 3]
    OBVIOUS
  <2>3. enc' = [f EXCEPT !.tasks = @ - 1, !.off = FALSE]
    BY <1>2, <1>6, <2>1, <2>2 DEF TaskWith, RegenerateSalt, RegenerateNonce
  <2>4. DOMAIN e = EncFields /\ e.tasks = enc.tasks /\ e.phrase = NoPhrase
    BY <1>3, <2>1 DEF EncFields
  <2>5. /\ DOMAIN f = EncFields /\ f.tasks = enc.tasks /\ f.phrase = NoPhrase
        /\ f.nonce = next + 2 /\ f.salt = next + 3
    BY <2>2, <2>4 DEF EncFields
  <2>6. /\ DOMAIN enc' = EncFields /\ enc'.tasks = enc.tasks - 1 /\ enc'.off = FALSE
        /\ enc'.phrase = NoPhrase /\ enc'.salt = next + 3 /\ enc'.nonce = next + 2
    BY <2>3, <2>5 DEF EncFields
  <2>7. /\ v.ct.body = enc.message /\ v.wrapped.key[1] = HeardOf(enc.phrase) /\ v.mode = enc.mode
        /\ v.salt = rnd.salt /\ v.wrapNonce = rnd.wrapNonce /\ v.contentNonce = rnd.contentNonce
    BY <1>2, PagesLock
  <2>8. DrawnFor(v) = {enc.salt, enc.nonce, next}
    BY <1>1, <2>7 DEF DrawnFor
  <2>9. PICK m : m = [vault |-> v, message |-> enc.message, phrase |-> enc.phrase, mode |-> enc.mode]
    OBVIOUS
  <2>10. /\ m.vault = v /\ m.message = enc.message /\ m.phrase = enc.phrase /\ m.mode = enc.mode
         /\ made' = made \cup {m} /\ next' = next + 4 /\ ~Weak(enc.phrase)
    BY <1>2, <1>6, <2>9 DEF TaskWith
  <2> QED
    BY <1>2, <1>3, <1>4, <2>6, <2>7, <2>8, <2>10 DEF TaskWith
<1> QED
  BY <1>5, <1>6

LEMMA LockingKeeps ==
  ASSUME VaultPageInv, SiteEncryptTask \/ LandingEncryptTask \/ DesktopEncryptTask
  PROVE  VaultPageInv'
<1>1. /\ vaultLoaded = "ready" /\ UNCHANGED <<vaultLoaded, dec>>
      /\ DOMAIN enc' = EncFields /\ enc'.tasks \in Nat /\ enc'.off = FALSE
  BY TaskLocks
<1>2. Gates'
  BY <1>1 DEF Gates
<1>3. CASE /\ UNCHANGED <<made, next>>
           /\ enc'.phrase = enc.phrase /\ enc'.salt = enc.salt /\ enc'.nonce = enc.nonce
  <2>1. Unused' /\ LockedAsShown'
    BY <1>1, <1>3 DEF VaultPageInv, Unused, LockedAsShown
  <2>2. enc'.phrase \in TypedPhrases \cup GeneratedPhrases
    BY <1>3 DEF VaultPageInv, FormsAreForms
  <2> QED
    BY <1>1, <1>2, <2>1, <2>2, DecryptFormKept
<1>4. CASE /\ ~Weak(enc.phrase) /\ next' = next + 4
           /\ enc'.phrase = NoPhrase /\ enc'.salt = next + 3 /\ enc'.nonce = next + 2
           /\ \E m : /\ made' = made \cup {m} /\ m.phrase = enc.phrase /\ m.mode = m.vault.mode
                     /\ m.vault.ct.body = m.message
                     /\ m.vault.wrapped.key[1] = HeardOf(m.phrase)
                     /\ DrawnFor(m.vault) = {enc.salt, enc.nonce, next}
  <2>1. PICK m : /\ made' = made \cup {m} /\ m.phrase = enc.phrase /\ m.mode = m.vault.mode
                 /\ m.vault.ct.body = m.message /\ m.vault.wrapped.key[1] = HeardOf(m.phrase)
                 /\ DrawnFor(m.vault) = {enc.salt, enc.nonce, next}
    BY <1>4
  <2>2. /\ next \in Nat /\ enc.salt \in 0 .. next - 1 /\ enc.nonce \in 0 .. next - 1
        /\ \A o \in made : /\ DrawnFor(o.vault) \subseteq 0 .. next - 1
                           /\ enc.salt \notin DrawnFor(o.vault) /\ enc.nonce \notin DrawnFor(o.vault)
    BY <1>1 DEF VaultPageInv, Unused
  <2>3. \A o \in made : DrawnFor(o.vault) \cap DrawnFor(m.vault) = {}
    BY <2>1, <2>2
  <2>4. \A o \in made' : DrawnFor(o.vault) \subseteq 0 .. next
    BY <2>1, <2>2
  <2>5. \A o \in made' : enc'.salt \notin DrawnFor(o.vault) /\ enc'.nonce \notin DrawnFor(o.vault)
    <3>1. enc'.salt \notin 0 .. next /\ enc'.nonce \notin 0 .. next
      BY <1>4, <2>2
    <3> QED
      BY <2>4, <3>1
  <2>6. Unused'
    BY <1>1, <1>4, <2>2, <2>4, <2>5 DEF Unused
  <2>7. ASSUME NEW o \in made', NEW q \in made' \ {o}
        PROVE  DrawnFor(o.vault) \cap DrawnFor(q.vault) = {}
    <3>1. \A x \in made : \A y \in made \ {x} : DrawnFor(x.vault) \cap DrawnFor(y.vault) = {}
      BY DEF VaultPageInv, LockedAsShown, DrawnFor
    <3> QED
      BY <2>1, <2>3, <3>1
  <2>8. \A o \in made' : /\ ~Weak(o.phrase) /\ o.vault.mode = o.mode
                         /\ o.vault.ct.body = o.message /\ o.vault.wrapped.key[1] = HeardOf(o.phrase)
    BY <1>4, <2>1 DEF VaultPageInv, LockedAsShown
  <2>9. LockedAsShown'
    BY <2>5, <2>7, <2>8 DEF LockedAsShown, DrawnFor
  <2>10. enc'.phrase \in TypedPhrases \cup GeneratedPhrases
    BY <1>4 DEF TypedPhrases
  <2> QED
    BY <1>1, <1>2, <2>6, <2>9, <2>10, DecryptFormKept
<1> QED
  BY <1>3, <1>4, TaskLocks

\* The outcome on display is of the input that was tried.
LEMMA OpeningKeeps ==
  ASSUME VaultPageInv, SiteDecryptTask \/ LandingDecryptTask \/ DesktopDecryptTask
  PROVE  VaultPageInv'
<1>1. DOMAIN dec = DecFields /\ dec.input \in Inputs \cup {Nothing} /\ dec.reading \subseteq Inputs
  BY DEF VaultPageInv, FormsAreForms
<1>2. PICK s, l, d, done :
        /\ s = ParseAndDecrypt(dec.input, HeardOf(dec.phrase), SiteDecryptVault)
        /\ l = ParseAndDecrypt(dec.input, HeardOf(dec.phrase), LandingDecryptVault)
        /\ d = ParseAndDecrypt(dec.input, HeardOf(dec.phrase), DesktopDecryptVault)
        /\ done = [dec EXCEPT !.tasks = @ - 1, !.off = FALSE,
                              !.tried = [input |-> dec.input, word |-> dec.phrase.word]]
  OBVIOUS
<1>3. PICK r \in {s, l, d} : Changes(Outcome(done, r))
  BY <1>2 DEF SiteDecryptTask, LandingDecryptTask, DesktopDecryptTask, DecryptTask
<1>4. Tells(dec.input, r)
  BY <1>1, <1>2, <1>3, InputsTell
<1>5. /\ dec' = IF r.ok THEN [done EXCEPT !.phrase = NoPhrase, !.text = r.text,
                                         !.status = "Decrypted"]
                ELSE [done EXCEPT !.status = r.err]
      /\ UNCHANGED <<vaultLoaded, enc, next, made>>
  BY <1>3 DEF Changes, Outcome
<1>6. /\ DOMAIN done = DecFields /\ done.input = dec.input /\ done.reading = dec.reading
      /\ done.tried.input = dec.input
  BY <1>1, <1>2 DEF DecFields
<1>7. /\ DOMAIN dec' = DecFields /\ dec'.input = dec.input /\ dec'.reading = dec.reading
      /\ dec'.tried = done.tried
  BY <1>5, <1>6 DEF DecFields
<1>8. SuccessIsOfLastTry'
  <2>1. CASE dec.input # Nothing /\ dec.input.form # "cut" /\ r = Plain(dec.input.vault.ct.body)
    <3>1. r.ok /\ r.text = dec.input.vault.ct.body
      BY <2>1 DEF Plain
    <3>2. dec'.text = dec.input.vault.ct.body
      BY <1>5, <1>6, <3>1 DEF DecFields
    <3> QED
      BY <1>6, <1>7, <2>1, <3>2 DEF SuccessIsOfLastTry
  <2>2. ASSUME NEW e \in Errors \cup {"auth", "content", "empty", "parse"}, r = Refused(e)
        PROVE  SuccessIsOfLastTry'
    <3>1. r.ok = FALSE /\ r.err = e
      BY <2>2 DEF Refused
    <3>2. dec'.status = e
      BY <1>5, <1>6, <3>1 DEF DecFields
    <3>3. e # "Decrypted"
      BY DEF Errors
    <3> QED
      BY <3>2, <3>3 DEF SuccessIsOfLastTry
  <2> QED
    BY <1>4, <2>1, <2>2 DEF Tells
<1> QED
  BY <1>1, <1>5, <1>7, <1>8, EncryptFormKept

LEMMA FilesReadKeep ==
  ASSUME VaultPageInv,
         \/ PasteInput \/ TypeDecryptPhrase \/ LoadFileIntoTextarea \/ ReaderLoads \/ ReaderFails
         \/ SubmitDecrypt
  PROVE  VaultPageInv'
<1>1. DOMAIN dec = DecFields /\ dec.input \in Inputs \cup {Nothing} /\ dec.reading \subseteq Inputs
  BY DEF VaultPageInv, FormsAreForms
<1>2. UNCHANGED <<vaultLoaded, enc, next, made>>
  BY DEF PasteInput, TypeDecryptPhrase, LoadFileIntoTextarea, ReaderLoads, ReaderFails,
         SubmitDecrypt, Changes
<1>3. PICK i, p :
        \/ i \in Inputs /\ dec' \in {[dec EXCEPT !.input = i], [dec EXCEPT !.reading = @ \cup {i}],
                                     [dec EXCEPT !.reading = @ \ {i}, !.input = i, !.status = "Loaded"],
                                     [dec EXCEPT !.reading = @ \ {i}, !.status = "Could not read file"]}
        \/ dec' = [dec EXCEPT !.phrase = p]
        \/ dec' = [dec EXCEPT !.off = TRUE, !.status = "Decrypting", !.tasks = @ + 1, !.sent = @ + 1]
  BY <1>1 DEF PasteInput, TypeDecryptPhrase, LoadFileIntoTextarea, ReaderLoads, ReaderFails,
         SubmitDecrypt, Changes
<1>4. /\ DOMAIN dec' = DecFields /\ dec'.input \in Inputs \cup {Nothing} /\ dec'.reading \subseteq Inputs
      /\ dec'.text = dec.text /\ dec'.tried = dec.tried
      /\ dec'.status \in {dec.status, "Loaded", "Could not read file", "Decrypting"}
  BY <1>1, <1>3 DEF DecFields
<1>5. SuccessIsOfLastTry'
  BY <1>4 DEF VaultPageInv, SuccessIsOfLastTry
<1> QED
  BY <1>2, <1>4, <1>5, EncryptFormKept

LEMMA VaultPageStepKeeps == VaultPageInv /\ [VaultPageNext]_vaultPageVars => VaultPageInv'
<1> SUFFICES ASSUME VaultPageInv, [VaultPageNext]_vaultPageVars PROVE VaultPageInv'
  OBVIOUS
<1>1. CASE UNCHANGED vaultPageVars
  BY <1>1 DEF vaultPageVars, VaultPageInv, FormsAreForms, Gates, Unused, LockedAsShown,
              SuccessIsOfLastTry
<1>2. CASE VaultPageNext
  BY <1>2, LoadKeeps, FormEditsKeep, RenewalsKeep, LockingKeeps, FilesReadKeep, OpeningKeeps
     DEF VaultPageNext
<1> QED
  BY <1>1, <1>2

\* What the vault page shows and offers is true of what it has done: each vault
\* is locked as the form stood when its task ran, with a salt and nonces of its
\* own (wireEncryptForm), a generated phrase may always lock, and "Decrypted"
\* stands next to the content of the input tried last (wireDecryptForm).
THEOREM SpecPageKeepsItsWord == VaultPageSpec => []PageKeepsItsWord
<1>1. VaultPageInv => PageKeepsItsWord
  <2> SUFFICES ASSUME VaultPageInv PROVE GeneratedMayLock
    BY DEF VaultPageInv, PageKeepsItsWord
  <2> SUFFICES ASSUME vaultLoaded = "ready", enc.tasks = 0, enc.phrase.word = "generated"
               PROVE  ~enc.off
    BY DEF GeneratedMayLock
  <2>1. \A p \in TypedPhrases : p.word # "generated"
    <3> SUFFICES ASSUME NEW p \in TypedPhrases PROVE p.word # "generated"
      OBVIOUS
    <3>1. PICK w, len, classes, seps, triple, common :
            /\ p = Phrase(w, len, classes, seps, triple, common)
            /\ w = "" \/ w = "weak" \/ w = "right"
      <4>1. \/ p = Phrase("", 0, 0, 0, FALSE, FALSE)
            \/ p = Phrase("weak", 13, 2, 0, FALSE, TRUE)
            \/ p = Phrase("right", 21, 2, 3, FALSE, FALSE)
        BY DEF TypedPhrases, NoPhrase
      <4> QED
        BY <4>1, Zenon
    <3>2. "" # "generated" /\ "weak" # "generated" /\ "right" # "generated"
      BY Zenon
    <3>3. p.word = w
      BY <3>1 DEF Phrase
    <3> QED
      BY <3>1, <3>2, <3>3, Zenon
  <2>2. enc.phrase \in GeneratedPhrases
    BY <2>1 DEF VaultPageInv, FormsAreForms
  <2> QED
    BY <2>2, GeneratedIsStrong DEF VaultPageInv, Gates
<1> QED
  BY <1>1, VaultPageInitHolds, VaultPageStepKeeps, PTL DEF VaultPageSpec

===============================================================================
