------------------------------ MODULE NotifyPage ------------------------------
(***************************************************************************)
(* The QNotify page, landing/notify/notify.js: publishing to a topic, and  *)
(* watching one with a poll every few seconds that waits for nothing.      *)
(* Until libsodium has loaded, publishing and decrypting wait for it;      *)
(* once it has, the messages of an answer are shown in one go.  The two    *)
(* forms share nothing but the server, so a behaviour shows one of them.   *)
(* What the subscribe form holds at a start, typed, filled in from         *)
(* localStorage or by the service worker, is any topic and any phrase.     *)
(* A message's number stands for its id and its time stamp; the server is  *)
(* external, its time stamps are all different.                            *)
(***************************************************************************)
EXTENDS VaultPrograms, PageValues

CONSTANTS
  Topics, TopicPhrases, Texts,
  MaxMessages,   \* bound: messages on the server
  MaxStarts,     \* bound: watches begun
  MaxPolls       \* bound: polls begun

VARIABLES
  side,        \* the form this behaviour is about: "publish" or "watch"
  ready,       \* sodiumReady
  server,      \* the messages in order
  pub,         \* the publish form
  publishing,  \* onPublish under way; its button is disabled meanwhile
  clicked,     \* history: the publish form at the clicks
  watch,       \* currentTopic, currentPhrase, lastSeenTs, seenIds
  starts,      \* watches begun
  polls,       \* pollOnce under way
  polled,      \* polls begun, which numbers them
  inbox,       \* the messages on display
  stale        \* history: an answer to an earlier watch came into this one

publishVars == <<pub, publishing, clicked>>
watchVars == <<watch, starts, polls, polled, inbox, stale>>
notifyVars == <<side, ready, server, publishVars, watchVars>>

NotPublishing == [pc |-> "idle"]
HeardPhrase(phrase) == [typed |-> phrase, latin |-> FALSE]
MaxOf(S) == CHOOSE n \in S : \A k \in S : k <= n
MinOf(S) == CHOOSE n \in S : \A k \in S : n <= k

Message(topic, text, phrase) == [topic |-> topic, text |-> text, phrase |-> phrase]
Envelope(id) ==
  NotifyEncryptMessage(server[id].text, HeardPhrase(server[id].phrase), "now",
                       [salt |-> id, wrapNonce |-> id, contentNonce |-> id, key |-> <<id>>])

NotifyInit ==
  /\ side \in {"publish", "watch"}
  /\ ready = FALSE /\ server = <<>>
  /\ pub = [topic |-> None, text |-> "", phrase |-> ""]
  /\ publishing = NotPublishing /\ clicked = {}
  /\ watch = [topic |-> None, phrase |-> None, last |-> 0, seen |-> {}]
  /\ starts = 0 /\ polls = {} /\ polled = 0 /\ inbox = {} /\ stale = FALSE

\* Decryptions that waited for libsodium all go on before anything else.
Busy == ready /\ \E k \in polls : k.pc = "rendering"
SodiumReady ==
  /\ ~ready
  /\ ready' = TRUE
  /\ UNCHANGED <<side, server, publishVars, watchVars>>

---------------------------------------------------------------------------
\* Publishing

TypePublish ==
  /\ side = "publish"
  /\ \E t \in Topics, text \in Texts, p \in TopicPhrases :
       pub' \in {[pub EXCEPT !.topic = t], [pub EXCEPT !.text = text],
                 [pub EXCEPT !.phrase = p]}
  /\ UNCHANGED <<side, ready, server, publishing, clicked, watchVars>>

\* onPublish reads the form at the click.
ClickPublish ==
  /\ publishing = NotPublishing
  /\ pub.topic \in Topics /\ pub.text # "" /\ pub.phrase # ""
  /\ publishing' = [pc |-> "encrypt", form |-> pub]
  /\ clicked' = clicked \cup {pub}
  /\ UNCHANGED <<side, ready, server, pub, watchVars>>

SealedLate == pub
Sealed == publishing.form
\* The server may take the message though its answer is lost.
PublishPosts ==
  /\ publishing # NotPublishing /\ publishing.pc = "encrypt" /\ ready
  /\ Len(server) < MaxMessages
  /\ server' = Append(server, Message(publishing.form.topic, Sealed.text, Sealed.phrase))
  /\ publishing' = [publishing EXCEPT !.pc = "posted"]
  /\ UNCHANGED <<side, ready, pub, clicked, watchVars>>

\* The message is cleared from the form, whatever it holds by now.
PublishAnswers ==
  /\ publishing # NotPublishing /\ publishing.pc = "posted"
  /\ publishing' = NotPublishing
  /\ pub' = [pub EXCEPT !.text = ""]
  /\ UNCHANGED <<side, ready, server, clicked, watchVars>>

PublishFails ==
  /\ publishing # NotPublishing /\ ready
  /\ publishing' = NotPublishing
  /\ UNCHANGED <<side, ready, server, pub, clicked, watchVars>>

---------------------------------------------------------------------------
\* Watching

Watching == side = "watch" /\ ~Busy

OthersPublish ==
  /\ Watching /\ Len(server) < MaxMessages
  /\ \E t \in Topics, p \in TopicPhrases :
       server' = Append(server, Message(t, "m", p))
  /\ UNCHANGED <<side, ready, publishVars, watchVars>>

\* pollOnce asks for what is newer than the last message seen.
Poll(topic, last) == [n |-> polled, topic |-> topic, after |-> last, round |-> starts',
                      pc |-> "asked", at |-> 0, phrase |-> None, queue |-> {},
                      from |-> Len(server)]

\* startWatching, by a click or by a timer that the address of the page or a
\* message of the service worker has set, so also while another watch is on.
\* It forgets that watch, but not its polls.
BegunKeepsLast(t, phrase) == [topic |-> t, phrase |-> phrase, last |-> watch.last, seen |-> {}]
Begun(t, phrase) == [topic |-> t, phrase |-> phrase, last |-> 0, seen |-> {}]
StartWatching(t, phrase) ==
  /\ Watching /\ starts < MaxStarts /\ polled < MaxPolls
  /\ starts' = starts + 1
  /\ watch' = Begun(t, phrase)
  /\ inbox' = {} /\ stale' = FALSE
  /\ polls' = polls \cup {Poll(t, watch'.last)}
  /\ polled' = polled + 1
  /\ UNCHANGED <<side, ready, server, publishVars>>

StopWatching ==
  /\ Watching /\ watch.topic # None
  /\ watch' = [watch EXCEPT !.topic = None, !.phrase = None]
  /\ UNCHANGED <<side, ready, server, publishVars, starts, polls, polled, inbox, stale>>

PollTimer ==
  /\ Watching /\ watch.topic # None /\ polled < MaxPolls
  /\ UNCHANGED starts
  /\ polls' = polls \cup {Poll(watch.topic, watch.last)}
  /\ polled' = polled + 1
  /\ UNCHANGED <<side, ready, server, publishVars, watch, inbox, stale>>

\* A message is unlocked by the phrase that was current when its rendering
\* began, and that phrase is named next to it.
NamedPhraseNow(captured) == watch.phrase
NamedPhrase(captured) == captured
Entry(k, id, phrase, round) ==
  LET r == IF phrase = None THEN Refused("no phrase")
           ELSE NotifyDecryptMessage(Envelope(id), HeardPhrase(phrase))
  IN [id |-> id, poll |-> k.n, round |-> round, text |-> r.text,
      used |-> IF r.ok THEN NamedPhrase(phrase) ELSE None]

\* The loop of pollOnce: what is not yet seen is marked as seen and shown.
\* Without libsodium the first message that needs it holds up the rest.
Unseen(queue) == queue \ watch.seen
Show(k, queue, box) ==
  LET new == Unseen(queue)
      at == MinOf(new)
      See(ids) == [watch EXCEPT !.seen = @ \cup ids, !.last = MaxOf(ids \cup {@})]
  IN IF new = {}
     THEN /\ polls' = polls \ {k} /\ inbox' = box
          /\ UNCHANGED watch
     ELSE IF ready \/ watch.phrase = None
     THEN /\ polls' = polls \ {k}
          /\ inbox' = box \cup {Entry(k, id, watch.phrase, starts) : id \in new}
          /\ watch' = See(new)
     ELSE /\ polls' = (polls \ {k})
                      \cup {[k EXCEPT !.pc = "rendering", !.at = at, !.phrase = watch.phrase,
                                      !.queue = new \ {at}, !.round = starts]}
          /\ inbox' = box
          /\ watch' = See({at})

\* The answer holds the messages of its topic as of some time since the call.
Batch(k, n) == {id \in 1..n : server[id].topic = k.topic /\ id > k.after}
AnswerComes(k) ==
  /\ ~Busy /\ k.pc = "asked"
  /\ stale' = (stale \/ k.round # starts)
  /\ \E n \in k.from .. Len(server) : Show(k, Batch(k, n), inbox)
  /\ UNCHANGED <<side, ready, server, publishVars, starts, polled>>

AnswerFails(k) ==
  /\ ~Busy /\ k.pc = "asked"
  /\ polls' = polls \ {k}
  /\ UNCHANGED <<side, ready, server, publishVars, watch, starts, polled, inbox, stale>>

RenderResumes(k) ==
  /\ ready /\ k.pc = "rendering"
  /\ stale' = (stale \/ k.round # starts)
  /\ Show(k, k.queue, inbox \cup {Entry(k, k.at, k.phrase, k.round)})
  /\ UNCHANGED <<side, ready, server, publishVars, starts, polled>>

NotifyNext ==
  \/ SodiumReady
  \/ TypePublish \/ ClickPublish \/ PublishPosts \/ PublishAnswers \/ PublishFails
  \/ OthersPublish \/ StopWatching \/ PollTimer
  \/ \E t \in Topics, phrase \in TopicPhrases \cup {None} : StartWatching(t, phrase)
  \/ \E k \in polls : AnswerComes(k) \/ AnswerFails(k) \/ RenderResumes(k)

NotifySpec == NotifyInit /\ [][NotifyNext]_notifyVars

---------------------------------------------------------------------------
\* Properties

\* The types of the state.
NotifyTypeOK ==
  /\ Len(server) <= MaxMessages /\ starts <= MaxStarts /\ polled <= MaxPolls
  /\ watch.topic \in Topics \cup {None} /\ watch.seen \subseteq DOMAIN server
  /\ watch.last \in 0..Len(server)

\* What is on the server was published as the form stood at one click
\* (notify.js:278-307), however it was edited while libsodium loaded.
PublishedAsTyped ==
  side = "publish" => \A id \in DOMAIN server : server[id] \in clicked

\* "Captured at render time so late-changes to currentPhrase don't
\* retroactively reassign what unlocked which message" (notify.js:392-395): the
\* phrase named next to a message opens it and gives the text on display.
NamedPhraseOpens ==
  \A e \in inbox : e.used # None =>
    NotifyDecryptMessage(Envelope(e.id), HeardPhrase(e.used)) = Plain(e.text)

\* Overlapping polls (notify.js:340-353) show no message twice in one watch.
NothingTwice ==
  \A e, f \in inbox : e.id = f.id /\ e.round = f.round => e = f

\* What the next poll will not ask for any more has been seen, unless an
\* answer to an earlier watch, of another topic or the same, has come into
\* this one and moved lastSeenTs.
WatchSkipsNothing ==
  watch.topic # None /\ ~stale =>
    \A id \in 1 .. watch.last : server[id].topic = watch.topic => id \in watch.seen

\* Each message of its topic once, whatever polls overlap and watches restart.
EachMessageOnce == NothingTwice /\ WatchSkipsNothing
=============================================================================
