------------------------------- MODULE Voice --------------------------------
(***************************************************************************)
(* One phone call at the voice door (src/voice): the callbacks of the      *)
(* provider (server.py), the registry of calls (calls.py), the media       *)
(* streams of the call, each with its session (agent.py), and the one      *)
(* Dialogue they share (dialogue.py, flows.py).  A session works on one    *)
(* utterance at a time, in a task of its own that outlives its stream; the *)
(* Dialogue is where tasks and callbacks meet.                             *)
(*                                                                         *)
(* Left out: the audio and its playback, the wording and the languages.    *)
(***************************************************************************)
EXTENDS Naturals, Sequences, SequencesExt

CONSTANTS
    Texts,          \* requests that a keyword routes
    Items, HighRisk,
    Pending,        \* what the engine may say awaits the caller: sequences of items
    MaxStreams, MaxUtterances, MaxRepeats     \* bounds

VARIABLES
    phone,          \* where the provider has the call
    call,           \* [known, verified]: the entry of the registry
    stream,         \* streams so far; the last one is the current
    session,        \* [1..MaxStreams -> [at, word, control]]
    d,              \* the Dialogue
    said, repeats,  \* utterances and repeated callbacks so far
    log             \* [readback, started, decided, due]: what happened

vars == <<phone, call, stream, session, d, said, repeats, log>>

Keyworded == {"ask", "status", "policy", "approve", "human"} \cup Texts
Words == {"switch", "yes", "no", "next", "other"} \cup Keyworded
Intents == {"request", "status", "policy", "approve", "human", "unclear"}
RegisteredOnly == {"request", "status", "approve"}
Nothing == <<"nothing">>
ReadBack == <<"readback">>
Confirm(text) == <<"confirm", text>>
Choose == <<"choose">>
NoItem == "none"

Silent == [at |-> "none", word |-> "other", control |-> FALSE]
NewDialogue(registered) ==
    [registered |-> registered, expect |-> Nothing, queue |-> <<>>, position |-> 0,
     keys |-> NoItem, next |-> "hangup", resume |-> FALSE]

TypeOK ==
    /\ phone \in {"ringing", "answered", "stream", "stopping", "next", "gather", "over"}
    /\ call \in [known : BOOLEAN, verified : BOOLEAN, dialogue : BOOLEAN]
    /\ stream \in 0..MaxStreams
    /\ session \in [1..MaxStreams -> [at : {"none", "opening", "listening", "stt", "route", "engine", "say"},
                                      word : Words \cup {"pending"}, control : BOOLEAN]]
    /\ d.expect \in {Nothing, ReadBack, Choose} \cup {Confirm(w) : w \in Words}
    /\ d.registered \in BOOLEAN /\ d.queue \in {<<>>} \cup Pending /\ d.keys \in Items \cup {NoItem}
    /\ d.next \in {"gather", "hangup"} /\ d.resume \in BOOLEAN
    /\ said \in 0..MaxUtterances /\ repeats \in 0..MaxRepeats

(* What may be given: queues of items; no request is the word for the queue. *)
Given ==
    /\ Pending \subseteq Seq(Items) /\ "pending" \notin Texts
    /\ MaxStreams \in Nat /\ MaxUtterances \in Nat /\ MaxRepeats \in Nat

Init ==
    /\ phone = "ringing" /\ call = [known |-> FALSE, verified |-> FALSE, dialogue |-> FALSE]
    /\ stream = 0 /\ session = [n \in 1..MaxStreams |-> Silent]
    /\ d = NewDialogue(FALSE)
    /\ said = 0 /\ repeats = 0
    /\ log = [readback |-> [w \in Words |-> 0], started |-> [w \in Words |-> 0],
              decided |-> {}, due |-> FALSE]

-----------------------------------------------------------------------------
(* The callbacks of the provider.                                          *)

(* What the provider reads back of the call: the claimed caller calls in,  *)
(* the call is one of our own tests, or neither is confirmed.              *)
CallReadBack == {"inbound", "outbound", "unconfirmed"}

(* A repeated callback finds the call as it was registered.                *)
Registered(confirmed) ==
    IF call.known THEN call ELSE [known |-> TRUE, verified |-> confirmed = "inbound", dialogue |-> FALSE]

Answer ==
    /\ \/ phone = "ringing"
       \/ phone = "answered" /\ stream = 0 /\ repeats < MaxRepeats
    /\ \E confirmed \in CallReadBack : call' = Registered(confirmed)
    /\ phone' = "answered" /\ repeats' = IF phone = "ringing" THEN repeats ELSE repeats + 1
    /\ UNCHANGED <<stream, session, d, said, log>>

(* The first stream of a call makes its Dialogue; the engine names the     *)
(* person, and a caller it does not name is unknown for the whole call.    *)
Connect ==
    /\ phone = "answered" /\ call.known /\ stream < MaxStreams
    /\ stream' = stream + 1 /\ phone' = "stream"
    /\ session' = [session EXCEPT ![stream + 1].at = "opening"]
    /\ IF call.dialogue THEN UNCHANGED d
       ELSE \E registered \in BOOLEAN : (registered => call.verified) /\ d' = NewDialogue(registered)
    /\ call' = [call EXCEPT !.dialogue = TRUE]
    /\ UNCHANGED <<said, repeats, log>>

StreamEnds ==
    /\ phone \in {"stream", "stopping"} /\ phone' = "next"
    /\ UNCHANGED <<call, stream, session, d, said, repeats, log>>

(* Read once: when the answer is lost, the repeated callback hangs up.     *)
NextStep ==
    /\ phone = "next"
    /\ IF call.known
       THEN phone' \in {IF d.next = "gather" THEN "gather" ELSE "over", "next"} /\ d' = [d EXCEPT !.next = "hangup"]
       ELSE phone' = "over" /\ UNCHANGED d
    /\ UNCHANGED <<call, stream, session, said, repeats, log>>

(* The next item that awaits the caller, or none.                          *)
Offered(dialogue) ==
    IF dialogue.position >= Len(dialogue.queue) THEN [dialogue EXCEPT !.queue = <<>>]
    ELSE [dialogue EXCEPT !.expect = Choose]

(* The form field is not trusted: no key is ever handed on.                *)
KeysHandedOn == {"none"}

(* A repeated callback does not erase what is still to be said.            *)
Remembered(resume) == resume \/ d.keys # NoItem

OnDtmf ==
    \E key \in KeysHandedOn :
       /\ d' = IF d.keys = NoItem THEN [d EXCEPT !.resume = Remembered(d.resume)]
               ELSE Offered([d EXCEPT !.keys = NoItem, !.position = @ + 1, !.resume = Remembered(@)])
       /\ log' = [log EXCEPT !.due = @ \/ d.keys # NoItem,
                             !.decided = @ \cup IF d.keys # NoItem /\ key # "none" THEN {d.keys} ELSE {}]

Dtmf ==
    /\ phone = "gather"
    /\ IF call.known THEN OnDtmf /\ phone' = "answered"
                     ELSE UNCHANGED <<d, log>> /\ phone' = "over"
    /\ UNCHANGED <<call, stream, session, said, repeats>>

DtmfAgain ==
    /\ phone \in {"answered", "stream"} /\ call.known /\ call.dialogue /\ stream > 0
    /\ repeats < MaxRepeats /\ repeats' = repeats + 1
    /\ OnDtmf
    /\ UNCHANGED <<phone, call, stream, session, said>>

(* The callback that drops the call may never come; a call that old is     *)
(* forgotten when another is answered.                                     *)
Hangup ==
    /\ phone \notin {"ringing", "over"}
    /\ phone' = "over" /\ \E known \in {FALSE, call.known} : call' = [call EXCEPT !.known = known]
    /\ UNCHANGED <<stream, session, d, said, repeats, log>>

Forget ==
    /\ call.known /\ call' = [call EXCEPT !.known = FALSE]
    /\ UNCHANGED <<phone, stream, session, d, said, repeats, log>>

-----------------------------------------------------------------------------
(* A session.                                                              *)

At(n, place) == session[n].at = place
Goes(n, place) == session' = [session EXCEPT ![n].at = place]
SessionOnly == UNCHANGED <<phone, call, stream, said, repeats>>

(* The stream starts: what happened meanwhile, or the disclosure.          *)
Opening(n) ==
    /\ At(n, "opening") /\ Goes(n, "listening")
    /\ d' = [d EXCEPT !.resume = FALSE]
    /\ log' = [log EXCEPT !.due = @ /\ ~d.resume]
    /\ SessionOnly

(* While an utterance is worked on the caller is not listened to.          *)
Utter(n, word) ==
    /\ n = stream /\ phone \in {"stream", "stopping"} /\ At(n, "listening")
    /\ said < MaxUtterances /\ said' = said + 1
    /\ session' = [session EXCEPT ![n] = [at |-> "stt", word |-> word, control |-> FALSE]]
    /\ UNCHANGED <<phone, call, stream, d, repeats, log>>

Turn(n, dialogue) == Goes(n, "say") /\ d' = dialogue /\ UNCHANGED log

Reads(n, dialogue, text) ==
    /\ Goes(n, "say") /\ d' = [dialogue EXCEPT !.expect = Confirm(text)]
    /\ log' = [log EXCEPT !.readback[text] = @ + 1]

(* Waits for the engine, to start a request, to answer, or for what is     *)
(* pending.                                                                *)
Engine(n, dialogue, word) ==
    /\ session' = [session EXCEPT ![n].at = "engine", ![n].word = word]
    /\ d' = dialogue /\ UNCHANGED log

(* A mutant: the question stays open while its answer is handled.          *)
StillOpen == d

Answered == [d EXCEPT !.expect = Nothing]

ConfirmRequest(n, text, answer) ==
    CASE answer = "yes" -> Engine(n, Answered, text)
      [] answer = "no"  -> Turn(n, Answered)
      [] OTHER          -> Turn(n, [Answered EXCEPT !.expect = Confirm(text)])

(* A high-risk item is not decided by phone.  An item that is no longer in *)
(* the queue is an exception, which ends the turn.                         *)
ChooseItem(n, answer) ==
    LET item == d.queue[d.position + 1]
        next == Offered([Answered EXCEPT !.position = @ + 1])
    IN  CASE answer \notin {"yes", "no", "next"} -> Turn(n, [Answered EXCEPT !.expect = Choose])
          [] answer \in {"yes", "no", "next"} /\ d.position >= Len(d.queue) ->
                Goes(n, "listening") /\ d' = Answered /\ UNCHANGED log
          [] OTHER ->
                IF answer = "yes" /\ item \notin HighRisk
                THEN /\ session' = [session EXCEPT ![n].at = "say", ![n].control = TRUE]
                     /\ d' = [Answered EXCEPT !.keys = item, !.next = "gather"]
                     /\ UNCHANGED log
                ELSE Turn(n, next)

(* Without a transcript the turn is over.                                  *)
NotUnderstood(n) == Goes(n, "listening") /\ UNCHANGED <<d, log>>

(* A language that is named leaves the open question open.                 *)
OnUtterance(n) ==
    /\ At(n, "stt")
    /\ LET word == session[n].word IN
       \/ NotUnderstood(n)
       \/ word = "switch" /\ Turn(n, d)
       \/ word # "switch" /\ d.expect = ReadBack /\ Reads(n, Answered, word)
       \/ /\ word # "switch" /\ d.expect \in {Confirm(w) : w \in Words}
          /\ ConfirmRequest(n, d.expect[2], word)
       \/ word # "switch" /\ d.expect = Choose /\ ChooseItem(n, word)
       \/ word # "switch" /\ d.expect = Nothing /\ Goes(n, "route") /\ UNCHANGED <<d, log>>
    /\ SessionOnly

(* Keywords decide; other words are the model's to label.                  *)
Route(word) ==
    CASE word \in {"ask"} \cup Texts                       -> {"request"}
      [] word \in {"status", "policy", "approve", "human"} -> {word}
      [] OTHER                                             -> Intents

MayAsk(intent) == intent \in RegisteredOnly => d.registered

(* The engine's words are spoken as they are.                              *)
QuestionAnswered(n) == Turn(n, d)

(* No transfer is available, so a person is not.                           *)
Dispatch(n) ==
    /\ At(n, "route")
    /\ LET word == session[n].word IN
       \E intent \in Route(word) :
          \/ ~MayAsk(intent) /\ Turn(n, d)
          \/ intent = "request" /\ MayAsk(intent) /\ word = "ask" /\ Turn(n, [d EXCEPT !.expect = ReadBack])
          \/ intent = "request" /\ MayAsk(intent) /\ word # "ask" /\ Reads(n, d, word)
          \/ intent = "approve" /\ MayAsk(intent) /\ Engine(n, d, "pending")
          \/ intent \in {"status", "policy"} /\ MayAsk(intent) /\ QuestionAnswered(n)
          \/ intent \in {"human", "unclear"} /\ Turn(n, d)
    /\ SessionOnly

(* The engine does what it is asked, or is down: a call that times out may *)
(* have been served.                                                       *)
Served == {0, 1}

StartRequest(n) ==
    /\ At(n, "engine") /\ session[n].word # "pending" /\ Goes(n, "say")
    /\ \E served \in Served : log' = [log EXCEPT !.started[session[n].word] = @ + served]
    /\ UNCHANGED d /\ SessionOnly

(* The queue is the engine's, as it is now.                                *)
ListPending(n) ==
    /\ At(n, "engine") /\ session[n].word = "pending" /\ Goes(n, "say")
    /\ \/ \E queue \in Pending : d' = Offered([d EXCEPT !.queue = queue, !.position = 0])
       \/ UNCHANGED d
    /\ UNCHANGED log /\ SessionOnly

(* What is to be said is played; then, for a key, the stream is stopped.   *)
Say(n) ==
    /\ At(n, "say") /\ Goes(n, "listening")
    /\ phone' = IF session[n].control /\ n = stream /\ phone = "stream" THEN "stopping" ELSE phone
    /\ UNCHANGED <<call, stream, d, said, repeats, log>>

-----------------------------------------------------------------------------
Next ==
    \/ Answer \/ Connect \/ StreamEnds \/ NextStep \/ Dtmf \/ DtmfAgain \/ Hangup \/ Forget
    \/ \E n \in 1..MaxStreams :
          \/ Opening(n) \/ OnUtterance(n) \/ Dispatch(n) \/ StartRequest(n) \/ ListPending(n) \/ Say(n)
          \/ \E word \in Words : Utter(n, word)

Spec == Init /\ [][Next]_vars

-----------------------------------------------------------------------------
(* A request is started at most once for each time it was read back,       *)
(* whatever the sessions of a call do at the same time.                    *)
OneStartPerReadBack == \A w \in Words : log.started[w] <= log.readback[w]

(* An unknown caller starts nothing, is read nothing back and is shown no  *)
(* queue.                                                                  *)
StrangersOnlyAsk ==
    ~d.registered => d.queue = <<>> /\ \A w \in Words : log.started[w] = 0 /\ log.readback[w] = 0

(* The phone decides nothing, whatever keys are pressed.                   *)
NothingDecided == log.decided = {}

(* What came of pressing a key is told when the stream comes back, however *)
(* often the callback is repeated before.                                  *)
OutcomeIsSpoken == log.due => d.resume

(* What waits for a key is not of high risk and was pending for the caller.*)
KeysAreForItems == d.keys # NoItem => d.keys \notin HighRisk

(* Together: the phone does what its caller confirmed, and no more.        *)
PhoneIsHarmless ==
    OneStartPerReadBack /\ StrangersOnlyAsk /\ NothingDecided /\ OutcomeIsSpoken /\ KeysAreForItems
=============================================================================
