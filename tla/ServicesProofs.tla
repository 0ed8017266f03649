--------------------------- MODULE ServicesProofs ---------------------------
(***************************************************************************)
(* Proofs about Services, continued from DecisionProofs: what happens on   *)
(* the phone and what followers of a run are shown, for any streams,       *)
(* followers and restarts; and that all services together keep their types.*)
(***************************************************************************)
EXTENDS DecisionProofs

-----------------------------------------------------------------------------
(* The phone.  VoiceInv pairs every start with a read-back before it, those*)
(* counted that are still on their way, whichever stream they came by.     *)

OpenQuestions == {V!Nothing, V!ReadBack, V!Choose} \cup {V!Confirm(w) : w \in V!Words}
Dialogues ==
    [registered : BOOLEAN, expect : OpenQuestions, queue : {<<>>} \cup Pending, position : Nat,
     keys : Items \cup {V!NoItem}, next : {"gather", "hangup"}, resume : BOOLEAN]
Logs == [readback : [V!Words -> Nat], started : [V!Words -> Nat], decided : SUBSET Items, due : BOOLEAN]
Sessions ==
    {s \in [at : {"none", "opening", "listening", "stt", "route", "engine", "say"},
            word : V!Words \cup {"pending"}, control : BOOLEAN] : s.at \in {"stt", "route"} => s.word \in V!Words}

VoiceTypes ==
    /\ phone \in {"ringing", "answered", "stream", "stopping", "next", "gather", "over"}
    /\ registry \in [known : BOOLEAN, verified : BOOLEAN, dialogue : BOOLEAN]
    /\ stream \in 0..MaxStreams /\ session \in [1..MaxStreams -> Sessions]
    /\ d \in Dialogues /\ log \in Logs
    /\ said \in 0..MaxUtterances /\ repeats \in 0..MaxRepeats

(* The sessions that are about to start a request, and whether the caller  *)
(* is asked to confirm it: each was read back.                             *)
Starting(w) == {n \in 1..MaxStreams : session[n].at = "engine" /\ session[n].word = w}
Open(w) == IF d.expect = V!Confirm(w) THEN 1 ELSE 0
Backed(w) == log.started[w] + Cardinality(Starting(w)) + Open(w) <= log.readback[w]

Untouched ==
    /\ d = V!NewDialogue(FALSE) /\ session = [n \in 1..MaxStreams |-> V!Silent]
    /\ log = [readback |-> [w \in V!Words |-> 0], started |-> [w \in V!Words |-> 0], decided |-> {}, due |-> FALSE]

StrangersAsk ==
    ~d.registered =>
        /\ d.queue = <<>> /\ d.expect = V!Nothing /\ \A n \in 1..MaxStreams : session[n].at # "engine"
        /\ \A w \in V!Words : log.started[w] = 0 /\ log.readback[w] = 0

VoiceInv ==
    /\ VoiceTypes
    /\ phone \in {"stream", "stopping", "next", "gather"} => stream > 0
    /\ phone = "ringing" => stream = 0
    /\ IF stream = 0 THEN Untouched ELSE registry.dialogue
    /\ \A w \in V!Words : Backed(w)
    /\ StrangersAsk
    /\ log.decided = {} /\ (log.due => d.resume) /\ (d.keys # V!NoItem => d.keys \notin HighRisk)

(* The questions that may be open are told apart.                          *)
LEMMA QuestionsDiffer ==
  /\ V!Nothing # V!ReadBack /\ V!Nothing # V!Choose /\ V!ReadBack # V!Choose
  /\ \A w : V!Confirm(w) \notin {V!Nothing, V!ReadBack, V!Choose} /\ V!Confirm(w)[2] = w
  /\ \A v, w : V!Confirm(v) = V!Confirm(w) => v = w
<1>1. \A w : V!Confirm(w)[2] = w /\ Len(V!Confirm(w)) = 2
  BY DEF V!Confirm
<1>2. Len(V!Nothing) = 1 /\ Len(V!ReadBack) = 1 /\ Len(V!Choose) = 1
  BY DEF V!Nothing, V!ReadBack, V!Choose
<1>3. V!Nothing[1] = "nothing" /\ V!ReadBack[1] = "readback" /\ V!Choose[1] = "choose"
  BY DEF V!Nothing, V!ReadBack, V!Choose
<1>4. \A v, w : V!Confirm(v) = V!Confirm(w) => v = w
  BY <1>1
<1> QED BY <1>1, <1>2, <1>3, <1>4

(* A phone that rings has said and confirmed nothing.                      *)
LEMMA VoiceStarts == V!Given /\ V!Init => VoiceInv
<1> SUFFICES ASSUME V!Given, V!Init PROVE VoiceInv
  OBVIOUS
<1>1. Untouched
  BY DEF V!Init, Untouched
<1>2. d \in Dialogues /\ log \in Logs /\ session \in [1..MaxStreams -> Sessions]
  BY <1>1 DEF Untouched, V!NewDialogue, Dialogues, Logs, Sessions, V!Silent, OpenQuestions, V!Words
<1>3. VoiceTypes
  <2>1. registry \in [known : BOOLEAN, verified : BOOLEAN, dialogue : BOOLEAN]
    BY DEF V!Init
  <2>2. stream \in 0..MaxStreams /\ said \in 0..MaxUtterances /\ repeats \in 0..MaxRepeats
    BY DEF V!Init, V!Given
  <2> QED BY <1>2, <2>1, <2>2 DEF VoiceTypes, V!Init
<1>4. d.expect = V!Nothing /\ d.queue = <<>> /\ d.keys = V!NoItem
  BY <1>1 DEF Untouched, V!NewDialogue
<1>5. \A w \in V!Words : Backed(w)
  <2> TAKE w \in V!Words
  <2>1. Starting(w) = {}
    BY <1>1 DEF Untouched, Starting, V!Silent
  <2>2. Open(w) = 0
    BY <1>4, QuestionsDiffer DEF Open
  <2>3. log.started[w] = 0 /\ log.readback[w] = 0
    BY <1>1 DEF Untouched
  <2> QED BY <2>1, <2>2, <2>3, FS_EmptySet DEF Backed
<1>6. StrangersAsk
  BY <1>1, <1>4 DEF StrangersAsk, Untouched, V!Silent
<1>7. log.decided = {} /\ ~log.due
  BY <1>1 DEF Untouched
<1>8. phone = "ringing" /\ stream = 0
  BY DEF V!Init
<1> QED BY <1>1, <1>3, <1>4, <1>5, <1>6, <1>7, <1>8 DEF VoiceInv

(* Steps that leave the sessions, the Dialogue and the log alone.          *)
LEMMA CallbacksKeep == V!Given /\ VoiceInv /\ (V!Answer \/ V!StreamEnds \/ V!Hangup \/ V!Forget \/ UNCHANGED V!vars) => VoiceInv'
<1> SUFFICES ASSUME V!Given, VoiceInv, V!Answer \/ V!StreamEnds \/ V!Hangup \/ V!Forget \/ UNCHANGED V!vars PROVE VoiceInv'
  OBVIOUS
<1>1. UNCHANGED <<stream, session, d, said, log>>
  BY DEF V!Answer, V!StreamEnds, V!Hangup, V!Forget, V!vars
<1>2. registry' \in [known : BOOLEAN, verified : BOOLEAN, dialogue : BOOLEAN]
  <2>1. registry \in [known : BOOLEAN, verified : BOOLEAN, dialogue : BOOLEAN]
    BY DEF VoiceInv, VoiceTypes
  <2>2. CASE V!Answer
    BY <2>1, <2>2 DEF V!Answer, V!Registered
  <2>3. CASE V!Hangup
    BY <2>1, <2>3 DEF V!Hangup
  <2>4. CASE V!Forget
    BY <2>1, <2>4 DEF V!Forget
  <2>5. CASE V!StreamEnds \/ UNCHANGED V!vars
    BY <2>1, <2>5 DEF V!StreamEnds, V!vars
  <2> QED BY <2>2, <2>3, <2>4, <2>5
<1>3. /\ phone' \in {"ringing", "answered", "stream", "stopping", "next", "gather", "over"}
      /\ repeats' \in 0..MaxRepeats
  BY DEF V!Answer, V!StreamEnds, V!Hangup, V!Forget, V!vars, VoiceInv, VoiceTypes, V!Given
<1>4. VoiceTypes'
  BY <1>1, <1>2, <1>3 DEF VoiceInv, VoiceTypes
<1>5. /\ phone' \in {"stream", "stopping", "next", "gather"} => stream' > 0
      /\ phone' = "ringing" => stream' = 0
  BY <1>1 DEF V!Answer, V!StreamEnds, V!Hangup, V!Forget, V!vars, VoiceInv, VoiceTypes
<1>6. stream # 0 => registry'.dialogue
  <2>1. registry \in [known : BOOLEAN, verified : BOOLEAN, dialogue : BOOLEAN] /\ (stream # 0 => registry.dialogue)
    BY DEF VoiceInv, VoiceTypes
  <2>2. CASE V!Answer
    BY <2>2 DEF V!Answer, VoiceInv
  <2>3. CASE V!Hangup
    BY <2>1, <2>3 DEF V!Hangup
  <2>4. CASE V!Forget
    BY <2>1, <2>4 DEF V!Forget
  <2>5. CASE V!StreamEnds \/ UNCHANGED V!vars
    BY <2>1, <2>5 DEF V!StreamEnds, V!vars
  <2> QED BY <2>2, <2>3, <2>4, <2>5
<1>7. IF stream' = 0 THEN Untouched' ELSE registry'.dialogue
  BY <1>1, <1>6 DEF VoiceInv, Untouched
<1>8. \A w \in V!Words : Backed(w)'
  BY <1>1 DEF VoiceInv, Backed, Starting, Open
<1>9. StrangersAsk'
  BY <1>1 DEF VoiceInv, StrangersAsk
<1>10. log'.decided = {} /\ (log'.due => d'.resume) /\ (d'.keys # V!NoItem => d'.keys \notin HighRisk)
  BY <1>1 DEF VoiceInv
<1> QED BY <1>4, <1>5, <1>7, <1>8, <1>9, <1>10 DEF VoiceInv

(* A new stream begins in silence, whatever the last one left.             *)
LEMMA ConnectKeeps == V!Given /\ VoiceInv /\ V!Connect => VoiceInv'
<1> SUFFICES ASSUME V!Given, VoiceInv, V!Connect PROVE VoiceInv'
  OBVIOUS
<1>1. /\ phone' = "stream" /\ stream < MaxStreams /\ stream' = stream + 1
      /\ session' = [session EXCEPT ![stream + 1].at = "opening"]
      /\ registry' = [registry EXCEPT !.dialogue = TRUE] /\ UNCHANGED <<said, repeats, log>>
  BY DEF V!Connect
<1>2. /\ stream \in Nat /\ stream + 1 \in 1..MaxStreams /\ session \in [1..MaxStreams -> Sessions]
      /\ registry \in [known : BOOLEAN, verified : BOOLEAN, dialogue : BOOLEAN] /\ d \in Dialogues /\ log \in Logs
  BY <1>1 DEF VoiceInv, VoiceTypes, V!Given
<1>3. /\ session' \in [1..MaxStreams -> Sessions] /\ session'[stream + 1].at = "opening"
      /\ \A n \in 1..MaxStreams : n # stream + 1 => session'[n] = session[n]
  BY <1>1, <1>2 DEF Sessions
<1>4. registry' \in [known : BOOLEAN, verified : BOOLEAN, dialogue : BOOLEAN] /\ registry'.dialogue
  BY <1>1, <1>2
<1>5. \/ registry.dialogue /\ d' = d
      \/ stream = 0 /\ Untouched /\ \E registered \in BOOLEAN : d' = V!NewDialogue(registered)
  BY DEF V!Connect, VoiceInv
<1>6. \A w \in V!Words : Starting(w)' \subseteq Starting(w)
  BY <1>3 DEF Starting
<1>7. \A w \in V!Words : IsFiniteSet(Starting(w)) /\ Cardinality(Starting(w)) \in Nat
  <2> TAKE w \in V!Words
  <2>1. IsFiniteSet(1..MaxStreams)
    BY FS_Interval DEF V!Given
  <2> QED BY <2>1, FS_Subset, FS_CardinalityType DEF Starting
<1>8. \A w \in V!Words : Cardinality(Starting(w)') <= Cardinality(Starting(w)) /\ Cardinality(Starting(w)') \in Nat
  BY <1>6, <1>7, FS_Subset, FS_CardinalityType
<1>9. \A w \in V!Words : log.started[w] \in Nat /\ log.readback[w] \in Nat
  BY <1>2 DEF Logs
<1>10. VoiceTypes' /\ (\A w \in V!Words : Open(w)' <= Open(w) /\ Open(w)' \in Nat /\ Open(w) \in Nat) /\ StrangersAsk'
       /\ log'.decided = {} /\ (log'.due => d'.resume) /\ (d'.keys # V!NoItem => d'.keys \notin HighRisk)
  <2>1. CASE d' = d
    <3>1. VoiceTypes'
      BY <1>1, <1>2, <1>3, <1>4, <2>1 DEF VoiceInv, VoiceTypes
    <3>2. \A w \in V!Words : Open(w)' <= Open(w) /\ Open(w)' \in Nat /\ Open(w) \in Nat
      BY <2>1 DEF Open
    <3>3. StrangersAsk'
      BY <1>1, <1>3, <2>1 DEF StrangersAsk, VoiceInv
    <3>4. log'.decided = {} /\ (log'.due => d'.resume) /\ (d'.keys # V!NoItem => d'.keys \notin HighRisk)
      BY <1>1, <2>1 DEF VoiceInv
    <3> QED BY <3>1, <3>2, <3>3, <3>4
  <2>2. ASSUME stream = 0, Untouched, NEW registered \in BOOLEAN, d' = V!NewDialogue(registered)
        PROVE  VoiceTypes' /\ (\A w \in V!Words : Open(w)' <= Open(w) /\ Open(w)' \in Nat /\ Open(w) \in Nat) /\ StrangersAsk'
               /\ log'.decided = {} /\ (log'.due => d'.resume) /\ (d'.keys # V!NoItem => d'.keys \notin HighRisk)
    <3>1. /\ d' \in Dialogues /\ d'.expect = V!Nothing /\ d'.keys = V!NoItem /\ d'.queue = <<>>
          /\ d.expect = V!Nothing
      BY <2>2 DEF V!NewDialogue, Dialogues, OpenQuestions, Untouched
    <3>2. VoiceTypes'
      BY <1>1, <1>2, <1>3, <1>4, <3>1 DEF VoiceInv, VoiceTypes
    <3>3. \A w \in V!Words : Open(w)' <= Open(w) /\ Open(w)' \in Nat /\ Open(w) \in Nat
      BY <3>1, QuestionsDiffer DEF Open
    <3>4. log'.decided = {} /\ ~log'.due /\ \A w \in V!Words : log'.started[w] = 0 /\ log'.readback[w] = 0
      BY <1>1, <2>2 DEF Untouched
    <3>5. \A n \in 1..MaxStreams : session'[n].at # "engine"
      BY <1>3, <2>2 DEF Untouched, V!Silent
    <3> QED BY <3>1, <3>2, <3>3, <3>4, <3>5 DEF StrangersAsk
  <2> QED BY <1>5, <2>1, <2>2
<1>11. \A w \in V!Words : Backed(w)'
  <2> TAKE w \in V!Words
  <2>1. Backed(w) /\ Starting(w)' = (Starting(w)') /\ log' = log
    BY <1>1 DEF VoiceInv
  <2> QED BY <1>7, <1>8, <1>9, <1>10, <2>1 DEF Backed
<1> QED BY <1>1, <1>2, <1>4, <1>10, <1>11 DEF VoiceInv

(* What is counted.                                                        *)
LEMMA VoiceCounts ==
  ASSUME V!Given, VoiceInv, NEW w \in V!Words
  PROVE  /\ IsFiniteSet(Starting(w)) /\ Cardinality(Starting(w)) \in Nat /\ Open(w) \in 0..1
         /\ log.started[w] \in Nat /\ log.readback[w] \in Nat
         /\ log.started[w] + Cardinality(Starting(w)) + Open(w) <= log.readback[w]
<1>1. IsFiniteSet(1..MaxStreams)
  BY FS_Interval DEF V!Given
<1>2. IsFiniteSet(Starting(w)) /\ Cardinality(Starting(w)) \in Nat
  BY <1>1, FS_Subset, FS_CardinalityType DEF Starting
<1>3. log.started[w] \in Nat /\ log.readback[w] \in Nat
  BY DEF VoiceInv, VoiceTypes, Logs
<1> QED BY <1>2, <1>3 DEF VoiceInv, Backed, Open

(* A session that runs has its stream, its dialogue and its log.           *)
LEMMA SessionsRun ==
  ASSUME V!Given, VoiceInv, NEW n \in 1..MaxStreams, session[n].at # "none"
  PROVE  stream > 0 /\ session \in [1..MaxStreams -> Sessions] /\ d \in Dialogues /\ log \in Logs
<1>1. stream \in Nat /\ session \in [1..MaxStreams -> Sessions] /\ d \in Dialogues /\ log \in Logs
  BY DEF VoiceInv, VoiceTypes, V!Given
<1>2. stream # 0
  <2> SUFFICES ASSUME stream = 0 PROVE FALSE
    OBVIOUS
  <2>1. Untouched
    BY DEF VoiceInv
  <2> QED BY <2>1 DEF Untouched, V!Silent
<1> QED BY <1>1, <1>2

(* The log counts one more.                                                *)
LEMMA LogCounts ==
  ASSUME log \in Logs, NEW text \in V!Words, NEW many \in Nat
  PROVE  /\ log' = [log EXCEPT !.readback[text] = @ + many] =>
               /\ log' \in Logs /\ log'.started = log.started /\ log'.decided = log.decided /\ log'.due = log.due
               /\ \A w \in V!Words : log'.readback[w] = IF w = text THEN log.readback[w] + many ELSE log.readback[w]
         /\ log' = [log EXCEPT !.started[text] = @ + many] =>
               /\ log' \in Logs /\ log'.readback = log.readback /\ log'.decided = log.decided /\ log'.due = log.due
               /\ \A w \in V!Words : log'.started[w] = IF w = text THEN log.started[w] + many ELSE log.started[w]
<1> DEFINE r == [log.readback EXCEPT ![text] = @ + many]
           s == [log.started EXCEPT ![text] = @ + many]
<1>1. r \in [V!Words -> Nat] /\ \A w \in V!Words : r[w] = IF w = text THEN log.readback[w] + many ELSE log.readback[w]
  BY DEF Logs
<1>0. s \in [V!Words -> Nat] /\ \A w \in V!Words : s[w] = IF w = text THEN log.started[w] + many ELSE log.started[w]
  BY DEF Logs
<1>2. /\ log' = [log EXCEPT !.readback[text] = @ + many] => log' = [log EXCEPT !.readback = r]
      /\ log' = [log EXCEPT !.started[text] = @ + many] => log' = [log EXCEPT !.started = s]
  BY DEF Logs
<1> HIDE DEF r, s
<1>3. log' = [log EXCEPT !.readback = r] =>
               /\ log' \in Logs /\ log'.started = log.started /\ log'.decided = log.decided /\ log'.due = log.due
               /\ log'.readback = r
  BY <1>1 DEF Logs
<1>4. log' = [log EXCEPT !.started = s] =>
               /\ log' \in Logs /\ log'.readback = log.readback /\ log'.decided = log.decided /\ log'.due = log.due
               /\ log'.started = s
  BY <1>0 DEF Logs
<1>5. /\ log' = [log EXCEPT !.readback[text] = @ + many] =>
               /\ log' \in Logs /\ log'.started = log.started /\ log'.decided = log.decided /\ log'.due = log.due
               /\ \A w \in V!Words : log'.readback[w] = IF w = text THEN log.readback[w] + many ELSE log.readback[w]
  BY <1>1, <1>2, <1>3
<1>6. log' = [log EXCEPT !.started[text] = @ + many] =>
               /\ log' \in Logs /\ log'.readback = log.readback /\ log'.decided = log.decided /\ log'.due = log.due
               /\ \A w \in V!Words : log'.started[w] = IF w = text THEN log.started[w] + many ELSE log.started[w]
  BY <1>0, <1>2, <1>4
<1> QED BY <1>5, <1>6

(* A step of a session or a callback that adds to the Dialogue.            *)
LEMMA VoiceMoves ==
  ASSUME V!Given, VoiceInv, stream > 0, UNCHANGED <<registry, stream>>,
         phone' \in {"answered", "stream", "stopping", "next", "gather", "over"},
         session' \in [1..MaxStreams -> Sessions], d' \in Dialogues, log' \in Logs,
         said' \in 0..MaxUtterances, repeats' \in 0..MaxRepeats, d'.registered = d.registered,
         \A w \in V!Words : Backed(w)',
         ~d.registered =>
            /\ d'.queue = <<>> /\ d'.expect = V!Nothing /\ (\A n \in 1..MaxStreams : session'[n].at # "engine")
            /\ \A w \in V!Words : log'.started[w] = 0 /\ log'.readback[w] = 0,
         log'.decided = {}, log'.due => d'.resume, d'.keys # V!NoItem => d'.keys \notin HighRisk
  PROVE  VoiceInv'
<1>1. VoiceTypes'
  <2>1. registry' \in [known : BOOLEAN, verified : BOOLEAN, dialogue : BOOLEAN] /\ stream' \in 0..MaxStreams
    BY DEF VoiceInv, VoiceTypes
  <2> QED BY <2>1 DEF VoiceTypes
<1>2. stream' > 0 /\ stream' # 0 /\ registry'.dialogue
  BY DEF VoiceInv, VoiceTypes
<1>3. StrangersAsk'
  BY DEF StrangersAsk
<1> QED BY <1>1, <1>2, <1>3 DEF VoiceInv

(* A session that neither was nor is about to start a request: nothing is  *)
(* asked for confirmation but what was.                                    *)
LEMMA QuietKeeps ==
  ASSUME V!Given, VoiceInv, NEW n \in 1..MaxStreams, session[n].at \notin {"none", "engine"},
         NEW s \in Sessions, s.at # "engine", session' = [session EXCEPT ![n] = s],
         UNCHANGED <<registry, stream>>, phone' \in {phone, "stopping"}, phone' = phone \/ stream > 0,
         said' \in 0..MaxUtterances, repeats' = repeats,
         d' \in Dialogues, log' \in Logs, d'.registered = d.registered,
         log'.started = log.started, log'.readback = log.readback, log'.decided = log.decided,
         d'.expect \in {d.expect, V!Nothing, V!ReadBack, V!Choose},
         ~d.registered => d'.queue = <<>> /\ d'.expect = V!Nothing,
         log'.due => d'.resume, d'.keys # V!NoItem => d'.keys \notin HighRisk
  PROVE  VoiceInv'
<1>1. stream > 0 /\ session \in [1..MaxStreams -> Sessions]
  BY SessionsRun
<1>2. session' \in [1..MaxStreams -> Sessions] /\ session'[n] = s /\ \A m \in 1..MaxStreams : m # n => session'[m] = session[m]
  BY <1>1
<1>3. \A w \in V!Words : Backed(w)'
  <2> TAKE w \in V!Words
  <2>1. Starting(w)' = Starting(w)
    BY <1>2 DEF Starting
  <2>2. Open(w)' \in 0..1 /\ Open(w)' <= Open(w)
    BY QuestionsDiffer DEF Open
  <2>3. log'.started[w] = log.started[w] /\ log'.readback[w] = log.readback[w]
    OBVIOUS
  <2> HIDE DEF Open
  <2> QED BY <2>1, <2>2, <2>3, VoiceCounts DEF Backed
<1>4. ~d.registered => /\ \A m \in 1..MaxStreams : session'[m].at # "engine"
                       /\ \A w \in V!Words : log'.started[w] = 0 /\ log'.readback[w] = 0
  BY <1>2 DEF VoiceInv, StrangersAsk
<1>5. /\ phone' \in {"answered", "stream", "stopping", "next", "gather", "over"} /\ repeats' \in 0..MaxRepeats
      /\ log'.decided = {}
  BY <1>1 DEF VoiceInv, VoiceTypes
<1> QED BY <1>1, <1>2, <1>3, <1>4, <1>5, VoiceMoves

(* The request is read back: the caller is asked to confirm it.            *)
LEMMA ReadsKeeps ==
  ASSUME V!Given, VoiceInv, NEW n \in 1..MaxStreams, session[n].at \in {"stt", "route"},
         NEW text \in V!Words, NEW dialogue \in {d, V!Answered}, d.registered, V!Reads(n, dialogue, text), V!SessionOnly
  PROVE  VoiceInv'
<1>1. /\ session' = [session EXCEPT ![n].at = "say"] /\ d' = [dialogue EXCEPT !.expect = V!Confirm(text)]
      /\ log' = [log EXCEPT !.readback[text] = @ + 1] /\ UNCHANGED <<phone, registry, stream, said, repeats>>
  BY DEF V!Reads, V!Goes, V!SessionOnly
<1>2. stream > 0 /\ session \in [1..MaxStreams -> Sessions] /\ d \in Dialogues /\ log \in Logs
  BY SessionsRun
<1>3. /\ session' \in [1..MaxStreams -> Sessions] /\ session'[n].at = "say"
      /\ \A m \in 1..MaxStreams : m # n => session'[m] = session[m]
  BY <1>1, <1>2 DEF Sessions
<1>4. /\ d' \in Dialogues /\ d'.expect = V!Confirm(text) /\ d'.registered = d.registered
      /\ d'.resume = d.resume /\ d'.keys = d.keys
  BY <1>1, <1>2 DEF Dialogues, OpenQuestions, V!Answered
<1>5. /\ log' \in Logs /\ log'.started = log.started /\ log'.decided = log.decided /\ log'.due = log.due
      /\ \A w \in V!Words : log'.readback[w] = IF w = text THEN log.readback[w] + 1 ELSE log.readback[w]
  BY Zenon, <1>1, <1>2, LogCounts
<1>6. \A w \in V!Words : Backed(w)'
  <2> TAKE w \in V!Words
  <2>1. Starting(w)' = Starting(w)
    BY <1>3 DEF Starting
  <2>2. Open(w)' = IF w = text THEN 1 ELSE 0
    BY <1>4, QuestionsDiffer DEF Open
  <2> HIDE DEF Open
  <2> QED BY <1>5, <2>1, <2>2, VoiceCounts DEF Backed
<1>7. /\ phone' \in {"answered", "stream", "stopping", "next", "gather", "over"}
      /\ said' \in 0..MaxUtterances /\ repeats' \in 0..MaxRepeats
  BY <1>1, <1>2 DEF VoiceInv, VoiceTypes
<1>8. log'.decided = {} /\ (log'.due => d'.resume) /\ (d'.keys # V!NoItem => d'.keys \notin HighRisk)
  BY <1>4, <1>5 DEF VoiceInv
<1> QED BY <1>1, <1>2, <1>3, <1>4, <1>5, <1>6, <1>7, <1>8, VoiceMoves

(* A session that waits for the engine: for what the caller confirmed, or  *)
(* for what awaits him.                                                    *)
LEMMA EngineKeeps ==
  ASSUME V!Given, VoiceInv, NEW n \in 1..MaxStreams, session[n].at \in {"stt", "route"}, d.registered, V!SessionOnly,
         NEW word,
         \/ word = "pending" /\ V!Engine(n, d, word)
         \/ word \in V!Words /\ d.expect = V!Confirm(word) /\ V!Engine(n, V!Answered, word)
  PROVE  VoiceInv'
<1>1. /\ session' = [session EXCEPT ![n].at = "engine", ![n].word = word] /\ log' = log
      /\ d' \in {d, V!Answered} /\ UNCHANGED <<phone, registry, stream, said, repeats>>
  BY DEF V!Engine, V!SessionOnly
<1>2. stream > 0 /\ session \in [1..MaxStreams -> Sessions] /\ d \in Dialogues /\ log \in Logs
  BY SessionsRun
<1>3. /\ session' \in [1..MaxStreams -> Sessions] /\ session'[n].at = "engine" /\ session'[n].word = word
      /\ \A m \in 1..MaxStreams : m # n => session'[m] = session[m]
  BY <1>1, <1>2 DEF Sessions
<1>4. d' \in Dialogues /\ d'.registered = d.registered /\ d'.resume = d.resume /\ d'.keys = d.keys
  BY <1>1, <1>2 DEF Dialogues, OpenQuestions, V!Answered
<1>5. "pending" \notin V!Words
  BY DEF V!Words, V!Keyworded, V!Given
<1>6. \A w \in V!Words : Backed(w)'
  <2> TAKE w \in V!Words
  <2>1. CASE w # word
    <3>1. Starting(w)' = Starting(w)
      BY <1>3, <2>1 DEF Starting
    <3>2. Open(w)' \in 0..1 /\ Open(w)' <= Open(w)
      BY <1>1, <1>2, QuestionsDiffer DEF Open, V!Answered, Dialogues
    <3> HIDE DEF Open
    <3> QED BY <1>1, <3>1, <3>2, VoiceCounts DEF Backed
  <2>2. CASE w = word
    <3>1. Starting(w)' = Starting(w) \cup {n} /\ n \notin Starting(w)
      BY <1>3, <2>2 DEF Starting
    <3>2. Cardinality(Starting(w)') = Cardinality(Starting(w)) + 1
      BY <3>1, VoiceCounts, FS_AddElement
    <3>3. Open(w) = 1 /\ Open(w)' = 0
      <4>1. d.expect = V!Confirm(word) /\ V!Engine(n, V!Answered, word)
        BY <1>5, <2>2
      <4>2. d'.expect = V!Nothing
        BY <1>2, <4>1 DEF V!Engine, V!Answered, Dialogues
      <4> QED BY <2>2, <4>1, <4>2, QuestionsDiffer DEF Open
    <3> HIDE DEF Open
    <3> QED BY <1>1, <3>2, <3>3, VoiceCounts DEF Backed
  <2> QED BY <2>1, <2>2
<1>7. /\ phone' \in {"answered", "stream", "stopping", "next", "gather", "over"}
      /\ said' \in 0..MaxUtterances /\ repeats' \in 0..MaxRepeats
  BY <1>1, <1>2 DEF VoiceInv, VoiceTypes
<1>8. log'.decided = {} /\ (log'.due => d'.resume) /\ (d'.keys # V!NoItem => d'.keys \notin HighRisk)
  BY <1>1, <1>4 DEF VoiceInv
<1> QED BY <1>1, <1>2, <1>3, <1>4, <1>6, <1>7, <1>8, VoiceMoves

(* The engine starts the request that was confirmed, or does not.          *)
LEMMA StartKeeps ==
  ASSUME V!Given, VoiceInv, NEW n \in 1..MaxStreams, V!StartRequest(n)
  PROVE  VoiceInv'
<1> DEFINE text == session[n].word
<1>1. /\ session[n].at = "engine" /\ text # "pending" /\ session' = [session EXCEPT ![n].at = "say"]
      /\ d' = d /\ UNCHANGED <<phone, registry, stream, said, repeats>>
  BY DEF V!StartRequest, V!At, V!Goes, V!SessionOnly
<1>2. PICK served \in 0..1 : log' = [log EXCEPT !.started[text] = @ + served]
  BY DEF V!StartRequest, V!Served
<1>3. stream > 0 /\ session \in [1..MaxStreams -> Sessions] /\ d \in Dialogues /\ log \in Logs /\ d.registered
  <2>1. d.registered
    BY <1>1 DEF VoiceInv, StrangersAsk
  <2> QED BY <1>1, <2>1, SessionsRun
<1>4. text \in V!Words
  BY <1>1, <1>3 DEF Sessions
<1>5. /\ session' \in [1..MaxStreams -> Sessions] /\ session'[n].at = "say"
      /\ \A m \in 1..MaxStreams : m # n => session'[m] = session[m]
  BY <1>1, <1>3 DEF Sessions
<1> HIDE DEF text
<1>6. /\ log' \in Logs /\ log'.readback = log.readback /\ log'.decided = log.decided /\ log'.due = log.due
      /\ \A w \in V!Words : log'.started[w] = IF w = text THEN log.started[w] + served ELSE log.started[w]
  <2>1. served \in Nat /\ log \in Logs
    BY <1>3
  <2>2. log' = [log EXCEPT !.started[text] = @ + served]
    BY <1>2
  <2> QED BY <1>4, <2>1, <2>2, LogCounts
<1>7. \A w \in V!Words : Backed(w)'
  <2> TAKE w \in V!Words
  <2>1. Open(w)' = Open(w)
    BY <1>1 DEF Open
  <2>2. CASE w # text
    <3>1. Starting(w)' = Starting(w)
      BY <1>1, <1>5, <2>2 DEF Starting, text
    <3> QED BY <1>6, <2>1, <2>2, <3>1, VoiceCounts DEF Backed
  <2>3. CASE w = text
    <3>1. Starting(w)' = Starting(w) \ {n} /\ n \in Starting(w)
      BY <1>1, <1>5, <2>3 DEF Starting, text
    <3>2. Cardinality(Starting(w)') = Cardinality(Starting(w)) - 1
      BY <3>1, VoiceCounts, FS_RemoveElement
    <3> QED BY <1>6, <2>1, <2>3, <3>2, VoiceCounts DEF Backed
  <2> QED BY <2>2, <2>3
<1>8. /\ phone' \in {"answered", "stream", "stopping", "next", "gather", "over"}
      /\ said' \in 0..MaxUtterances /\ repeats' \in 0..MaxRepeats
  BY <1>1, <1>3 DEF VoiceInv, VoiceTypes
<1>9. log'.decided = {} /\ (log'.due => d'.resume) /\ (d'.keys # V!NoItem => d'.keys \notin HighRisk)
  BY <1>1, <1>6 DEF VoiceInv
<1> QED BY <1>1, <1>3, <1>5, <1>6, <1>7, <1>8, <1>9, VoiceMoves

(* Offering the next item changes the open question and the queue alone.   *)
LEMMA OfferedFits ==
  ASSUME V!Given, NEW dialogue \in Dialogues
  PROVE  /\ V!Offered(dialogue) \in Dialogues
         /\ V!Offered(dialogue).registered = dialogue.registered /\ V!Offered(dialogue).keys = dialogue.keys
         /\ V!Offered(dialogue).resume = dialogue.resume
         /\ V!Offered(dialogue).expect \in {dialogue.expect, V!Choose}
         /\ dialogue.queue = <<>> => V!Offered(dialogue).queue = <<>> /\ V!Offered(dialogue).expect = dialogue.expect
<1>0. dialogue.queue \in {<<>>} \cup Pending /\ dialogue.position \in Nat
  BY DEF Dialogues
<1>1. dialogue.queue \in Seq(Items) /\ Len(dialogue.queue) \in Nat /\ dialogue.position \in Nat
  <2>1. dialogue.queue \in Seq(Items)
    <3>1. CASE dialogue.queue = <<>>
      BY <3>1
    <3>2. CASE dialogue.queue \in Pending
      BY <3>2 DEF V!Given
    <3> QED BY <1>0, <3>1, <3>2
  <2> QED BY <1>0, <2>1
<1>2. CASE dialogue.position >= Len(dialogue.queue)
  <2>1. V!Offered(dialogue) = [dialogue EXCEPT !.queue = <<>>]
    BY <1>2 DEF V!Offered
  <2> QED BY <2>1 DEF Dialogues
<1>3. CASE ~(dialogue.position >= Len(dialogue.queue))
  <2>1. V!Offered(dialogue) = [dialogue EXCEPT !.expect = V!Choose]
    BY <1>3 DEF V!Offered
  <2>2. dialogue.queue # <<>>
    BY <1>1, <1>3
  <2> QED BY <2>1, <2>2 DEF Dialogues, OpenQuestions
<1> QED BY <1>2, <1>3

(* The keys that the caller is asked for decide nothing.                   *)
LEMMA DtmfKeeps == V!Given /\ VoiceInv /\ (V!NextStep \/ V!Dtmf \/ V!DtmfAgain) => VoiceInv'
<1> SUFFICES ASSUME V!Given, VoiceInv, V!NextStep \/ V!Dtmf \/ V!DtmfAgain PROVE VoiceInv'
  OBVIOUS
<1>1. stream > 0 /\ d \in Dialogues /\ log \in Logs /\ session \in [1..MaxStreams -> Sessions]
  BY DEF VoiceInv, VoiceTypes, V!NextStep, V!Dtmf, V!DtmfAgain
<1>2. /\ phone' \in {"answered", "stream", "stopping", "next", "gather", "over"}
      /\ said' \in 0..MaxUtterances /\ repeats' \in 0..MaxRepeats /\ UNCHANGED <<registry, stream, session>>
  BY <1>1 DEF VoiceInv, VoiceTypes, V!NextStep, V!Dtmf, V!DtmfAgain, V!Given
<1>3. ASSUME d' \in Dialogues, log' \in Logs, d'.registered = d.registered,
             log'.started = log.started, log'.readback = log.readback, log'.decided = log.decided,
             d'.expect \in {d.expect, V!Choose},
             d.queue = <<>> => d'.queue = <<>> /\ d'.expect = d.expect,
             log'.due => d'.resume, d'.keys # V!NoItem => d'.keys \notin HighRisk
      PROVE  VoiceInv'
  <2>1. \A w \in V!Words : Backed(w)'
    <3> TAKE w \in V!Words
    <3>1. Starting(w)' = Starting(w)
      BY <1>2 DEF Starting
    <3>2. Open(w)' \in 0..1 /\ Open(w)' <= Open(w)
      BY <1>3, QuestionsDiffer DEF Open
    <3>3. log'.started[w] = log.started[w] /\ log'.readback[w] = log.readback[w]
      BY <1>3
    <3> HIDE DEF Open
    <3> QED BY <3>1, <3>2, <3>3, VoiceCounts DEF Backed
  <2>2. ~d.registered =>
            /\ d'.queue = <<>> /\ d'.expect = V!Nothing /\ (\A n \in 1..MaxStreams : session'[n].at # "engine")
            /\ \A w \in V!Words : log'.started[w] = 0 /\ log'.readback[w] = 0
    BY <1>2, <1>3 DEF VoiceInv, StrangersAsk
  <2>3. log'.decided = {}
    BY <1>3 DEF VoiceInv
  <2> QED BY <1>1, <1>2, <1>3, <2>1, <2>2, <2>3, VoiceMoves
<1>4. CASE UNCHANGED <<d, log>>
  BY <1>1, <1>3, <1>4 DEF VoiceInv
<1>5. CASE d' = [d EXCEPT !.next = "hangup"] /\ log' = log
  <2>1. /\ d' \in Dialogues /\ d'.registered = d.registered /\ d'.expect = d.expect /\ d'.queue = d.queue
        /\ d'.resume = d.resume /\ d'.keys = d.keys
    BY <1>1, <1>5 DEF Dialogues
  <2> QED BY <1>1, <1>3, <1>5, <2>1 DEF VoiceInv
<1>6. CASE V!OnDtmf
  <2>1. log' = [log EXCEPT !.due = log.due \/ d.keys # V!NoItem, !.decided = log.decided \cup {}]
    BY <1>6 DEF V!OnDtmf, V!KeysHandedOn
  <2>2. /\ log' \in Logs /\ log'.started = log.started /\ log'.readback = log.readback /\ log'.decided = log.decided
        /\ log'.due = (log.due \/ d.keys # V!NoItem)
    <3>1. (log.due \/ d.keys # V!NoItem) \in BOOLEAN
      OBVIOUS
    <3> QED BY <1>1, <2>1, <3>1 DEF Logs
  <2>3. CASE d.keys = V!NoItem
    <3>1. d' = [d EXCEPT !.resume = V!Remembered(d.resume)]
      BY <1>6, <2>3 DEF V!OnDtmf, V!KeysHandedOn
    <3>2. V!Remembered(d.resume) = d.resume
      BY <1>1, <2>3 DEF V!Remembered, Dialogues
    <3>3. d' = d
      BY <1>1, <3>1, <3>2 DEF Dialogues
    <3>4. log'.due => d'.resume
      BY <2>2, <2>3, <3>3 DEF VoiceInv
    <3> QED BY <1>1, <1>3, <2>2, <3>3, <3>4 DEF VoiceInv
  <2>4. CASE d.keys # V!NoItem
    <3> DEFINE r == [d EXCEPT !.keys = V!NoItem, !.position = d.position + 1, !.resume = TRUE]
    <3>1. d' = V!Offered([d EXCEPT !.keys = V!NoItem, !.position = d.position + 1, !.resume = V!Remembered(d.resume)])
      BY <1>6, <2>4 DEF V!OnDtmf, V!KeysHandedOn
    <3>2. V!Remembered(d.resume) = TRUE
      BY <2>4 DEF V!Remembered
    <3>3. d' = V!Offered(r)
      BY <3>1, <3>2
    <3>4. /\ r \in Dialogues /\ r.registered = d.registered /\ r.expect = d.expect /\ r.queue = d.queue
          /\ r.resume = TRUE /\ r.keys = V!NoItem
      <4>1. d.position + 1 \in Nat
        BY <1>1 DEF Dialogues
      <4> QED BY <1>1, <4>1 DEF Dialogues
    <3> HIDE DEF r
    <3>5. /\ d' \in Dialogues /\ d'.registered = d.registered /\ d'.resume = TRUE /\ d'.keys = V!NoItem
          /\ d'.expect \in {d.expect, V!Choose}
          /\ d.queue = <<>> => d'.queue = <<>> /\ d'.expect = d.expect
      BY <3>3, <3>4, OfferedFits
    <3> QED BY <1>3, <2>2, <3>5
  <2> QED BY <2>3, <2>4
<1> QED BY <1>4, <1>5, <1>6 DEF V!NextStep, V!Dtmf, V!DtmfAgain

(* Opening, hearing, listing and saying confirm nothing.                   *)
LEMMA OpeningKeeps ==
  ASSUME V!Given, VoiceInv, NEW n \in 1..MaxStreams,
         V!Opening(n) \/ (\E word \in V!Words : V!Utter(n, word)) \/ V!ListPending(n) \/ V!Say(n)
  PROVE  VoiceInv'
<1>1. /\ stream > 0 /\ session \in [1..MaxStreams -> Sessions] /\ d \in Dialogues /\ log \in Logs
      /\ session[n] \in Sessions
  <2>1. session[n].at # "none"
    BY Zenon DEF V!Opening, V!Utter, V!ListPending, V!Say, V!At
  <2> QED BY <2>1, SessionsRun
<1>2. ASSUME NEW place \in {"listening", "say"} PROVE [session[n] EXCEPT !.at = place] \in Sessions
  BY <1>1, <1>2 DEF Sessions
<1>3. /\ said \in 0..MaxUtterances /\ log.decided = {} /\ (log.due => d.resume)
      /\ (d.keys # V!NoItem => d.keys \notin HighRisk) /\ StrangersAsk
  BY DEF VoiceInv, VoiceTypes
<1>4. CASE V!Opening(n)
  <2>1. /\ session[n].at = "opening" /\ session' = [session EXCEPT ![n] = [session[n] EXCEPT !.at = "listening"]]
        /\ d' = [d EXCEPT !.resume = FALSE] /\ log' = [log EXCEPT !.due = log.due /\ ~d.resume]
        /\ UNCHANGED <<phone, registry, stream, said, repeats>>
    BY <1>1, <1>4 DEF V!Opening, V!At, V!Goes, V!SessionOnly
  <2>2. (log.due /\ ~d.resume) = FALSE
    BY <1>3
  <2>3. log' = [log EXCEPT !.due = FALSE]
    BY <2>1, <2>2
  <2>4. /\ d' \in Dialogues /\ d'.registered = d.registered /\ d'.expect = d.expect /\ d'.queue = d.queue
        /\ d'.keys = d.keys
    BY <1>1, <2>1 DEF Dialogues
  <2>5. /\ log' \in Logs /\ log'.started = log.started /\ log'.readback = log.readback /\ log'.decided = log.decided
        /\ log'.due = FALSE
    BY <1>1, <2>3 DEF Logs
  <2>6. ~d.registered => d'.queue = <<>> /\ d'.expect = V!Nothing
    BY <1>3, <2>4 DEF StrangersAsk
  <2>7. [session[n] EXCEPT !.at = "listening"] \in Sessions /\ [session[n] EXCEPT !.at = "listening"].at # "engine"
    BY <1>1 DEF Sessions
  <2> QED BY <1>3, <2>1, <2>4, <2>5, <2>6, <2>7, QuietKeeps
<1>5. ASSUME NEW word \in V!Words, V!Utter(n, word) PROVE VoiceInv'
  <2>1. /\ session[n].at = "listening" /\ session' = [session EXCEPT ![n] = [at |-> "stt", word |-> word, control |-> FALSE]]
        /\ d' = d /\ log' = log /\ said' = said + 1 /\ said < MaxUtterances
        /\ UNCHANGED <<phone, registry, stream, repeats>>
    BY <1>5 DEF V!Utter, V!At
  <2>2. [at |-> "stt", word |-> word, control |-> FALSE] \in Sessions
    BY DEF Sessions
  <2>3. said' \in 0..MaxUtterances
    BY <1>3, <2>1 DEF V!Given
  <2>4. ~d.registered => d'.queue = <<>> /\ d'.expect = V!Nothing
    BY <1>3, <2>1 DEF StrangersAsk
  <2> QED BY <1>1, <1>3, <2>1, <2>2, <2>3, <2>4, QuietKeeps
<1>6. CASE V!ListPending(n)
  <2>1. /\ session[n].at = "engine" /\ session[n].word = "pending"
        /\ session' = [session EXCEPT ![n] = [session[n] EXCEPT !.at = "say"]]
        /\ log' = log /\ UNCHANGED <<phone, registry, stream, said, repeats>>
    BY Zenon, <1>1, <1>6 DEF V!ListPending, V!At, V!Goes, V!SessionOnly
  <2>2. d.registered
    BY <1>3, <2>1 DEF StrangersAsk
  <2>3. /\ d' \in Dialogues /\ d'.registered = d.registered /\ d'.keys = d.keys /\ d'.resume = d.resume
        /\ d'.expect \in {d.expect, V!Choose}
    <3>1. CASE d' = d
      BY <1>1, <3>1
    <3>2. ASSUME NEW queue \in Pending, d' = V!Offered([d EXCEPT !.queue = queue, !.position = 0])
          PROVE  /\ d' \in Dialogues /\ d'.registered = d.registered /\ d'.keys = d.keys /\ d'.resume = d.resume
                 /\ d'.expect \in {d.expect, V!Choose}
      <4> DEFINE r == [d EXCEPT !.queue = queue, !.position = 0]
      <4>1. /\ r \in Dialogues /\ r.registered = d.registered /\ r.expect = d.expect /\ r.resume = d.resume
            /\ r.keys = d.keys /\ d' = V!Offered(r)
        BY <1>1, <3>2 DEF Dialogues
      <4> HIDE DEF r
      <4> QED BY <4>1, OfferedFits
    <3> QED BY Zenon, <1>6, <3>1, <3>2 DEF V!ListPending
  <2>4. "pending" \notin V!Words
    BY DEF V!Words, V!Keyworded, V!Given
  <2>5. /\ session' \in [1..MaxStreams -> Sessions] /\ session'[n].at = "say"
        /\ \A m \in 1..MaxStreams : m # n => session'[m] = session[m]
    BY <1>1, <2>1 DEF Sessions
  <2>6. \A w \in V!Words : Backed(w)'
    <3> TAKE w \in V!Words
    <3>1. Starting(w)' = Starting(w)
      BY <2>1, <2>4, <2>5 DEF Starting
    <3>2. Open(w)' \in 0..1 /\ Open(w)' <= Open(w)
      BY <2>3, QuestionsDiffer DEF Open
    <3> HIDE DEF Open
    <3> QED BY <2>1, <3>1, <3>2, VoiceCounts DEF Backed
  <2>7. /\ phone' \in {"answered", "stream", "stopping", "next", "gather", "over"}
        /\ said' \in 0..MaxUtterances /\ repeats' \in 0..MaxRepeats
    BY <1>1, <2>1 DEF VoiceInv, VoiceTypes
  <2>8. log'.decided = {} /\ (log'.due => d'.resume) /\ (d'.keys # V!NoItem => d'.keys \notin HighRisk)
    BY <1>3, <2>1, <2>3
  <2> QED BY <1>1, <2>1, <2>2, <2>3, <2>5, <2>6, <2>7, <2>8, VoiceMoves
<1>7. CASE V!Say(n)
  <2>1. /\ session[n].at = "say" /\ session' = [session EXCEPT ![n] = [session[n] EXCEPT !.at = "listening"]]
        /\ d' = d /\ log' = log /\ phone' \in {phone, "stopping"} /\ UNCHANGED <<registry, stream, said, repeats>>
    BY <1>1, <1>7 DEF V!Say, V!At, V!Goes
  <2>2. ~d.registered => d'.queue = <<>> /\ d'.expect = V!Nothing
    BY <1>3, <2>1 DEF StrangersAsk
  <2>3. [session[n] EXCEPT !.at = "listening"] \in Sessions /\ [session[n] EXCEPT !.at = "listening"].at # "engine"
    BY <1>1 DEF Sessions
  <2> QED BY <1>1, <1>3, <2>1, <2>2, <2>3, QuietKeeps
<1> QED BY <1>4, <1>5, <1>6, <1>7

(* A turn that only leaves something to be said.                           *)
LEMMA TurnsKeep ==
  ASSUME V!Given, VoiceInv, NEW n \in 1..MaxStreams, session[n].at \in {"stt", "route"}, V!SessionOnly,
         NEW s \in Sessions, s.at # "engine", session' = [session EXCEPT ![n] = s], log' = log,
         d' \in Dialogues, d'.registered = d.registered, d'.resume = d.resume,
         d'.expect \in {d.expect, V!Nothing, V!ReadBack, V!Choose},
         ~d.registered => d'.queue = <<>> /\ d'.expect = V!Nothing,
         d'.keys # V!NoItem => d'.keys \notin HighRisk
  PROVE  VoiceInv'
<1>1. log' \in Logs /\ said' \in 0..MaxUtterances /\ (log.due => d.resume)
  BY DEF VoiceInv, VoiceTypes, V!SessionOnly
<1>2. phone' = phone /\ UNCHANGED <<registry, stream, repeats>>
  BY DEF V!SessionOnly
<1> QED BY <1>1, <1>2, QuietKeeps

(* An utterance starts something only where it answers a read-back.        *)
LEMMA UtterancesKeep ==
  ASSUME V!Given, VoiceInv, NEW n \in 1..MaxStreams, V!OnUtterance(n)
  PROVE  VoiceInv'
<1> DEFINE word == session[n].word
<1>1. /\ session[n].at = "stt" /\ V!SessionOnly /\ session \in [1..MaxStreams -> Sessions] /\ d \in Dialogues
      /\ session[n] \in Sessions /\ log \in Logs
  <2>1. session[n].at = "stt" /\ V!SessionOnly
    BY DEF V!OnUtterance, V!At
  <2> QED BY <2>1, SessionsRun
<1>2. word \in V!Words
  BY <1>1 DEF Sessions
<1>3. ASSUME NEW place \in {"listening", "say", "route"}
      PROVE  [session[n] EXCEPT !.at = place] \in Sessions /\ [session[n] EXCEPT !.at = place].at = place
  BY <1>1, <1>2, <1>3 DEF Sessions
<1>4. /\ ~d.registered => d.queue = <<>> /\ d.expect = V!Nothing
      /\ d.keys # V!NoItem => d.keys \notin HighRisk
  BY DEF VoiceInv, StrangersAsk
<1>5. ASSUME NEW place \in {"listening", "say", "route"}, V!Goes(n, place), log' = log,
             d' \in Dialogues, d'.registered = d.registered, d'.resume = d.resume, d'.keys = d.keys,
             d'.expect \in {d.expect, V!Nothing, V!ReadBack, V!Choose},
             ~d.registered => d'.queue = <<>> /\ d'.expect = V!Nothing
      PROVE  VoiceInv'
  <2>1. session' = [session EXCEPT ![n] = [session[n] EXCEPT !.at = place]]
    BY <1>1, <1>5 DEF V!Goes
  <2> QED BY <1>1, <1>3, <1>4, <1>5, <2>1, TurnsKeep
<1>6. /\ V!Answered \in Dialogues /\ V!Answered.registered = d.registered /\ V!Answered.resume = d.resume
      /\ V!Answered.keys = d.keys /\ V!Answered.queue = d.queue /\ V!Answered.expect = V!Nothing
      /\ V!Answered.position = d.position
  BY <1>1 DEF V!Answered, Dialogues, OpenQuestions
<1> HIDE DEF word
<1>7. CASE V!NotUnderstood(n)
  BY <1>1, <1>4, <1>5, <1>7 DEF V!NotUnderstood
<1>8. CASE V!Turn(n, d)
  BY <1>1, <1>4, <1>5, <1>8 DEF V!Turn
<1>9. CASE d.expect = V!ReadBack /\ V!Reads(n, V!Answered, word)
  <2>1. d.registered
    BY <1>4, <1>9, QuestionsDiffer
  <2> QED BY <1>1, <1>2, <1>9, <2>1, ReadsKeeps
<1>10. ASSUME d.expect \in {V!Confirm(w) : w \in V!Words}, V!ConfirmRequest(n, d.expect[2], word) PROVE VoiceInv'
  <2>1. PICK text \in V!Words : d.expect = V!Confirm(text)
    BY <1>10
  <2>2. d.expect[2] = text /\ d.registered
    BY <1>4, <2>1, QuestionsDiffer
  <2>3. CASE V!Engine(n, V!Answered, text)
    BY <1>1, <2>1, <2>2, <2>3, EngineKeeps
  <2>4. CASE V!Turn(n, V!Answered)
    BY <1>5, <1>6, <2>2, <2>4 DEF V!Turn
  <2>5. CASE V!Turn(n, [V!Answered EXCEPT !.expect = V!Confirm(text)])
    <3>1. [V!Answered EXCEPT !.expect = V!Confirm(text)] = d
      BY <1>1, <2>1 DEF V!Answered, Dialogues
    <3> QED BY <1>1, <1>4, <1>5, <2>5, <3>1 DEF V!Turn
  <2>6. V!ConfirmRequest(n, text, word)
    BY <1>10, <2>2
  <2> QED BY <2>3, <2>4, <2>5, <2>6 DEF V!ConfirmRequest
<1>11. ASSUME d.expect = V!Choose, V!ChooseItem(n, word) PROVE VoiceInv'
  <2> DEFINE item == d.queue[d.position + 1]
             moved == [V!Answered EXCEPT !.position = @ + 1]
  <2>1. d.registered
    BY <1>4, <1>11, QuestionsDiffer
  <2>2. CASE V!Turn(n, [V!Answered EXCEPT !.expect = V!Choose])
    <3>1. /\ [V!Answered EXCEPT !.expect = V!Choose] \in Dialogues
          /\ [V!Answered EXCEPT !.expect = V!Choose].registered = d.registered
          /\ [V!Answered EXCEPT !.expect = V!Choose].resume = d.resume
          /\ [V!Answered EXCEPT !.expect = V!Choose].keys = d.keys
          /\ [V!Answered EXCEPT !.expect = V!Choose].expect = V!Choose
      BY <1>6 DEF Dialogues, OpenQuestions
    <3> QED BY <1>5, <2>1, <2>2, <3>1 DEF V!Turn
  <2>3. CASE V!Goes(n, "listening") /\ d' = V!Answered /\ UNCHANGED log
    BY <1>5, <1>6, <2>1, <2>3
  <2>4. CASE /\ d.position < Len(d.queue) /\ item \notin HighRisk
             /\ session' = [session EXCEPT ![n].at = "say", ![n].control = TRUE]
             /\ d' = [V!Answered EXCEPT !.keys = item, !.next = "gather"]
             /\ UNCHANGED log
    <3>1. item \in Items
      <4>1. d.queue \in {<<>>} \cup Pending /\ d.position \in Nat
        BY <1>1 DEF Dialogues
      <4>2. d.queue \in Seq(Items)
        <5>1. CASE d.queue = <<>>
          BY <5>1
        <5>2. CASE d.queue \in Pending
          BY <5>2 DEF V!Given
        <5> QED BY <4>1, <5>1, <5>2
      <4> QED BY <2>4, <4>1, <4>2
    <3> HIDE DEF item
    <3>2. /\ d' \in Dialogues /\ d'.registered = d.registered /\ d'.resume = d.resume /\ d'.keys = item
          /\ d'.expect = V!Nothing
      BY <1>6, <2>4, <3>1 DEF Dialogues
    <3> DEFINE s == [session[n] EXCEPT !.at = "say", !.control = TRUE]
    <3>3. s \in Sessions /\ s.at = "say" /\ session' = [session EXCEPT ![n] = s]
      BY <1>1, <2>4 DEF Sessions
    <3> HIDE DEF s
    <3>4. item \notin HighRisk /\ log' = log
      BY <2>4
    <3> QED BY <1>1, <2>1, <3>2, <3>3, <3>4, TurnsKeep
  <2>5. CASE V!Turn(n, V!Offered(moved))
    <3>1. /\ moved \in Dialogues /\ moved.registered = d.registered /\ moved.resume = d.resume
          /\ moved.keys = d.keys /\ moved.expect = V!Nothing
      <4>1. V!Answered.position + 1 \in Nat
        BY <1>6 DEF Dialogues
      <4> QED BY <1>6, <4>1 DEF Dialogues
    <3> HIDE DEF moved
    <3>2. /\ V!Offered(moved) \in Dialogues /\ V!Offered(moved).registered = d.registered
          /\ V!Offered(moved).resume = d.resume /\ V!Offered(moved).keys = d.keys
          /\ V!Offered(moved).expect \in {V!Nothing, V!Choose}
      BY <3>1, OfferedFits
    <3> QED BY <1>5, <2>1, <2>5, <3>2 DEF V!Turn
  <2>6. d.position \in Nat /\ Len(d.queue) \in Nat
    BY <1>1 DEF Dialogues, V!Given
  <2>7. CASE word \notin {"yes", "no", "next"}
    BY <1>11, <2>2, <2>7 DEF V!ChooseItem
  <2>8. CASE word \in {"yes", "no", "next"} /\ d.position >= Len(d.queue)
    BY <1>11, <2>3, <2>8 DEF V!ChooseItem
  <2>9. CASE word \in {"yes", "no", "next"} /\ ~(d.position >= Len(d.queue))
    <3>1. d.position < Len(d.queue)
      BY <2>6, <2>9
    <3>2. \/ /\ item \notin HighRisk
             /\ session' = [session EXCEPT ![n].at = "say", ![n].control = TRUE]
             /\ d' = [V!Answered EXCEPT !.keys = item, !.next = "gather"]
             /\ UNCHANGED log
          \/ V!Turn(n, V!Offered(moved))
      BY <1>11, <2>9 DEF V!ChooseItem
    <3> HIDE DEF item, moved
    <3> QED BY <2>4, <2>5, <3>1, <3>2
  <2> QED BY <2>7, <2>8, <2>9
<1>12. CASE V!Goes(n, "route") /\ UNCHANGED <<d, log>>
  BY <1>1, <1>4, <1>5, <1>12
<1> QED BY <1>7, <1>8, <1>9, <1>10, <1>11, <1>12 DEF V!OnUtterance, word

(* The engine is told what was routed to it, by a caller who is known.     *)
LEMMA DispatchKeeps ==
  ASSUME V!Given, VoiceInv, NEW n \in 1..MaxStreams, V!Dispatch(n)
  PROVE  VoiceInv'
<1> DEFINE word == session[n].word
<1>1. /\ session[n].at = "route" /\ V!SessionOnly /\ session \in [1..MaxStreams -> Sessions] /\ d \in Dialogues
      /\ session[n] \in Sessions /\ log \in Logs
  <2>1. session[n].at = "route" /\ V!SessionOnly
    BY DEF V!Dispatch, V!At
  <2> QED BY <2>1, SessionsRun
<1>2. word \in V!Words
  BY <1>1 DEF Sessions
<1>3. ~d.registered => d.queue = <<>> /\ d.expect = V!Nothing
  BY DEF VoiceInv, StrangersAsk
<1>4. d.keys # V!NoItem => d.keys \notin HighRisk
  BY DEF VoiceInv
<1>5. [session[n] EXCEPT !.at = "say"] \in Sessions /\ [session[n] EXCEPT !.at = "say"].at = "say"
  BY <1>1 DEF Sessions
<1> HIDE DEF word
<1>6. ASSUME NEW dialogue \in Dialogues, V!Turn(n, dialogue), dialogue \in {d, [d EXCEPT !.expect = V!ReadBack]},
             dialogue = d \/ d.registered
      PROVE  VoiceInv'
  <2>1. session' = [session EXCEPT ![n] = [session[n] EXCEPT !.at = "say"]] /\ d' = dialogue /\ log' = log
    BY <1>1, <1>6 DEF V!Turn, V!Goes
  <2>2. /\ dialogue.registered = d.registered /\ dialogue.resume = d.resume /\ dialogue.keys = d.keys
        /\ dialogue.expect \in {d.expect, V!ReadBack} /\ (~d.registered => dialogue = d)
    BY <1>1, <1>6 DEF Dialogues
  <2> QED BY <1>1, <1>3, <1>4, <1>5, <1>6, <2>1, <2>2, TurnsKeep
<1>7. CASE V!Turn(n, d)
  BY <1>1, <1>6, <1>7
<1>8. CASE d.registered /\ V!Turn(n, [d EXCEPT !.expect = V!ReadBack])
  <2>1. [d EXCEPT !.expect = V!ReadBack] \in Dialogues
    BY <1>1 DEF Dialogues, OpenQuestions
  <2> QED BY <1>6, <1>8, <2>1
<1>9. CASE d.registered /\ V!Reads(n, d, word)
  <2>1. d \in {d, V!Answered} /\ session[n].at \in {"stt", "route"} /\ d.registered /\ V!Reads(n, d, word)
    BY <1>1, <1>9
  <2> QED BY <1>1, <1>2, <2>1, ReadsKeeps
<1>10. CASE d.registered /\ V!Engine(n, d, "pending")
  <2>1. session[n].at \in {"stt", "route"} /\ d.registered /\ V!Engine(n, d, "pending")
    BY <1>1, <1>10
  <2> QED BY <1>1, <2>1, EngineKeeps
<1>11. \/ V!Turn(n, d)
       \/ d.registered /\ V!Turn(n, [d EXCEPT !.expect = V!ReadBack])
       \/ d.registered /\ V!Reads(n, d, word)
       \/ d.registered /\ V!Engine(n, d, "pending")
  BY DEF V!Dispatch, V!MayAsk, V!RegisteredOnly, V!QuestionAnswered, word
<1> QED BY <1>7, <1>8, <1>9, <1>10, <1>11

(* The invariant says what is promised of the phone.                       *)
LEMMA VoiceInvShows == V!Given /\ VoiceInv => V!TypeOK /\ V!PhoneIsHarmless
<1> SUFFICES ASSUME V!Given, VoiceInv PROVE V!TypeOK /\ V!PhoneIsHarmless
  OBVIOUS
<1>1. V!TypeOK
  <2>1. session \in [1..MaxStreams -> [at : {"none", "opening", "listening", "stt", "route", "engine", "say"},
                                       word : V!Words \cup {"pending"}, control : BOOLEAN]]
    BY DEF VoiceInv, VoiceTypes, Sessions
  <2>2. /\ d.expect \in {V!Nothing, V!ReadBack, V!Choose} \cup {V!Confirm(w) : w \in V!Words}
        /\ d.registered \in BOOLEAN /\ d.queue \in {<<>>} \cup Pending /\ d.keys \in Items \cup {V!NoItem}
        /\ d.next \in {"gather", "hangup"} /\ d.resume \in BOOLEAN
    BY DEF VoiceInv, VoiceTypes, Dialogues, OpenQuestions
  <2> QED BY <2>1, <2>2 DEF VoiceInv, VoiceTypes, V!TypeOK
<1>2. V!OneStartPerReadBack
  <2> SUFFICES ASSUME NEW w \in V!Words PROVE log.started[w] <= log.readback[w]
    BY DEF V!OneStartPerReadBack
  <2> HIDE DEF VoiceInv
  <2> QED BY VoiceCounts
<1>3. V!StrangersOnlyAsk /\ V!NothingDecided /\ V!OutcomeIsSpoken /\ V!KeysAreForItems
  BY DEF VoiceInv, StrangersAsk, V!StrangersOnlyAsk, V!NothingDecided, V!OutcomeIsSpoken, V!KeysAreForItems
<1> QED BY <1>1, <1>2, <1>3 DEF V!PhoneIsHarmless

(* The phone is harmless, whatever is said on however many streams         *)
(* (src/voice/agent.py).                                                   *)
LEMMA PhoneHolds ==
  ASSUME V!Given
  PROVE  V!Spec => [](V!TypeOK /\ V!PhoneIsHarmless)
<1>1. V!Init => VoiceInv
  BY VoiceStarts
<1>2. VoiceInv /\ [V!Next]_(V!vars) => VoiceInv'
  <2> SUFFICES ASSUME VoiceInv, [V!Next]_(V!vars) PROVE VoiceInv'
    OBVIOUS
  <2>1. ASSUME NEW n \in 1..MaxStreams,
               \/ V!Opening(n) \/ V!OnUtterance(n) \/ V!Dispatch(n) \/ V!StartRequest(n) \/ V!ListPending(n) \/ V!Say(n)
               \/ \E word \in V!Words : V!Utter(n, word)
        PROVE  VoiceInv'
    BY <2>1, OpeningKeeps, UtterancesKeep, DispatchKeeps, StartKeeps
  <2> QED BY <2>1, CallbacksKeep, ConnectKeeps, DtmfKeeps DEF V!Next
<1>3. VoiceInv => V!TypeOK /\ V!PhoneIsHarmless
  BY VoiceInvShows
<1> QED BY <1>1, <1>2, <1>3, PTL DEF V!Spec

(* The phone does what its caller confirmed and no more, on any number of  *)
(* streams (src/voice/agent.py).                                           *)
THEOREM PhoneKept ==
  ASSUME V!Given
  PROVE  ServicesSpec => []PhoneIsHarmless
  BY EachKeepsItsOwn, PhoneHolds, PTL DEF PhoneIsHarmless

-----------------------------------------------------------------------------
(* Stage events and their followers.  PassInv relates what the passes emit *)
(* and show to the status; StreamInv says where a follower is in the       *)
(* numbered events of its server: what it got, what is queued for it and   *)
(* what the bus still keeps join without a gap, unless the bus dropped     *)
(* some.                                                                   *)

PassAt(place) == [S!NoPass EXCEPT !.at = place]
Tasks == {PassAt(place) : place \in {"idle", "set", "work"}} \cup [at : {"emit", "call"}, emit : S!Statuses]

(* The run was over, though it may have been set running since.            *)
Over == status = "done" \/ revived

PassInv ==
    /\ status \in S!Statuses /\ revived \in BOOLEAN /\ passes \in [Passes -> Tasks]
    /\ message \in S!Statuses \cup {"unknown"}
    /\ \A t \in Passes : passes[t].at \in {"emit", "call"} /\ passes[t].emit = "done" => Over
    /\ message # "unknown" => \A t, u \in Passes : S!Active(t) /\ S!Active(u) => t = u
    /\ message # "unknown" /\ (\A t \in Passes : ~S!Active(t)) => message = status

(* The places a pass may be at.                                            *)
LEMMA TasksAre ==
  /\ S!NoPass = PassAt("idle")
  /\ \A place : PassAt(place) = [at |-> place, emit |-> "none"]
  /\ \A t \in Tasks : /\ t.at \in {"idle", "set", "work", "emit", "call"}
                      /\ t.at = "idle" <=> t = S!NoPass
                      /\ t.at \in {"emit", "call"} => t.emit \in S!Statuses
                      /\ t.at \in {"emit", "call"} => t \in [at : {"emit", "call"}, emit : S!Statuses]
<1>1. \A place : PassAt(place) = [at |-> place, emit |-> "none"]
  BY DEF S!NoPass, PassAt, S!None
<1>2. S!NoPass = PassAt("idle")
  BY <1>1 DEF S!NoPass, S!None
<1> QED BY <1>1, <1>2 DEF Tasks

(* Before a run there is no pass and the message is that it starts.        *)
LEMMA PassStarts == S!Init => PassInv
<1> SUFFICES ASSUME S!Init PROVE PassInv
  OBVIOUS
<1>1. S!NoPass \in Tasks /\ S!NoPass.at = "idle"
  BY TasksAre DEF Tasks
<1>2. \A t \in Passes : passes[t] = S!NoPass
  BY DEF S!Init
<1> QED BY <1>1, <1>2 DEF S!Init, PassInv, S!Active, S!Statuses

(* What one pass does to its own place.                                    *)
LEMMA OnePassMoves ==
  ASSUME PassInv, NEW t \in Passes, NEW next \in Tasks, passes' = [passes EXCEPT ![t] = next],
         status' \in S!Statuses, revived' \in BOOLEAN, Over => Over',
         message' \in S!Statuses \cup {"unknown"},
         next.at \in {"emit", "call"} /\ next.emit = "done" => Over',
         message' # "unknown" => \/ \A u \in Passes : S!Active(u) => u = t
                                 \/ next.at \in {"idle", "set"} /\ message' = message,
         message' # "unknown" /\ next.at \in {"idle", "set"} =>
            message' = status' \/ (~S!Active(t) /\ message' = message /\ status' = status)
  PROVE  PassInv'
<1>1. passes' \in [Passes -> Tasks] /\ passes'[t] = next /\ \A u \in Passes : u # t => passes'[u] = passes[u]
  BY DEF PassInv
<1>2. \A u \in Passes : u # t => (S!Active(u)' <=> S!Active(u))
  BY <1>1 DEF S!Active
<1>3. S!Active(t)' <=> next.at \notin {"idle", "set"}
  BY <1>1, TasksAre DEF S!Active
<1>4. \A u \in Passes : passes'[u].at \in {"emit", "call"} /\ passes'[u].emit = "done" => Over'
  BY <1>1 DEF PassInv
<1>5. ASSUME message' # "unknown", NEW u \in Passes, NEW w \in Passes, S!Active(u)', S!Active(w)' PROVE u = w
  BY <1>2, <1>3, <1>5 DEF PassInv
<1>6. ASSUME message' # "unknown", \A u \in Passes : ~S!Active(u)' PROVE message' = status'
  BY <1>2, <1>3, <1>6 DEF PassInv
<1> QED BY <1>1, <1>4, <1>5, <1>6 DEF PassInv

(* No pass emits an end or shows a status that the run did not have.       *)
LEMMA PassKeeps == PassInv /\ [S!Next]_(S!vars) => PassInv'
<1> SUFFICES ASSUME PassInv, [S!Next]_(S!vars) PROVE PassInv'
  OBVIOUS
<1>1. CASE UNCHANGED <<status, revived, passes, message>>
  BY <1>1 DEF PassInv, S!Active, Over
<1>2. \A place \in {"idle", "set", "work"} :
         PassAt(place) \in Tasks /\ PassAt(place).at = place /\ PassAt(place).emit = "none"
  BY TasksAre DEF Tasks
<1>3. ASSUME NEW t \in Passes, S!Open(t) \/ S!SetRunning(t) \/ S!Abort(t) PROVE PassInv'
  <2>1. CASE S!Works(t) /\ ((status' = status /\ revived' = revived) \/ S!SetRunning(t))
    <3>1. /\ passes' = [passes EXCEPT ![t] = PassAt("work")]
          /\ message' = IF \E u \in Passes : S!Active(u) THEN "unknown" ELSE message
      BY <2>1 DEF S!Works, S!Goes, PassAt
    <3>2. status' \in S!Statuses /\ revived' \in BOOLEAN /\ (Over => Over')
      <4>1. CASE status' = status /\ revived' = revived
        BY <4>1 DEF PassInv, Over
      <4>2. CASE S!SetRunning(t)
        <5>1. status' = "running" /\ revived' = (revived \/ status = "done") /\ revived \in BOOLEAN
          BY <4>2 DEF S!SetRunning, S!Terminal, PassInv
        <5>2. revived' \in BOOLEAN /\ (Over => revived')
          BY Zenon, <5>1 DEF Over
        <5> QED BY <5>1, <5>2 DEF S!Statuses, Over
      <4> QED BY <2>1, <4>1, <4>2
    <3>3. message' \in S!Statuses \cup {"unknown"} /\ (message' # "unknown" => \A u \in Passes : ~S!Active(u))
      BY <3>1 DEF PassInv
    <3> QED BY <1>2, <3>1, <3>2, <3>3, OnePassMoves
  <2>2. CASE S!Goes(t, "set") /\ status' = status /\ revived' = revived /\ message' = message /\ passes[t] = S!NoPass
    <3>1. passes' = [passes EXCEPT ![t] = PassAt("set")]
      BY <2>2 DEF S!Goes, PassAt
    <3>2. ~S!Active(t)
      BY <2>2, TasksAre, <1>2 DEF S!Active
    <3>3. status' \in S!Statuses /\ revived' \in BOOLEAN /\ (Over => Over') /\ message' \in S!Statuses \cup {"unknown"}
      BY <2>2 DEF PassInv, Over
    <3> QED BY <1>2, <2>2, <3>1, <3>2, <3>3, OnePassMoves
  <2>3. CASE S!Abort(t)
    <3>1. passes' = [passes EXCEPT ![t] = PassAt("idle")] /\ status' = status /\ revived' = revived
      BY <2>3 DEF S!Abort, S!Goes, PassAt
    <3>2. message' = IF S!Active(t) THEN "unknown" ELSE message
      BY <2>3 DEF S!Abort
    <3>3. status' \in S!Statuses /\ revived' \in BOOLEAN /\ (Over => Over') /\ message' \in S!Statuses \cup {"unknown"}
      BY <3>1, <3>2 DEF PassInv, Over
    <3> QED BY <1>2, <3>1, <3>2, <3>3, OnePassMoves
  <2> QED BY <1>3, <2>1, <2>2, <2>3 DEF S!Open, S!SetRunning
<1>4. ASSUME NEW t \in Passes, S!Stage(t) PROVE PassInv'
  <2>1. PICK shows \in S!Statuses : S!Commit(shows) /\ passes' = [passes EXCEPT ![t] = [at |-> "emit", emit |-> shows]]
    BY <1>4 DEF S!Stage
  <2>2. [at |-> "emit", emit |-> shows] \in Tasks
    BY DEF Tasks
  <2>3. status' \in S!Statuses /\ revived' \in BOOLEAN /\ (Over => Over') /\ (shows = "done" => Over')
    BY <1>4, <2>1 DEF S!Stage, S!Commit, S!Terminal, S!Statuses, PassInv, Over
  <2>4. message' = message /\ S!Active(t) /\ message' \in S!Statuses \cup {"unknown"}
    BY <1>4 DEF S!Stage, S!Active, PassInv
  <2>5. message' # "unknown" => \A u \in Passes : S!Active(u) => u = t
    BY <2>4 DEF PassInv
  <2> QED BY <2>1, <2>2, <2>3, <2>4, <2>5, OnePassMoves
<1>5. ASSUME NEW t \in Passes, S!Emit(t) PROVE PassInv'
  <2>1. passes[t].at = "emit" /\ passes' = [passes EXCEPT ![t].at = "call"] /\ UNCHANGED <<status, revived, message>>
    BY <1>5 DEF S!Emit
  <2>2. passes[t] \in [at : {"emit", "call"}, emit : S!Statuses]
    BY <2>1, TasksAre DEF PassInv
  <2> DEFINE next == [passes[t] EXCEPT !.at = "call"]
  <2>3. next \in Tasks /\ next.at = "call" /\ next.emit = passes[t].emit /\ passes' = [passes EXCEPT ![t] = next]
    BY <2>1, <2>2 DEF Tasks, PassInv
  <2> HIDE DEF next
  <2>4. status' \in S!Statuses /\ revived' \in BOOLEAN /\ (Over => Over') /\ message' \in S!Statuses \cup {"unknown"}
    BY <2>1 DEF PassInv, Over
  <2>5. (next.emit = "done" => Over') /\ S!Active(t)
    BY <2>1, <2>3 DEF PassInv, Over, S!Active
  <2>6. message' # "unknown" => \A u \in Passes : S!Active(u) => u = t
    BY <2>1, <2>5 DEF PassInv
  <2> QED BY <2>3, <2>4, <2>5, <2>6, OnePassMoves
<1>6. ASSUME NEW t \in Passes, S!Update(t) \/ S!GiveUp(t) PROVE PassInv'
  <2>1. /\ passes[t].at = "call" /\ passes' = [passes EXCEPT ![t] = S!After(t)] /\ status' = status /\ revived' = revived
        /\ message' = "unknown" \/ (message # "unknown" /\ message' = S!View(t))
    BY <1>6 DEF S!Update, S!GiveUp
  <2>2. /\ S!After(t) \in {PassAt("idle"), PassAt("work")} /\ (S!After(t) = PassAt("idle") => passes[t].emit # "running")
        /\ S!After(t) = PassAt("work") => passes[t].emit = "running"
    BY <1>2, TasksAre DEF S!After, PassAt
  <2>3. S!After(t) \in Tasks /\ S!After(t).at \in {"idle", "work"} /\ (S!After(t).at = "idle" => passes[t].emit # "running")
    BY <1>2, <2>2
  <2>4. message' \in S!Statuses \cup {"unknown"} /\ (message' # "unknown" /\ passes[t].emit # "running" => message' = status')
    BY <2>1 DEF S!View, S!Statuses, PassInv
  <2>5. S!Active(t) /\ (message' # "unknown" => \A u \in Passes : S!Active(u) => u = t)
    BY <2>1 DEF S!Active, PassInv
  <2>6. status' \in S!Statuses /\ revived' \in BOOLEAN /\ (Over => Over')
    BY <2>1 DEF PassInv, Over
  <2> QED BY <2>1, <2>3, <2>4, <2>5, <2>6, OnePassMoves
<1>7. ASSUME NEW p \in Servers, S!Restart(p) PROVE PassInv'
  <2>1. /\ passes' = [t \in Passes |-> IF HostOf[t] = p THEN S!NoPass ELSE passes[t]]
        /\ status' = status /\ revived' = revived
        /\ message' = IF \E t \in Passes : HostOf[t] = p /\ S!Active(t) THEN "unknown" ELSE message
    BY <1>7 DEF S!Restart
  <2>2. S!NoPass \in Tasks /\ S!NoPass.at = "idle"
    BY <1>2, TasksAre
  <2>3. passes' \in [Passes -> Tasks]
    BY <2>1, <2>2 DEF PassInv
  <2>4. \A t \in Passes : passes'[t] = passes[t] \/ (HostOf[t] = p /\ passes'[t] = S!NoPass)
    BY <2>1
  <2>5. \A t \in Passes : S!Active(t)' => S!Active(t)
    BY <2>2, <2>4 DEF S!Active
  <2>6. \A t \in Passes : passes'[t].at \in {"emit", "call"} /\ passes'[t].emit = "done" => Over'
    BY <2>1, <2>2, <2>4 DEF PassInv, Over
  <2>7. ASSUME message' # "unknown", NEW t \in Passes, S!Active(t) PROVE S!Active(t)'
    BY <2>1, <2>7 DEF S!Active
  <2>8. message' # "unknown" => message' = message
    BY <2>1
  <2> QED BY <2>1, <2>3, <2>5, <2>6, <2>7, <2>8 DEF PassInv
<1>8. ASSUME NEW c \in Clients, S!StreamStep(c) \/ S!Drop(c) \/ \E p \in Servers : S!Connect(c, p) PROVE PassInv'
  BY <1>1, <1>8 DEF S!StreamStep, S!LoadStatus, S!EndStream, S!Take, S!Heartbeat, S!Drop, S!Connect
<1>9. CASE UNCHANGED S!vars
  BY <1>1, <1>9 DEF S!vars
<1> QED BY <1>3, <1>4, <1>5, <1>6, <1>7, <1>8, <1>9 DEF S!Next, S!PassStep

-----------------------------------------------------------------------------
(* Some events that a bus numbered last, of a process in one of its lives. *)
Numbers(events, p, life, seq) ==
    /\ events \in Seq(S!Event) /\ Len(events) <= seq
    /\ \A i \in 1..Len(events) :
          events[i].proc = p /\ events[i].life = life /\ events[i].seq = seq - Len(events) + i

(* Numbered events are at most as many as the number of the last.          *)
LEMMA NumbersFit ==
  ASSUME NEW events, NEW p, NEW life, NEW seq \in Nat, Numbers(events, p, life, seq)
  PROVE  /\ Len(events) \in Nat /\ Len(events) \in Int /\ Len(events) <= seq
         /\ \A i \in 1..Len(events) : events[i].seq \in Nat /\ events[i].seq <= seq
<1>1. Len(events) \in Nat /\ Len(events) <= seq
  BY DEF Numbers
<1>2. ASSUME NEW i \in 1..Len(events) PROVE events[i].seq \in Nat /\ events[i].seq <= seq
  <2>1. events[i].seq = seq - Len(events) + i
    BY DEF Numbers
  <2> QED BY <1>1, <2>1
<1> QED BY <1>1, <1>2

(* The next event has the next number.                                     *)
LEMMA NumbersAppend ==
  ASSUME NEW events, NEW p, NEW life, NEW seq \in Nat, NEW e \in S!Event, Numbers(events, p, life, seq),
         e.proc = p, e.life = life, e.seq = seq + 1
  PROVE  /\ Numbers(Append(events, e), p, life, seq + 1) /\ Len(Append(events, e)) = Len(events) + 1
         /\ \A i \in 1..Len(events) + 1 :
               Append(events, e)[i] = IF i = Len(events) + 1 THEN e ELSE events[i]
<1>1. events \in Seq(S!Event) /\ Len(events) \in Nat /\ Len(events) <= seq
  BY DEF Numbers
<1>2. /\ Append(events, e) \in Seq(S!Event) /\ Len(Append(events, e)) = Len(events) + 1
      /\ \A i \in 1..Len(events) + 1 :
            Append(events, e)[i] = IF i = Len(events) + 1 THEN e ELSE events[i]
  BY <1>1
<1>3. ASSUME NEW i \in 1..Len(events) + 1
      PROVE  LET x == IF i = Len(events) + 1 THEN e ELSE events[i] IN
             x.proc = p /\ x.life = life /\ x.seq = seq + 1 - (Len(events) + 1) + i
  <2>1. CASE i = Len(events) + 1
    BY <1>1, <2>1
  <2>2. CASE i \in 1..Len(events)
    BY <1>1, <2>2 DEF Numbers
  <2> QED BY <1>1, <2>1, <2>2
<1>4. seq + 1 \in Nat /\ Len(events) + 1 <= seq + 1
  BY <1>1
<1>5. Numbers(Append(events, e), p, life, seq + 1)
  BY <1>2, <1>3, <1>4 DEF Numbers
<1> QED BY <1>2, <1>5

(* The bus keeps the last events, as many as it may.                       *)
LEMMA KeptFits ==
  ASSUME EventsKept \in Nat, NEW events \in Seq(S!Event)
  PROVE  /\ S!Kept(events) \in Seq(S!Event)
         /\ Len(S!Kept(events)) = IF Len(events) > EventsKept THEN EventsKept ELSE Len(events)
         /\ \A i \in 1..Len(S!Kept(events)) :
               S!Kept(events)[i] = events[Len(events) - Len(S!Kept(events)) + i]
<1>1. Len(events) \in Nat
  OBVIOUS
<1>2. CASE Len(events) > EventsKept
  <2> DEFINE m == Len(events) - EventsKept + 1
  <2>1. m \in 1..Len(events) + 1 /\ S!Kept(events) = SubSeq(events, m, Len(events))
    BY <1>1, <1>2 DEF S!Kept, S!LastOf
  <2>2. \A i \in m..Len(events) : events[i] \in S!Event
    BY <1>1, <2>1
  <2>3. /\ SubSeq(events, m, Len(events)) \in Seq(S!Event)
        /\ Len(SubSeq(events, m, Len(events))) = EventsKept
        /\ \A i \in 1..EventsKept : SubSeq(events, m, Len(events))[i] = events[m + i - 1]
    <3>1. m \in Int /\ Len(events) \in Int /\ (m <= Len(events) <=> EventsKept > 0) /\ Len(events) - m + 1 = EventsKept
      BY <1>1, <1>2
    <3> HIDE DEF m
    <3> QED BY <1>1, <2>2, <3>1, SubSeqProperties
  <2> QED BY <1>1, <1>2, <2>1, <2>3
<1>3. CASE ~(Len(events) > EventsKept)
  BY <1>1, <1>3 DEF S!Kept
<1> QED BY <1>2, <1>3

(* What the bus keeps of numbered events is numbered.                      *)
LEMMA NumbersKept ==
  ASSUME EventsKept \in Nat, NEW events, NEW p, NEW life, NEW seq \in Nat, Numbers(events, p, life, seq)
  PROVE  Numbers(S!Kept(events), p, life, seq)
<1>1. events \in Seq(S!Event) /\ Len(events) \in Nat /\ Len(events) <= seq
  BY DEF Numbers
<1>2. S!Kept(events) \in Seq(S!Event) /\ Len(S!Kept(events)) \in 0..Len(events)
  BY <1>1, KeptFits
<1>3. ASSUME NEW i \in 1..Len(S!Kept(events))
      PROVE  LET x == S!Kept(events)[i] IN
             x.proc = p /\ x.life = life /\ x.seq = seq - Len(S!Kept(events)) + i
  <2>1. /\ S!Kept(events)[i] = events[Len(events) - Len(S!Kept(events)) + i]
        /\ Len(events) - Len(S!Kept(events)) + i \in 1..Len(events)
    BY <1>1, <1>2, KeptFits
  <2>2. PICK j \in 1..Len(events) : S!Kept(events)[i] = events[j] /\ j = Len(events) - Len(S!Kept(events)) + i
    BY <2>1
  <2>3. events[j].proc = p /\ events[j].life = life /\ events[j].seq = seq - Len(events) + j
    BY DEF Numbers
  <2>4. seq - Len(events) + j = seq - Len(S!Kept(events)) + i
    BY <1>1, <1>2, <2>2
  <2> QED BY <2>2, <2>3, <2>4
<1> QED BY <1>1, <1>2, <1>3 DEF Numbers

(* The first of numbered events, and those behind it.                      *)
LEMMA NumbersTail ==
  ASSUME NEW events, NEW p, NEW life, NEW seq \in Nat, Numbers(events, p, life, seq), events # <<>>
  PROVE  /\ Numbers(Tail(events), p, life, seq) /\ Len(Tail(events)) = Len(events) - 1 /\ Len(events) > 0
         /\ Head(events) = events[1] /\ Head(events) \in S!Event /\ Head(events).proc = p
         /\ Head(events).life = life /\ Head(events).seq = seq - Len(events) + 1
         /\ \A i \in 1..Len(Tail(events)) : Tail(events)[i] = events[i + 1]
<1>1. events \in Seq(S!Event) /\ Len(events) \in Nat /\ Len(events) > 0 /\ Len(events) <= seq
  BY DEF Numbers
<1>2. /\ Tail(events) \in Seq(S!Event) /\ Len(Tail(events)) = Len(events) - 1
      /\ Head(events) = events[1] /\ Head(events) \in S!Event
      /\ \A i \in 1..Len(Tail(events)) : Tail(events)[i] = events[i + 1]
  BY <1>1
<1>3. ASSUME NEW i \in 1..Len(events) - 1
      PROVE  LET x == events[i + 1] IN
             x.proc = p /\ x.life = life /\ x.seq = seq - (Len(events) - 1) + i
  <2>1. i + 1 \in 1..Len(events)
    BY <1>1
  <2> QED BY <1>1, <2>1 DEF Numbers
<1> QED BY <1>1, <1>2, <1>3 DEF Numbers

-----------------------------------------------------------------------------
Buses == [life : Nat, seq : Nat, kept : Seq(S!Event)]
WellKept(b, p) ==
    /\ b \in Buses /\ Numbers(b.kept, p, b.life, b.seq)
    /\ Len(b.kept) = IF b.seq < EventsKept THEN b.seq ELSE EventsKept

In(e, events) == \E k \in 1..Len(events) : events[k] = e
LastSeq(events) == IF events = <<>> THEN 0 ELSE events[Len(events)].seq

(* What a client received, of what its bus keeps, in a bus's first life.   *)
Heard(b, g, first) ==
    first => /\ LastSeq(g) <= b.seq
             /\ \A i \in 1..Len(b.kept) : b.kept[i].seq <= LastSeq(g) => In(b.kept[i], g)

(* A client's queue holds what its bus numbered last; what went before it  *)
(* was received, or known; and nothing is left out before the first fresh  *)
(* event but what the bus had forgotten.                                   *)
Follows(r, b, g, first) ==
    /\ \A i \in 1..Len(b.kept), j \in 1..Len(r.queue) :
          b.kept[i].seq = r.queue[j].seq => b.kept[i] = r.queue[j]
    /\ \A i \in 1..Len(b.kept) :
          b.kept[i].seq <= b.seq - Len(r.queue) => In(b.kept[i], g) \/ b.kept[i].seq <= r.after
    /\ IF LastSeq(g) = r.after THEN b.seq - Len(r.queue) <= r.after \/ Len(r.queue) >= EventsKept
                               ELSE LastSeq(g) > r.after /\ LastSeq(g) = b.seq - Len(r.queue)
    /\ first => \A j \in 1..Len(r.queue) : r.queue[j].seq <= r.after => In(r.queue[j], g)

(* The last number a follower got is a number.                             *)
LEMMA LastSeqFits == ASSUME NEW g \in Seq(S!Event) PROVE LastSeq(g) \in Nat
<1>1. CASE g = <<>>
  BY <1>1 DEF LastSeq
<1>2. CASE g # <<>>
  <2>1. Len(g) \in 1..Len(g)
    BY <1>2
  <2>2. g[Len(g)] \in S!Event
    BY <2>1
  <2> QED BY <1>2, <2>2 DEF LastSeq, S!Event
<1> QED BY <1>1, <1>2

(* A queue begins with all that is kept.                                   *)
LEMMA ConnectFollows ==
  ASSUME EventsKept \in Nat, NEW b, NEW p, NEW g \in Seq(S!Event), NEW first, WellKept(b, p), Heard(b, g, first),
         NEW r, r.queue = b.kept, r.after = LastSeq(g)
  PROVE  Follows(r, b, g, first)
<1>1. /\ b.seq \in Nat /\ Len(b.kept) \in Nat /\ Len(b.kept) = IF b.seq < EventsKept THEN b.seq ELSE EventsKept
      /\ \A i \in 1..Len(b.kept) : b.kept[i].seq = b.seq - Len(b.kept) + i
  BY DEF WellKept, Buses, Numbers
<1>2. LastSeq(g) \in Nat
  BY LastSeqFits
<1>3. ASSUME NEW i \in 1..Len(b.kept), NEW j \in 1..Len(b.kept), b.kept[i].seq = b.kept[j].seq
      PROVE  b.kept[i] = b.kept[j]
  <2>1. b.kept[i].seq = b.seq - Len(b.kept) + i /\ b.kept[j].seq = b.seq - Len(b.kept) + j
    BY <1>1
  <2>2. i \in Int /\ j \in Int /\ b.seq \in Int /\ Len(b.kept) \in Int
    BY <1>1
  <2>3. b.seq - Len(b.kept) + i = b.seq - Len(b.kept) + j
    BY <1>3, <2>1
  <2>4. i = j
    BY <2>2, <2>3
  <2> QED BY <2>4
<1>4. \A i \in 1..Len(b.kept) : ~(b.kept[i].seq <= b.seq - Len(b.kept))
  BY <1>1
<1>5. b.seq - Len(b.kept) <= LastSeq(g) \/ Len(b.kept) >= EventsKept
  BY <1>1, <1>2
<1> QED BY <1>3, <1>4, <1>5 DEF Follows, Heard

(* A new event is numbered after all others.                               *)
LEMMA EmitFollows ==
  ASSUME EventsKept \in Nat, NEW b, NEW p, NEW e \in S!Event, WellKept(b, p),
         e.proc = p, e.life = b.life, e.seq = b.seq + 1,
         NEW kept, kept = S!Kept(Append(b.kept, e)),
         NEW b2, b2 = [life |-> b.life, seq |-> b.seq + 1, kept |-> kept]
  PROVE  /\ WellKept(b2, p) /\ b2.life = b.life /\ b2.seq = b.seq + 1
         /\ \A i \in 1..Len(b2.kept) : b2.kept[i] = e \/ In(b2.kept[i], b.kept)
         /\ \A g \in Seq(S!Event) : \A first : Heard(b, g, first) => Heard(b2, g, first)
<1>1. /\ b.seq \in Nat /\ b.life \in Nat /\ b.kept \in Seq(S!Event) /\ Len(b.kept) \in Nat
      /\ Numbers(b.kept, p, b.life, b.seq)
      /\ Len(b.kept) = IF b.seq < EventsKept THEN b.seq ELSE EventsKept
  BY DEF WellKept, Buses
<1> DEFINE k2 == Append(b.kept, e)
<1>2. b2.life = b.life /\ b2.seq = b.seq + 1 /\ b2.kept = kept /\ kept = S!Kept(k2)
  OBVIOUS
<1>3. /\ Numbers(k2, p, b.life, b.seq + 1) /\ Len(k2) = Len(b.kept) + 1 /\ k2 \in Seq(S!Event)
      /\ \A i \in 1..Len(b.kept) + 1 : k2[i] = IF i = Len(b.kept) + 1 THEN e ELSE b.kept[i]
  <2>1. /\ Numbers(k2, p, b.life, b.seq + 1) /\ Len(k2) = Len(b.kept) + 1
        /\ \A i \in 1..Len(b.kept) + 1 : k2[i] = IF i = Len(b.kept) + 1 THEN e ELSE b.kept[i]
    BY <1>1, NumbersAppend
  <2> HIDE DEF k2
  <2> QED BY <2>1 DEF Numbers
<1> HIDE DEF k2
<1>4. /\ S!Kept(k2) \in Seq(S!Event) /\ Len(S!Kept(k2)) = IF Len(k2) > EventsKept THEN EventsKept ELSE Len(k2)
      /\ \A i \in 1..Len(S!Kept(k2)) : S!Kept(k2)[i] = k2[Len(k2) - Len(S!Kept(k2)) + i]
  BY <1>3, KeptFits
<1>5. Numbers(S!Kept(k2), p, b.life, b.seq + 1)
  BY <1>1, <1>3, NumbersKept
<1>6. WellKept(b2, p)
  <2>1. b2 \in Buses
    BY <1>1, <1>2, <1>4 DEF Buses
  <2>2. Len(S!Kept(k2)) = IF b.seq + 1 < EventsKept THEN b.seq + 1 ELSE EventsKept
    BY <1>1, <1>3, <1>4
  <2> QED BY <1>5, <1>2, <2>1, <2>2 DEF WellKept
<1>7. \A i \in 1..Len(b2.kept) : b2.kept[i] = e \/ In(b2.kept[i], b.kept)
  <2> SUFFICES ASSUME NEW i \in 1..Len(S!Kept(k2)) PROVE S!Kept(k2)[i] = e \/ In(S!Kept(k2)[i], b.kept)
    BY <1>2
  <2> DEFINE m == Len(k2) - Len(S!Kept(k2)) + i
  <2>0. Len(S!Kept(k2)) \in 1..Len(k2) /\ Len(k2) = Len(b.kept) + 1
    <3>1. Len(k2) \in Nat /\ Len(k2) = Len(b.kept) + 1 /\ Len(S!Kept(k2)) \in Nat
      BY <1>1, <1>3, <1>4
    <3>2. Len(S!Kept(k2)) <= Len(k2) /\ Len(S!Kept(k2)) >= 1
      BY <1>4, <3>1
    <3> QED BY <3>1, <3>2
  <2>1. m \in 1..Len(b.kept) + 1 /\ S!Kept(k2)[i] = k2[m]
    <3>1. S!Kept(k2)[i] = k2[m]
      BY <1>4
    <3>2. Len(b.kept) \in Nat /\ Len(S!Kept(k2)) \in 1..Len(b.kept) + 1
      BY <1>1, <2>0
    <3>3. m \in 1..Len(b.kept) + 1
      BY <2>0, <3>2
    <3> QED BY <3>1, <3>3
  <2> HIDE DEF m
  <2>2. CASE m = Len(b.kept) + 1
    BY <1>3, <2>1, <2>2
  <2>3. CASE m \in 1..Len(b.kept)
    <3>1. S!Kept(k2)[i] = b.kept[m]
      BY <1>1, <1>3, <2>1, <2>3
    <3> QED BY <2>3, <3>1 DEF In
  <2> QED BY <1>1, <2>1, <2>2, <2>3
<1>8. ASSUME NEW g \in Seq(S!Event), NEW first, Heard(b, g, first), first PROVE Heard(b2, g, first)
  <2>1. LastSeq(g) <= b.seq /\ LastSeq(g) \in Nat
    BY <1>8, LastSeqFits DEF Heard
  <2>2. ASSUME NEW i \in 1..Len(b2.kept), b2.kept[i].seq <= LastSeq(g) PROVE In(b2.kept[i], g)
    <3>1. b2.kept[i] # e
      BY <1>1, <2>1, <2>2
    <3>2. PICK k \in 1..Len(b.kept) : b.kept[k] = b2.kept[i]
      BY <1>7, <3>1 DEF In
    <3>3. In(b.kept[k], g)
      BY <1>8, <2>2, <3>2 DEF Heard
    <3> QED BY <3>2, <3>3
  <2> QED BY <1>1, <1>2, <2>1, <2>2 DEF Heard
<1>9. \A g \in Seq(S!Event) : \A first : Heard(b, g, first) => Heard(b2, g, first)
  BY <1>8 DEF Heard
<1> QED BY <1>6, <1>7, <1>9, <1>2

(* Whoever follows the bus has the event in his queue as well.             *)
LEMMA EmitQueued ==
  ASSUME EventsKept \in Nat, NEW b, NEW p, NEW e \in S!Event, WellKept(b, p),
         e.proc = p, e.life = b.life, e.seq = b.seq + 1,
         NEW b2, b2.seq = b.seq + 1, b2.life = b.life,
         \A i \in 1..Len(b2.kept) : b2.kept[i] = e \/ In(b2.kept[i], b.kept),
         NEW r, NEW r2, NEW g \in Seq(S!Event), NEW first, Numbers(r.queue, p, b.life, b.seq),
         Follows(r, b, g, first), Heard(b, g, first), r.after \in Nat,
         r2.queue = Append(r.queue, e), r2.after = r.after
  PROVE  Follows(r2, b2, g, first) /\ Numbers(r2.queue, p, b2.life, b2.seq)
<1>1. /\ b.seq \in Nat /\ Len(r.queue) \in Nat /\ LastSeq(g) \in Nat /\ Len(b.kept) \in Nat
      /\ \A i \in 1..Len(b.kept) : b.kept[i].seq \in Nat /\ b.kept[i].seq <= b.seq
      /\ \A j \in 1..Len(r.queue) : r.queue[j].seq \in Nat /\ r.queue[j].seq <= b.seq
  <2>1. b.seq \in Nat /\ Numbers(b.kept, p, b.life, b.seq)
    BY DEF WellKept, Buses
  <2>2. LastSeq(g) \in Nat
    BY LastSeqFits
  <2> QED BY <2>1, <2>2, NumbersFit
<1>2. /\ Numbers(r2.queue, p, b.life, b.seq + 1) /\ Len(r2.queue) = Len(r.queue) + 1
      /\ \A j \in 1..Len(r.queue) + 1 : r2.queue[j] = IF j = Len(r.queue) + 1 THEN e ELSE r.queue[j]
  BY <1>1, NumbersAppend
<1>3. \A j \in 1..Len(r2.queue) : r2.queue[j] = e \/ \E m \in 1..Len(r.queue) : r2.queue[j] = r.queue[m]
  <2> SUFFICES ASSUME NEW j \in 1..Len(r.queue) + 1, j # Len(r.queue) + 1
               PROVE  \E m \in 1..Len(r.queue) : r2.queue[j] = r.queue[m]
    BY <1>2
  <2>1. j \in 1..Len(r.queue) /\ r2.queue[j] = r.queue[j]
    BY <1>1, <1>2
  <2> QED BY <2>1
<1>4. ASSUME NEW i \in 1..Len(b2.kept)
      PROVE  b2.kept[i] = e \/ \E k \in 1..Len(b.kept) : b2.kept[i] = b.kept[k]
  BY DEF In
<1>5. ASSUME NEW i \in 1..Len(b2.kept), NEW j \in 1..Len(r2.queue), b2.kept[i].seq = r2.queue[j].seq
      PROVE  b2.kept[i] = r2.queue[j]
  <2>1. CASE b2.kept[i] = e
    <3>1. r2.queue[j] = e
      BY <1>1, <1>3, <1>5, <2>1
    <3> QED BY <2>1, <3>1
  <2>2. CASE b2.kept[i] # e
    <3>1. PICK k \in 1..Len(b.kept) : b2.kept[i] = b.kept[k]
      BY <1>4, <2>2
    <3>2. r2.queue[j] # e
      <4>1. r2.queue[j].seq <= b.seq
        BY <1>1, <1>5, <3>1
      <4> QED BY SMT, <1>1, <4>1
    <3>3. PICK m \in 1..Len(r.queue) : r2.queue[j] = r.queue[m]
      BY <1>3, <3>2
    <3> QED BY <1>5, <3>1, <3>3 DEF Follows
  <2> QED BY <2>1, <2>2
<1>6. b2.seq - Len(r2.queue) = b.seq - Len(r.queue)
  <2>1. PICK m \in Nat : m = b.seq
    BY <1>1
  <2>2. PICK n \in Nat : n = Len(r.queue)
    BY <1>1
  <2>3. b2.seq = m + 1 /\ Len(r2.queue) = n + 1
    BY <1>2, <2>1, <2>2
  <2>4. (m + 1) - (n + 1) = m - n
    OBVIOUS
  <2> QED BY <2>1, <2>2, <2>3, <2>4
<1>7. ASSUME NEW i \in 1..Len(b2.kept), b2.kept[i].seq <= b2.seq - Len(r2.queue)
      PROVE  In(b2.kept[i], g) \/ b2.kept[i].seq <= r2.after
  <2>1. b2.kept[i] # e
    BY SMT, <1>1, <1>6, <1>7
  <2>2. PICK k \in 1..Len(b.kept) : b2.kept[i] = b.kept[k]
    BY <1>4, <2>1
  <2>3. b.kept[k].seq <= b.seq - Len(r.queue)
    BY <1>6, <1>7, <2>2
  <2> QED BY <2>2, <2>3 DEF Follows
<1>8. IF LastSeq(g) = r2.after THEN b2.seq - Len(r2.queue) <= r2.after \/ Len(r2.queue) >= EventsKept
                               ELSE LastSeq(g) > r2.after /\ LastSeq(g) = b2.seq - Len(r2.queue)
  <2>1. Len(r.queue) >= EventsKept => Len(r2.queue) >= EventsKept
    BY <1>1, <1>2
  <2> QED BY <1>6, <2>1 DEF Follows
<1>9. ASSUME first, NEW j \in 1..Len(r2.queue), r2.queue[j].seq <= r2.after PROVE In(r2.queue[j], g)
  <2>1. r.after <= LastSeq(g) /\ LastSeq(g) <= b.seq
    BY <1>1, <1>9 DEF Follows, Heard
  <2>2. r2.queue[j] # e
    BY SMT, <1>1, <1>9, <2>1
  <2>3. PICK m \in 1..Len(r.queue) : r2.queue[j] = r.queue[m]
    BY <1>3, <2>2
  <2> QED BY <1>9, <2>3 DEF Follows
<1> QED BY <1>2, <1>5, <1>7, <1>8, <1>9 DEF Follows

(* The head of the queue is passed on when it is fresh, or else skipped.   *)
LEMMA TakeFollows ==
  ASSUME EventsKept \in Nat, NEW b, NEW p, WellKept(b, p), NEW r, NEW r2, NEW g \in Seq(S!Event), NEW g2, NEW first,
         Numbers(r.queue, p, b.life, b.seq), Follows(r, b, g, first), Heard(b, g, first), r.after \in Nat,
         r.queue # <<>>, r2.queue = Tail(r.queue), r2.after = r.after,
         NEW h, h = Head(r.queue), g2 = IF h.seq > r.after THEN Append(g, h) ELSE g
  PROVE  /\ Follows(r2, b, g2, first) /\ Heard(b, g2, first) /\ Numbers(r2.queue, p, b.life, b.seq)
         /\ h.seq > r.after => LastSeq(g) < h.seq /\ (h.seq > LastSeq(g) + 1 => b.seq >= h.seq + EventsKept - 1)
         /\ h.seq <= r.after /\ first => In(h, g)
<1>1. /\ b.seq \in Nat /\ Len(r.queue) \in Nat /\ LastSeq(g) \in Nat /\ Len(b.kept) \in Nat
      /\ \A i \in 1..Len(b.kept) : b.kept[i].seq \in Nat /\ b.kept[i].seq <= b.seq
  BY LastSeqFits DEF WellKept, Buses, Numbers
<1>2. /\ Numbers(r2.queue, p, b.life, b.seq) /\ Len(r2.queue) = Len(r.queue) - 1 /\ Len(r.queue) > 0
      /\ h = r.queue[1] /\ h \in S!Event /\ h.seq = b.seq - Len(r.queue) + 1
      /\ \A j \in 1..Len(r2.queue) : r2.queue[j] = r.queue[j + 1] /\ j + 1 \in 1..Len(r.queue)
  <2>1. /\ Numbers(Tail(r.queue), p, b.life, b.seq) /\ Len(Tail(r.queue)) = Len(r.queue) - 1 /\ Len(r.queue) > 0
        /\ Head(r.queue) = r.queue[1] /\ Head(r.queue) \in S!Event /\ Head(r.queue).seq = b.seq - Len(r.queue) + 1
        /\ \A i \in 1..Len(Tail(r.queue)) : Tail(r.queue)[i] = r.queue[i + 1]
    BY <1>1, NumbersTail
  <2> QED BY <1>1, <2>1
<1>3. \A i \in 1..Len(b.kept) : b.kept[i].seq = h.seq => b.kept[i] = h
  BY <1>1, <1>2 DEF Follows
<1>4. h.seq \in Nat /\ b.seq - Len(r2.queue) = h.seq /\ b.seq - Len(r.queue) = h.seq - 1
  <2>1. h.seq \in Nat
    BY <1>2 DEF S!Event
  <2>2. PICK m \in Nat, n \in Nat : m = b.seq /\ n = Len(r.queue)
    BY <1>1
  <2>3. h.seq = m - n + 1 /\ Len(r2.queue) = n - 1
    BY <1>2, <2>2
  <2>4. m - (n - 1) = m - n + 1 /\ m - n = (m - n + 1) - 1
    OBVIOUS
  <2> QED BY <2>1, <2>2, <2>3, <2>4
<1>5. /\ h.seq > r.after => LastSeq(g) < h.seq /\ (h.seq > LastSeq(g) + 1 => b.seq >= h.seq + EventsKept - 1)
      /\ h.seq <= r.after => LastSeq(g) = r.after
      /\ LastSeq(g) >= r.after
  <2>1. IF LastSeq(g) = r.after THEN h.seq - 1 <= r.after \/ Len(r.queue) >= EventsKept
                                ELSE LastSeq(g) > r.after /\ LastSeq(g) = h.seq - 1
    BY <1>4 DEF Follows
  <2>2. Len(r.queue) >= EventsKept => b.seq >= h.seq + EventsKept - 1
    BY SMT, <1>1, <1>4
  <2>3. CASE LastSeq(g) = r.after
    <3>1. h.seq - 1 <= r.after \/ b.seq >= h.seq + EventsKept - 1
      BY <2>1, <2>2, <2>3
    <3>2. r.after \in Nat /\ h.seq \in Nat
      BY <1>4
    <3>3. h.seq > r.after => LastSeq(g) < h.seq
      BY <2>3, <3>2
    <3>4. h.seq > LastSeq(g) + 1 => b.seq >= h.seq + EventsKept - 1
      BY SMT, <2>3, <3>1, <3>2
    <3> QED BY <2>3, <3>2, <3>3, <3>4
  <2>4. CASE LastSeq(g) # r.after
    <3>1. LastSeq(g) > r.after /\ LastSeq(g) = h.seq - 1
      BY <2>1, <2>4
    <3> QED BY SMT, <1>4, <3>1
  <2> QED BY <2>3, <2>4
<1>6. h.seq <= r.after /\ first => In(h, g)
  BY <1>1, <1>2 DEF Follows
<1>7. \A x : In(x, g) => In(x, g2)
  <2>1. CASE g2 = g
    BY <2>1
  <2>2. CASE g2 = Append(g, h)
    <3>1. \A k \in 1..Len(g) : g2[k] = g[k] /\ k \in 1..Len(g2)
      BY <1>2, <2>2
    <3> QED BY <3>1 DEF In
  <2> QED BY <2>1, <2>2
<1>8. h.seq > r.after => In(h, g2) /\ LastSeq(g2) = h.seq
  <2> SUFFICES ASSUME h.seq > r.after PROVE In(h, g2) /\ LastSeq(g2) = h.seq
    OBVIOUS
  <2>1. Len(g2) = Len(g) + 1 /\ g2[Len(g2)] = h /\ Len(g2) \in 1..Len(g2) /\ g2 # <<>>
    BY <1>2
  <2> QED BY <2>1 DEF In, LastSeq
<1>9. \A i \in 1..Len(b.kept) : b.kept[i].seq <= h.seq => In(b.kept[i], g2) \/ b.kept[i].seq <= r.after
  <2> SUFFICES ASSUME NEW i \in 1..Len(b.kept), b.kept[i].seq <= h.seq
               PROVE  In(b.kept[i], g2) \/ b.kept[i].seq <= r.after
    OBVIOUS
  <2>1. CASE b.kept[i].seq = h.seq
    BY SMT, <1>1, <1>3, <1>4, <1>8, <2>1
  <2>2. CASE b.kept[i].seq # h.seq
    <3>1. b.kept[i].seq <= b.seq - Len(r.queue)
      <4>1. b.kept[i].seq \in Nat
        BY <1>1
      <4>2. b.kept[i].seq <= h.seq - 1
        BY SMT, <1>4, <2>2, <4>1
      <4> QED BY <1>4, <4>2
    <3> QED BY <1>7, <3>1 DEF Follows
  <2> QED BY <2>1, <2>2
<1>10. Heard(b, g2, first)
  <2> SUFFICES ASSUME first PROVE Heard(b, g2, first)
    BY DEF Heard
  <2>1. LastSeq(g) <= b.seq /\ \A i \in 1..Len(b.kept) : b.kept[i].seq <= LastSeq(g) => In(b.kept[i], g)
    BY DEF Heard
  <2>2. CASE h.seq > r.after
    <3>1. h.seq <= b.seq
      BY <1>1, <1>2
    <3>2. \A i \in 1..Len(b.kept) : b.kept[i].seq <= r.after => b.kept[i].seq <= LastSeq(g)
      BY <1>1, <1>5
    <3> QED BY <1>7, <1>8, <1>9, <2>1, <2>2, <3>1, <3>2 DEF Heard
  <2>3. CASE ~(h.seq > r.after)
    BY <2>1, <2>3 DEF Heard
  <2> QED BY <2>2, <2>3
<1>11. Follows(r2, b, g2, first)
  <2>1. \A i \in 1..Len(b.kept), j \in 1..Len(r2.queue) :
           b.kept[i].seq = r2.queue[j].seq => b.kept[i] = r2.queue[j]
    BY <1>2 DEF Follows
  <2>2. \A i \in 1..Len(b.kept) :
           b.kept[i].seq <= b.seq - Len(r2.queue) => In(b.kept[i], g2) \/ b.kept[i].seq <= r2.after
    BY <1>4, <1>9
  <2>3. IF LastSeq(g2) = r2.after THEN b.seq - Len(r2.queue) <= r2.after \/ Len(r2.queue) >= EventsKept
                                  ELSE LastSeq(g2) > r2.after /\ LastSeq(g2) = b.seq - Len(r2.queue)
    <3>1. CASE h.seq > r.after
      BY <1>4, <1>8, <3>1
    <3>2. CASE ~(h.seq > r.after)
      <4>1. g2 = g /\ LastSeq(g) = r.after /\ h.seq <= r.after
        BY <1>4, <1>5, <3>2
      <4> QED BY <1>4, <4>1
    <3> QED BY <3>1, <3>2
  <2>4. first => \A j \in 1..Len(r2.queue) : r2.queue[j].seq <= r2.after => In(r2.queue[j], g2)
    BY <1>2, <1>7 DEF Follows
  <2> QED BY <2>1, <2>2, <2>3, <2>4 DEF Follows
<1> QED BY <1>2, <1>5, <1>6, <1>10, <1>11

-----------------------------------------------------------------------------
ClientRecords ==
    [at : {"off", "load", "loop"}, server : Procs \cup {S!None}, queue : Seq(S!Event), backlog : Nat,
     over : BOOLEAN, after : Nat]

(* An event says that the run is over only when it was.                    *)
Truthful(events) == \A i \in 1..Len(events) : events[i].over => Over

ServerFits(p) ==
    /\ WellKept(bus[p], p) /\ bus[p].life <= restarts
    /\ Truthful(bus[p].kept)

NoGap(c) ==
    \A i \in 2..Len(got[c]) :
        LET before == got[c][i - 1]
            event  == got[c][i]
            current    == bus[event.proc]
        IN  event.life = before.life /\ current.life = event.life /\ event.seq > before.seq + 1
                => current.seq >= event.seq + EventsKept - 1

GotFits(c) ==
    /\ got[c] \in Seq(S!Event)
    /\ \A i \in 1..Len(got[c]) :
          got[c][i].proc \in Servers /\ got[c][i].life <= bus[got[c][i].proc].life
    /\ \A i, j \in 1..Len(got[c]) : i < j => got[c][i].seq < got[c][j].seq
    /\ NoGap(c)
    /\ \A p \in Servers : Heard(bus[p], got[c], restarts = 0)
    /\ told[c] => Over
    /\ missed[c] => restarts > 0

Served(c) ==
    /\ client[c].at # "off" /\ client[c].server \in Servers /\ client[c].backlog <= EventsKept
    /\ Numbers(client[c].queue, client[c].server, bus[client[c].server].life, bus[client[c].server].seq)
    /\ Follows(client[c], bus[client[c].server], got[c], restarts = 0)
    /\ Truthful(client[c].queue)

ClientFits(c) ==
    /\ client[c].over => Over
    /\ client[c] = S!Off \/ Served(c)

StreamInv ==
    /\ bus \in [Procs -> Buses] /\ client \in [Clients -> ClientRecords] /\ got \in [Clients -> Seq(S!Event)]
    /\ told \in [Clients -> BOOLEAN] /\ missed \in [Clients -> BOOLEAN] /\ restarts \in 0..MaxRestarts
    /\ \A p \in Procs : ServerFits(p)
    /\ \A c \in Clients : GotFits(c) /\ ClientFits(c)

(* The Last-Event-ID of a follower is the last number it got.              *)
LEMMA LastIs == \A c : S!LastEventId(c) = LastSeq(got[c])
  BY DEF S!LastEventId, LastSeq, S!Last

(* A follower that is not connected.                                       *)
LEMMA OffIs ==
  S!Given => /\ S!Off \in ClientRecords /\ S!Off.at = "off" /\ S!Off.server = "none" /\ S!Off.over = FALSE
             /\ S!Off.queue = <<>> /\ S!Off.backlog = 0
             /\ "none" \notin Procs /\ S!None = "none"
<1> SUFFICES ASSUME S!Given PROVE /\ S!Off \in ClientRecords /\ S!Off.at = "off" /\ S!Off.server = "none" /\ S!Off.over = FALSE
                                  /\ S!Off.queue = <<>> /\ S!Off.backlog = 0
                                  /\ "none" \notin Procs /\ S!None = "none"
  OBVIOUS
<1>1. <<>> \in Seq(S!Event)
  OBVIOUS
<1> QED BY <1>1 DEF S!Off, ClientRecords, S!None, S!Given

(* Nobody follows and nothing was emitted.                                 *)
LEMMA StreamsStart == S!Given /\ S!Init => StreamInv
<1> SUFFICES ASSUME S!Given, S!Init PROVE StreamInv
  OBVIOUS
<1>1. <<>> \in Seq(S!Event) /\ Len(<<>>) = 0 /\ LastSeq(<<>>) = 0
  BY DEF LastSeq
<1>2. ASSUME NEW p \in Procs PROVE bus[p] \in Buses /\ ServerFits(p)
  <2>1. bus[p] = [life |-> 0, seq |-> 0, kept |-> <<>>] /\ restarts = 0
    BY <1>2 DEF S!Init
  <2>2. bus[p] \in Buses
    BY <1>1, <2>1 DEF Buses
  <2>3. WellKept(bus[p], p)
    BY <1>1, <2>1, <2>2 DEF WellKept, Numbers, S!Given
  <2> QED BY <1>1, <2>1, <2>2, <2>3 DEF ServerFits, Truthful
<1>3. ASSUME NEW c \in Clients PROVE GotFits(c) /\ ClientFits(c)
  <2>1. got[c] = <<>> /\ client[c] = S!Off /\ told[c] = FALSE /\ missed[c] = FALSE
    BY <1>3 DEF S!Init
  <2>2. \A p \in Servers : Heard(bus[p], got[c], restarts = 0)
    <3>1. \A p \in Servers : p \in Procs /\ bus[p].seq = 0 /\ Len(bus[p].kept) = 0
      BY <1>1 DEF S!Given, S!Init
    <3> QED BY <1>1, <2>1, <3>1 DEF Heard
  <2>3. GotFits(c)
    BY <1>1, <2>1, <2>2 DEF GotFits, NoGap
  <2> QED BY <2>1, <2>3, OffIs DEF ClientFits
<1>4. bus \in [Procs -> Buses] /\ client \in [Clients -> ClientRecords] /\ got \in [Clients -> Seq(S!Event)]
  BY <1>1, <1>2, OffIs DEF S!Init
<1>5. told \in [Clients -> BOOLEAN] /\ missed \in [Clients -> BOOLEAN] /\ restarts \in 0..MaxRestarts
  BY DEF S!Init, S!Given
<1> QED BY <1>2, <1>3, <1>4, <1>5 DEF StreamInv

(* What was over stays so.                                                 *)
LEMMA OverStays == PassInv /\ [S!Next]_(S!vars) /\ Over => Over'
<1> SUFFICES ASSUME PassInv, [S!Next]_(S!vars), Over PROVE Over'
  OBVIOUS
<1>1. CASE UNCHANGED <<status, revived>>
  BY <1>1 DEF Over
<1>2. ASSUME NEW t \in Passes, S!PassStep(t) PROVE Over'
  <2>1. CASE S!SetRunning(t)
    BY <2>1 DEF S!SetRunning, S!Terminal, Over
  <2>2. CASE S!Stage(t)
    BY <2>2 DEF S!Stage, S!Commit, S!Terminal, Over
  <2>3. CASE S!Open(t) \/ S!Abort(t) \/ S!Emit(t) \/ S!Update(t) \/ S!GiveUp(t)
    BY <1>1, <2>3 DEF S!Open, S!Abort, S!Emit, S!Update, S!GiveUp
  <2> QED BY <1>2, <2>1, <2>2, <2>3 DEF S!PassStep
<1>3. ASSUME NEW p \in Servers, S!Restart(p) PROVE Over'
  BY <1>1, <1>3 DEF S!Restart
<1>4. ASSUME NEW c \in Clients, S!StreamStep(c) \/ S!Drop(c) \/ \E p \in Servers : S!Connect(c, p) PROVE Over'
  BY <1>1, <1>4 DEF S!StreamStep, S!LoadStatus, S!EndStream, S!Take, S!Heartbeat, S!Drop, S!Connect
<1> QED BY <1>1, <1>2, <1>3, <1>4 DEF S!Next, S!vars

(* What a step leaves alone.                                               *)
LEMMA OtherServersFit ==
  ASSUME StreamInv, Over => Over', NEW p \in Procs, bus'[p] = bus[p], restarts' = restarts
  PROVE  ServerFits(p)'
<1>1. ServerFits(p)
  BY DEF StreamInv
<1> QED BY <1>1 DEF ServerFits, Truthful

(* A follower fits as long as nothing it reads changes.                    *)
LEMMA OtherClientsFit ==
  ASSUME StreamInv, Over => Over', restarts' = restarts,
         \A p \in Servers : bus'[p] = bus[p],
         NEW c \in Clients, client'[c] = client[c], got'[c] = got[c], told'[c] = told[c], missed'[c] = missed[c]
  PROVE  GotFits(c)' /\ ClientFits(c)'
<1>1. GotFits(c) /\ ClientFits(c)
  BY DEF StreamInv
<1>2. \A i \in 1..Len(got[c]) : got[c][i].proc \in Servers /\ bus'[got[c][i].proc] = bus[got[c][i].proc]
  BY <1>1 DEF GotFits
<1>3. NoGap(c)'
  <2>1. \A i \in 2..Len(got[c]) : i \in 1..Len(got[c])
    BY <1>1 DEF GotFits
  <2> QED BY <1>1, <1>2, <2>1 DEF GotFits, NoGap
<1>4. GotFits(c)'
  BY <1>1, <1>2, <1>3 DEF GotFits
<1>5. Served(c) => Served(c)'
  BY DEF Served, Truthful
<1>6. ClientFits(c)'
  BY <1>1, <1>5 DEF ClientFits
<1> QED BY <1>4, <1>6

-----------------------------------------------------------------------------
(* Between its events a pass leaves the bus and the followers alone.       *)
LEMMA PassStepsFit ==
  ASSUME S!Given, StreamInv, PassInv, [S!Next]_(S!vars), NEW t \in Passes,
         S!Open(t) \/ S!SetRunning(t) \/ S!Stage(t) \/ S!Abort(t) \/ S!Update(t) \/ S!GiveUp(t)
  PROVE  StreamInv'
<1>1. Over => Over'
  BY OverStays
<1>2. UNCHANGED <<bus, client, got, told, missed, restarts>>
  BY DEF S!Open, S!SetRunning, S!Stage, S!Abort, S!Update, S!GiveUp, S!clientVars
<1>3. \A q \in Procs : ServerFits(q)'
  BY <1>1, <1>2, OtherServersFit
<1>4. \A c \in Clients : GotFits(c)' /\ ClientFits(c)'
  BY <1>1, <1>2, OtherClientsFit
<1> QED BY <1>2, <1>3, <1>4 DEF StreamInv

(* A client's own steps touch nobody else's, and no bus.                   *)
LEMMA ClientStepsFit ==
  ASSUME S!Given, StreamInv, PassInv, [S!Next]_(S!vars), NEW c \in Clients,
         UNCHANGED <<status, revived, bus, passes, restarts>>,
         client' = [client EXCEPT ![c] = client'[c]], client'[c] \in ClientRecords,
         got' = [got EXCEPT ![c] = got'[c]],
         told' = [told EXCEPT ![c] = told'[c]], told'[c] \in BOOLEAN,
         missed' = [missed EXCEPT ![c] = missed'[c]], missed'[c] \in BOOLEAN,
         GotFits(c)', ClientFits(c)'
  PROVE  StreamInv'
<1>1. \A q \in Procs : ServerFits(q)'
  BY OtherServersFit DEF Over
<1>2. \A e \in Clients : e # c => GotFits(e)' /\ ClientFits(e)'
  <2> SUFFICES ASSUME NEW e \in Clients, e # c PROVE GotFits(e)' /\ ClientFits(e)'
    OBVIOUS
  <2>1. client'[e] = client[e] /\ got'[e] = got[e] /\ told'[e] = told[e] /\ missed'[e] = missed[e]
    BY DEF StreamInv
  <2>2. (Over => Over') /\ restarts' = restarts /\ \A q \in Servers : bus'[q] = bus[q]
    BY DEF Over
  <2> QED BY <2>1, <2>2, OtherClientsFit
<1>3. got'[c] \in Seq(S!Event)
  BY DEF GotFits
<1> QED BY <1>1, <1>2, <1>3 DEF StreamInv

(* What a client received is as before.                                    *)
LEMMA SameGot ==
  ASSUME StreamInv, NEW c \in Clients, UNCHANGED <<status, revived, bus, restarts>>, got'[c] = got[c],
         told'[c] => Over, missed'[c] => restarts > 0
  PROVE  GotFits(c)'
<1>1. GotFits(c)
  BY DEF StreamInv
<1> QED BY <1>1 DEF GotFits, NoGap, Over

(* A follower that leaves keeps what it got.                               *)
LEMMA LeavingFits ==
  ASSUME S!Given, StreamInv, PassInv, [S!Next]_(S!vars), NEW c \in Clients, S!Drop(c) \/ S!EndStream(c)
  PROVE  StreamInv'
<1>1. /\ client' = [client EXCEPT ![c] = S!Off] /\ UNCHANGED <<status, revived, bus, passes, got, missed, restarts>>
      /\ told' = told \/ (told' = [told EXCEPT ![c] = TRUE] /\ S!Finished(c))
  BY DEF S!Drop, S!EndStream
<1>2. client'[c] = S!Off /\ client' = [client EXCEPT ![c] = client'[c]]
  BY <1>1 DEF StreamInv
<1>3. /\ told' = [told EXCEPT ![c] = told'[c]] /\ told'[c] \in BOOLEAN
      /\ told'[c] => Over
  <2>1. CASE told' = told
    BY <2>1 DEF StreamInv, GotFits
  <2>2. CASE told' = [told EXCEPT ![c] = TRUE] /\ S!Finished(c)
    BY <2>2 DEF StreamInv, ClientFits, S!Finished, S!Terminal, Over
  <2> QED BY <1>1, <2>1, <2>2
<1>4. got' = [got EXCEPT ![c] = got'[c]] /\ missed' = [missed EXCEPT ![c] = missed'[c]] /\ missed'[c] \in BOOLEAN
  BY <1>1 DEF StreamInv
<1>5. GotFits(c)'
  <2>1. missed'[c] => restarts > 0
    BY <1>1 DEF StreamInv, GotFits
  <2> QED BY <1>1, <1>3, <2>1, SameGot
<1>6. ClientFits(c)'
  BY <1>2, OffIs DEF ClientFits
<1> QED BY <1>1, <1>2, <1>3, <1>4, <1>5, <1>6, OffIs, ClientStepsFit

(* A follower reads the status from the store only after it has drained    *)
(* its queue.                                                              *)
LEMMA StatusFits ==
  ASSUME S!Given, StreamInv, PassInv, [S!Next]_(S!vars), NEW c \in Clients, S!LoadStatus(c) \/ S!Heartbeat(c)
  PROVE  StreamInv'
<1> DEFINE r == client[c]
           r2 == client'[c]
<1>1. r \in ClientRecords /\ r.at # "off" /\ r # S!Off
  BY OffIs DEF StreamInv, S!LoadStatus, S!Heartbeat
<1>2. /\ r2 \in ClientRecords /\ r2.queue = r.queue /\ r2.after = r.after /\ r2.server = r.server
      /\ r2.backlog = r.backlog /\ r2.at # "off" /\ (r2.over = r.over \/ r2.over = (status \in S!Terminal))
      /\ client' = [client EXCEPT ![c] = r2] /\ UNCHANGED <<status, revived, bus, passes, got, told, missed, restarts>>
  <2> DEFINE over == status \in S!Terminal
  <2>0. over \in BOOLEAN
    BY SMT
  <2> HIDE DEF over
  <2>1. CASE S!LoadStatus(c)
    <3>1. client' = [client EXCEPT ![c] = [r EXCEPT !.at = "loop", !.over = over]]
      BY <2>1 DEF S!LoadStatus, StreamInv, over
    <3>2. r2 = [[r EXCEPT !.at = "loop"] EXCEPT !.over = over]
      BY <3>1 DEF StreamInv
    <3>3. [r EXCEPT !.at = "loop"] \in ClientRecords
      BY <1>1 DEF ClientRecords
    <3>4. r2 \in ClientRecords
      BY <2>0, <3>2, <3>3 DEF ClientRecords
    <3>5. /\ r2.queue = r.queue /\ r2.after = r.after /\ r2.server = r.server
          /\ r2.backlog = r.backlog /\ r2.at = "loop" /\ r2.over = over
      BY <1>1, <3>2 DEF ClientRecords
    <3> QED BY <2>1, <3>1, <3>4, <3>5 DEF S!LoadStatus, StreamInv, over
  <2>2. CASE S!Heartbeat(c)
    <3>1. client' = [client EXCEPT ![c] = [r EXCEPT !.at = "load"]] /\ r2 = [r EXCEPT !.at = "load"]
      BY <2>2 DEF S!Heartbeat, StreamInv
    <3>2. r2 \in ClientRecords
      BY <1>1, <3>1 DEF ClientRecords
    <3>3. /\ r2.queue = r.queue /\ r2.after = r.after /\ r2.server = r.server
          /\ r2.backlog = r.backlog /\ r2.at = "load" /\ r2.over = r.over
      BY <1>1, <3>1 DEF ClientRecords
    <3> QED BY <2>2, <3>1, <3>2, <3>3 DEF S!Heartbeat, StreamInv
  <2> QED BY <2>1, <2>2
<1>3. ClientFits(c) /\ Served(c)
  BY <1>1 DEF StreamInv, ClientFits
<1>4. Served(c)'
  <2>1. Follows(r2, bus[r.server], got[c], restarts = 0)
    <3>1. Follows(r, bus[r.server], got[c], restarts = 0)
      BY <1>3 DEF Served
    <3> QED BY <1>2, <3>1 DEF Follows
  <2>2. \A i \in 1..Len(r2.queue) : r2.queue[i].over => Over'
    BY <1>2, <1>3 DEF Served, Truthful, Over
  <2>3. /\ Numbers(r2.queue, r2.server, bus[r2.server].life, bus[r2.server].seq)
        /\ r2.server \in Servers /\ r2.backlog <= EventsKept
    BY <1>2, <1>3 DEF Served
  <2>4. bus' = bus /\ got' = got /\ restarts' = restarts /\ r2.server = r.server /\ r2.at # "off"
    BY <1>2
  <2> QED BY <2>1, <2>2, <2>3, <2>4 DEF Served, Truthful
<1>5. ClientFits(c)'
  <2>1. Over' = Over /\ (status \in S!Terminal => Over)
    BY <1>2 DEF Over, S!Terminal
  <2>2. r.over => Over'
    BY <1>3, <2>1 DEF ClientFits
  <2>3. CASE r2.over = r.over
    BY <1>4, <2>2, <2>3 DEF ClientFits
  <2>4. CASE r2.over = (status \in S!Terminal)
    <3>1. r2.over => Over'
      BY <2>1, <2>4
    <3> QED BY <1>4, <3>1 DEF ClientFits
  <2> QED BY <1>2, <2>3, <2>4
<1>6. GotFits(c)'
  <2>1. (told[c] => Over) /\ (missed[c] => restarts > 0)
    BY DEF StreamInv, GotFits
  <2> QED BY <1>2, <2>1, SameGot
<1>7. /\ got' = [got EXCEPT ![c] = got'[c]]
      /\ told' = [told EXCEPT ![c] = told'[c]] /\ told'[c] \in BOOLEAN
      /\ missed' = [missed EXCEPT ![c] = missed'[c]] /\ missed'[c] \in BOOLEAN
  BY <1>2 DEF StreamInv
<1> QED BY <1>2, <1>5, <1>6, <1>7, ClientStepsFit

(* A follower that connects is given what the bus kept since its last      *)
(* number.                                                                 *)
LEMMA ConnectFits ==
  ASSUME S!Given, StreamInv, PassInv, [S!Next]_(S!vars), NEW c \in Clients, NEW p \in Servers, S!Connect(c, p)
  PROVE  StreamInv'
<1> DEFINE r2 == [at |-> "load", server |-> p, queue |-> bus[p].kept, backlog |-> Len(bus[p].kept),
                  over |-> FALSE, after |-> S!LastEventId(c)]
<1>1. client' = [client EXCEPT ![c] = r2] /\ UNCHANGED <<status, revived, bus, passes, got, told, missed, restarts>>
  BY DEF S!Connect
<1>2. p \in Procs /\ ServerFits(p) /\ GotFits(c) /\ bus[p] \in Buses /\ got[c] \in Seq(S!Event)
  BY DEF S!Given, StreamInv
<1>3. S!LastEventId(c) \in Nat /\ S!LastEventId(c) = LastSeq(got[c])
  BY <1>2, LastIs, LastSeqFits
<1>4. Len(bus[p].kept) \in Nat /\ Len(bus[p].kept) <= EventsKept /\ bus[p].kept \in Seq(S!Event) /\ bus[p].seq \in Nat
  BY <1>2 DEF ServerFits, WellKept, Buses, S!Given
<1>5. /\ r2 \in ClientRecords /\ r2.at = "load" /\ r2.server = p /\ r2.queue = bus[p].kept
      /\ r2.backlog = Len(bus[p].kept) /\ r2.over = FALSE /\ r2.after = LastSeq(got[c])
  BY <1>2, <1>3, <1>4 DEF ClientRecords, S!None
<1> HIDE DEF r2
<1>6. client'[c] = r2 /\ client' = [client EXCEPT ![c] = client'[c]]
  BY <1>1 DEF StreamInv
<1>7. Follows(r2, bus[p], got[c], restarts = 0)
  <2>1. WellKept(bus[p], p) /\ Heard(bus[p], got[c], restarts = 0) /\ EventsKept \in Nat
    BY <1>2 DEF ServerFits, GotFits, S!Given
  <2> QED BY <1>2, <1>5, <2>1, ConnectFollows
<1>8. Served(c)'
  <2>1. Numbers(r2.queue, p, bus[p].life, bus[p].seq)
    BY <1>2, <1>5 DEF ServerFits, WellKept
  <2>2. \A i \in 1..Len(r2.queue) : r2.queue[i].over => Over'
    BY <1>1, <1>2, <1>5 DEF ServerFits, Truthful, Over
  <2>3. bus' = bus /\ got' = got /\ restarts' = restarts
    BY <1>1
  <2> QED BY <1>4, <1>5, <1>6, <1>7, <2>1, <2>2, <2>3 DEF Served, Truthful
<1>9. ClientFits(c)'
  BY <1>5, <1>6, <1>8 DEF ClientFits
<1>10. GotFits(c)'
  <2>1. (told[c] => Over) /\ (missed[c] => restarts > 0)
    BY DEF StreamInv, GotFits
  <2> QED BY <1>1, <2>1, SameGot
<1>11. /\ got' = [got EXCEPT ![c] = got'[c]]
       /\ told' = [told EXCEPT ![c] = told'[c]] /\ told'[c] \in BOOLEAN
       /\ missed' = [missed EXCEPT ![c] = missed'[c]] /\ missed'[c] \in BOOLEAN
  BY <1>1 DEF StreamInv
<1> QED BY <1>1, <1>5, <1>6, <1>9, <1>10, <1>11, ClientStepsFit

(* A follower takes its events in order, and skips what it had.            *)
LEMMA TakeFits ==
  ASSUME S!Given, StreamInv, PassInv, [S!Next]_(S!vars), NEW c \in Clients, S!Take(c)
  PROVE  StreamInv'
<1> DEFINE r  == client[c]
           p  == client[c].server
           b  == bus[client[c].server]
           g  == got[c]
           h  == Head(client[c].queue)
           r2 == [r EXCEPT !.queue = Tail(@), !.backlog = IF @ = 0 THEN 0 ELSE @ - 1]
           g2 == IF h.seq > r.after THEN Append(g, h) ELSE g
<1>1. /\ r.at = "loop" /\ r.queue # <<>> /\ r \in ClientRecords /\ r # S!Off
      /\ UNCHANGED <<status, revived, bus, passes, restarts>>
  BY OffIs DEF S!Take, StreamInv
<1>2. /\ p \in Servers /\ p \in Procs /\ Served(c) /\ ClientFits(c) /\ GotFits(c) /\ ServerFits(p)
      /\ b \in Buses /\ g \in Seq(S!Event) /\ r.after \in Nat /\ r.queue \in Seq(S!Event) /\ r.backlog \in Nat
      /\ WellKept(b, p) /\ Heard(b, g, restarts = 0) /\ EventsKept \in Nat
      /\ Numbers(r.queue, p, b.life, b.seq) /\ Follows(r, b, g, restarts = 0)
  <2>1. ClientFits(c) /\ GotFits(c) /\ Served(c)
    BY <1>1 DEF StreamInv, ClientFits
  <2>2. p \in Servers /\ p \in Procs
    BY <2>1 DEF Served, S!Given
  <2>3. ServerFits(p) /\ b \in Buses
    BY <2>2 DEF StreamInv
  <2>4. g \in Seq(S!Event) /\ r.after \in Nat /\ r.queue \in Seq(S!Event) /\ r.backlog \in Nat
    BY <1>1, <2>1 DEF GotFits, ClientRecords
  <2>5. WellKept(b, p) /\ Heard(b, g, restarts = 0) /\ EventsKept \in Nat
    BY <2>1, <2>2, <2>3 DEF ServerFits, GotFits, S!Given
  <2>6. Numbers(r.queue, p, b.life, b.seq) /\ Follows(r, b, g, restarts = 0)
    BY <2>1 DEF Served
  <2> QED BY <2>1, <2>2, <2>3, <2>4, <2>5, <2>6
<1>3. /\ r2 \in ClientRecords /\ r2.queue = Tail(r.queue) /\ r2.after = r.after /\ r2.server = p /\ r2.at = "loop"
      /\ r2.over = r.over /\ r2.backlog <= EventsKept
  <2>1. Tail(r.queue) \in Seq(S!Event)
    BY <1>1, <1>2
  <2>3. r.backlog <= EventsKept
    BY <1>2 DEF Served
  <2> DEFINE n == IF r.backlog = 0 THEN 0 ELSE r.backlog - 1
  <2>4. n \in Nat /\ n <= EventsKept
    BY <1>2, <2>3
  <2>5. /\ r2.queue = Tail(r.queue) /\ r2.after = r.after /\ r2.server = p /\ r2.at = "loop"
        /\ r2.over = r.over /\ r2.backlog = n
    BY <1>1 DEF ClientRecords
  <2>6. r2 \in ClientRecords
    BY <1>1, <2>1, <2>4 DEF ClientRecords
  <2> QED BY <2>4, <2>5, <2>6
<1>4. /\ got' = [got EXCEPT ![c] = g2] /\ got'[c] = g2
      /\ missed' = [missed EXCEPT ![c] = missed'[c]] /\ missed'[c] \in BOOLEAN
      /\ missed'[c] => missed[c] \/ (h.seq <= r.after /\ h \notin S!ToSet(g))
      /\ told' = [told EXCEPT ![c] = told'[c]] /\ told'[c] \in BOOLEAN
      /\ told'[c] => told[c] \/ h.over
  <2>1. h.seq \in Nat
    <3>1. h \in S!Event
      BY <1>1, <1>2
    <3> QED BY <3>1 DEF S!Event
  <2>2. CASE h.seq > r.after
    <3>1. got' = [got EXCEPT ![c] = g2] /\ missed' = missed
      BY <2>2 DEF S!Take, S!Fresh
    <3> QED BY <3>1, <2>2 DEF S!Take, StreamInv
  <2>3. CASE ~(h.seq > r.after)
    <3>1. got' = got /\ missed' = [missed EXCEPT ![c] = missed[c] \/ h \notin S!ToSet(g)]
      BY <2>3 DEF S!Take, S!Fresh
    <3>2. h.seq <= r.after
      BY <1>2, <2>1, <2>3
    <3> QED BY <3>1, <3>2, <2>3 DEF S!Take, StreamInv
  <2> QED BY <2>2, <2>3
<1>5. client' = [client EXCEPT ![c] = client'[c]] /\ (client'[c] = S!Off \/ client'[c] = r2)
  <2>1. client' = [client EXCEPT ![c] = IF h.over THEN S!Off ELSE r2]
    BY DEF S!Take
  <2>2. client'[c] = IF h.over THEN S!Off ELSE r2
    BY <2>1 DEF StreamInv
  <2> QED BY <2>1, <2>2
<1>6. /\ Follows(r2, b, g2, restarts = 0) /\ Heard(b, g2, restarts = 0) /\ Numbers(r2.queue, p, b.life, b.seq)
      /\ h.seq > r.after => LastSeq(g) < h.seq /\ (h.seq > LastSeq(g) + 1 => b.seq >= h.seq + EventsKept - 1)
      /\ h.seq <= r.after /\ restarts = 0 => In(h, g)
  <2>1. PICK buf, old, taken, head, rec, rec2, first :
              buf = b /\ old = g /\ taken = g2 /\ head = h /\ rec = r /\ rec2 = r2 /\ first = (restarts = 0)
    OBVIOUS
  <2>2. EventsKept \in Nat /\ WellKept(buf, p) /\ old \in Seq(S!Event) /\ Numbers(rec.queue, p, buf.life, buf.seq)
    BY <1>2, <2>1
  <2>3. Follows(rec, buf, old, first) /\ Heard(buf, old, first) /\ rec.after \in Nat
    BY <1>2, <2>1
  <2>4. rec.queue # <<>> /\ rec2.queue = Tail(rec.queue) /\ rec2.after = rec.after
    BY <1>1, <1>3, <2>1
  <2>5. head = Head(rec.queue) /\ taken = IF head.seq > rec.after THEN Append(old, head) ELSE old
    BY <2>1
  <2>6. /\ Follows(rec2, buf, taken, first) /\ Heard(buf, taken, first) /\ Numbers(rec2.queue, p, buf.life, buf.seq)
        /\ head.seq > rec.after => LastSeq(old) < head.seq /\ (head.seq > LastSeq(old) + 1 => buf.seq >= head.seq + EventsKept - 1)
        /\ head.seq <= rec.after /\ first => In(head, old)
    <3> HIDE DEF r, p, b, g, h, r2, g2
    <3> QED BY Zenon, <2>2, <2>3, <2>4, <2>5, TakeFollows
  <2> HIDE DEF r, p, b, g, h, r2, g2
  <2> QED BY <2>1, <2>6
<1>7. b.seq \in Nat
  BY <1>2 DEF Buses
<1>8. h = r.queue[1] /\ h \in S!Event /\ h.proc = p /\ h.life = b.life /\ Len(r.queue) > 0
  <2>1. h = Head(r.queue)
    OBVIOUS
  <2>0. PICK seq \in Nat : seq = b.seq
    BY <1>7
  <2>2. PICK q, life, proc : q = r.queue /\ life = b.life /\ proc = p
    OBVIOUS
  <2>3. Numbers(q, proc, life, seq) /\ q # <<>>
    BY <1>1, <1>2, <2>0, <2>2
  <2>4. Head(q) = q[1] /\ Head(q) \in S!Event /\ Head(q).proc = proc /\ Head(q).life = life /\ Len(q) > 0
    <3>1. q \in Seq(S!Event) /\ Len(q) > 0 /\ Len(q) <= seq
      BY <2>0, <2>3 DEF Numbers
    <3>2. Head(q) = q[1] /\ 1 \in 1..Len(q)
      BY <3>1
    <3>3. q[1] \in S!Event /\ q[1].proc = proc /\ q[1].life = life
      BY <2>3, <3>1, <3>2 DEF Numbers
    <3> QED BY <3>1, <3>2, <3>3
  <2> QED BY <2>1, <2>2, <2>4
<1>9. h.over => Over
  BY <1>2, <1>8 DEF Served, Truthful
<1>10. ClientFits(c)'
  <2>1. CASE client'[c] = S!Off
    BY <2>1, OffIs DEF ClientFits
  <2>2. CASE client'[c] = r2
    <3>1. \A i \in 1..Len(r2.queue) : r2.queue[i].over => Over'
      <4>1. Len(Tail(r.queue)) = Len(r.queue) - 1 /\ \A i \in 1..Len(Tail(r.queue)) : Tail(r.queue)[i] = r.queue[i + 1]
        BY <1>1, <1>2, <1>7, NumbersTail
      <4>2. \A i \in 1..Len(r.queue) : r.queue[i].over => Over
        BY <1>2 DEF Served, Truthful
      <4>3. Len(r.queue) \in Nat /\ \A i \in 1..Len(r2.queue) : i + 1 \in 1..Len(r.queue)
        BY <1>2, <1>3, <4>1
      <4>4. Over => Over'
        BY <1>1 DEF Over
      <4> QED BY <1>3, <4>1, <4>2, <4>3, <4>4
    <3>2. bus' = bus /\ got'[c] = g2 /\ restarts' = restarts /\ status' = status
      BY <1>1, <1>4
    <3> HIDE DEF r2, g2
    <3>3. Served(c)'
      BY <1>2, <1>3, <1>6, <2>2, <3>1, <3>2 DEF Served, Truthful
    <3> QED BY <1>1, <1>2, <1>3, <2>2, <3>2, <3>3 DEF ClientFits, Over
  <2> QED BY <1>5, <2>1, <2>2
<1>11. GotFits(c)'
  <2>1. told'[c] => Over'
    BY <1>1, <1>2, <1>4, <1>9 DEF GotFits, Over
  <2>2. missed'[c] => restarts' > 0
    <3>1. In(h, g) => h \in S!ToSet(g)
      BY <1>2 DEF In, S!ToSet
    <3>2. restarts \in Nat
      BY DEF StreamInv, S!Given
    <3>3. missed[c] => restarts > 0
      BY <1>2 DEF GotFits
    <3>4. h.seq <= r.after /\ h \notin S!ToSet(g) => restarts > 0
      <4> HIDE DEF h, r, g
      <4> QED BY <1>6, <3>1, <3>2
    <3> QED BY <1>1, <1>4, <3>3, <3>4
  <2>3. \A q \in Servers : Heard(bus'[q], got'[c], restarts' = 0)
    <3>1. \A q \in Servers : q = p
      BY <1>2 DEF S!Given
    <3> QED BY <1>1, <1>4, <1>6, <3>1
  <2>4. CASE ~(h.seq > r.after)
    <3>1. got'[c] = got[c]
      BY <1>4, <2>4
    <3> QED BY <1>1, <1>2, <2>1, <2>2, <2>3, <3>1 DEF GotFits, NoGap
  <2>5. CASE h.seq > r.after
    <3>1. /\ g2 \in Seq(S!Event) /\ Len(g2) = Len(g) + 1 /\ Len(g) \in Nat /\ g2[Len(g) + 1] = h
          /\ \A i \in 1..Len(g) : g2[i] = g[i]
      BY <1>2, <1>8, <2>5
    <3>2. got'[c] = g2 /\ bus' = bus /\ status' = status /\ restarts' = restarts
      BY <1>1, <1>4
    <3>3. g # <<>> => LastSeq(g) = g[Len(g)].seq /\ Len(g) > 0
      BY <1>2 DEF LastSeq
    <3>4. \A i \in 1..Len(g) : g[i].seq \in Nat
      <4>1. \A i \in 1..Len(g) : g[i] \in S!Event
        BY <1>2
      <4> QED BY <4>1 DEF S!Event
    <3>5. \A i \in 1..Len(g) : g[i].seq < h.seq
      <4> SUFFICES ASSUME NEW i \in 1..Len(g) PROVE g[i].seq < h.seq
        OBVIOUS
      <4>1. g[i].seq <= LastSeq(g)
        <5>1. CASE i = Len(g)
          BY <3>1, <3>3, <3>4, <5>1
        <5>2. CASE i # Len(g)
          <6>1. i < Len(g) /\ Len(g) \in 1..Len(g)
            BY <3>1, <5>2
          <6>2. g[i].seq < g[Len(g)].seq
            BY <1>2, <6>1 DEF GotFits
          <6> QED BY SMT, <3>1, <3>3, <3>4, <6>1, <6>2
        <5> QED BY <5>1, <5>2
      <4>2. LastSeq(g) < h.seq /\ LastSeq(g) \in Nat /\ h.seq \in Nat
        BY Zenon, <1>2, <1>6, <1>8, <2>5, LastSeqFits DEF S!Event
      <4> QED BY <3>4, <4>1, <4>2
    <3>6. \A i \in 1..Len(g2) : g2[i].proc \in Servers /\ g2[i].life <= bus[g2[i].proc].life
      <4> SUFFICES ASSUME NEW i \in 1..Len(g2) PROVE g2[i].proc \in Servers /\ g2[i].life <= bus[g2[i].proc].life
        OBVIOUS
      <4>1. CASE i \in 1..Len(g)
        BY <1>2, <3>1, <4>1 DEF GotFits
      <4>2. CASE i = Len(g) + 1
        <5>1. b.life \in Nat
          BY <1>2 DEF Buses
        <5> QED BY SMT, <1>2, <1>8, <3>1, <4>2, <5>1
      <4> QED BY <3>1, <4>1, <4>2
    <3>7. \A i, j \in 1..Len(g2) : i < j => g2[i].seq < g2[j].seq
      <4> SUFFICES ASSUME NEW i \in 1..Len(g2), NEW j \in 1..Len(g2), i < j PROVE g2[i].seq < g2[j].seq
        OBVIOUS
      <4>1. i \in 1..Len(g) /\ g2[i] = g[i]
        BY <3>1
      <4>2. CASE j \in 1..Len(g)
        BY <1>2, <3>1, <4>1, <4>2 DEF GotFits
      <4>3. CASE j = Len(g) + 1
        BY <3>1, <3>5, <4>1, <4>3
      <4> QED BY <3>1, <4>2, <4>3
    <3>8. NoGap(c)'
      <4> SUFFICES ASSUME NEW i \in 2..Len(g2), g2[i].life = g2[i - 1].life, bus[g2[i].proc].life = g2[i].life,
                          g2[i].seq > g2[i - 1].seq + 1
                   PROVE  bus[g2[i].proc].seq >= g2[i].seq + EventsKept - 1
        BY Zenon, <3>2 DEF NoGap
      <4>1. CASE i \in 2..Len(g)
        <5>1. g2[i] = g[i] /\ g2[i - 1] = g[i - 1]
          BY <3>1, <4>1
        <5>2. NoGap(c)
          BY <1>2 DEF GotFits
        <5> QED BY <4>1, <5>1, <5>2 DEF NoGap
      <4>2. CASE i = Len(g) + 1
        <5>1. g2[i] = h /\ g2[i - 1] = g[Len(g)] /\ g # <<>>
          BY <3>1, <4>2
        <5>2. LastSeq(g) = g2[i - 1].seq
          BY <3>3, <5>1
        <5> QED BY Zenon, <1>6, <1>8, <2>5, <5>1, <5>2
      <4> QED BY <3>1, <4>1, <4>2
    <3> HIDE DEF g2
    <3> QED BY <2>1, <2>2, <2>3, <3>1, <3>2, <3>6, <3>7, <3>8 DEF GotFits
  <2> QED BY <2>4, <2>5
<1>12. client'[c] \in ClientRecords
  BY <1>3, <1>5, OffIs
<1>13. got' = [got EXCEPT ![c] = got'[c]]
  BY <1>4
<1> QED BY <1>1, <1>4, <1>5, <1>10, <1>11, <1>12, <1>13, ClientStepsFit

(* An event is kept by the bus and queued for every follower.              *)
LEMMA EmitFits ==
  ASSUME S!Given, StreamInv, PassInv, [S!Next]_(S!vars), NEW t \in Passes, S!Emit(t)
  PROVE  StreamInv'
<1> DEFINE p  == HostOf[t]
           b  == bus[p]
           e  == [proc |-> p, life |-> bus[p].life, seq |-> bus[p].seq + 1, over |-> passes[t].emit \in S!Terminal]
           b2 == [life |-> b.life, seq |-> b.seq + 1, kept |-> S!Kept(Append(b.kept, e))]
<1>0. p \in Procs
  BY DEF S!Given
<1>1. /\ passes[t].at = "emit" /\ UNCHANGED <<status, revived, got, told, missed, message, restarts>>
      /\ bus' = [bus EXCEPT ![p].seq = @ + 1, ![p].kept = S!Kept(Append(@, e))]
      /\ client' = [c \in Clients |-> IF client[c].server = p
                                      THEN [client[c] EXCEPT !.queue = Append(@, e)] ELSE client[c]]
  BY DEF S!Emit
<1> HIDE DEF p
<1>2. b \in Buses /\ ServerFits(p) /\ WellKept(b, p) /\ EventsKept \in Nat /\ b.seq \in Nat /\ b.life \in Nat
  BY <1>0 DEF StreamInv, ServerFits, WellKept, Buses, S!Given
<1>3. /\ e \in S!Event /\ e.proc = p /\ e.life = b.life /\ e.seq = b.seq + 1
      /\ e.over => Over
  <2>1. passes[t].emit \in S!Terminal => Over
    BY <1>1 DEF PassInv, S!Terminal
  <2>2. b.life \in 0..MaxRestarts
    BY <1>2 DEF ServerFits, StreamInv, S!Given
  <2>3. e \in S!Event
    BY <1>0, <1>2, <2>2 DEF S!Event
  <2> QED BY <2>1, <2>3
<1>4. bus'[p] = b2 /\ bus' = [bus EXCEPT ![p] = b2]
  <2>1. b = [life |-> b.life, seq |-> b.seq, kept |-> b.kept]
    BY <1>2 DEF Buses
  <2> DEFINE k == S!Kept(Append(b.kept, e))
  <2>2. bus' = [bus EXCEPT ![p].seq = @ + 1, ![p].kept = k]
    BY <1>1
  <2> HIDE DEF e, k
  <2>3. bus' = [bus EXCEPT ![p] = [[b EXCEPT !.seq = b.seq + 1] EXCEPT !.kept = k]]
    BY <2>2 DEF StreamInv
  <2>4. [[b EXCEPT !.seq = b.seq + 1] EXCEPT !.kept = k] = [life |-> b.life, seq |-> b.seq + 1, kept |-> k]
    <3>1. PICK x : x = [b EXCEPT !.seq = b.seq + 1]
      OBVIOUS
    <3>2. x = [life |-> b.life, seq |-> b.seq + 1, kept |-> b.kept]
      BY <2>1, <3>1
    <3>3. [x EXCEPT !.kept = k] = [life |-> b.life, seq |-> b.seq + 1, kept |-> k]
      BY <3>2
    <3> QED BY <3>1, <3>3
  <2>5. p \in DOMAIN bus
    BY <1>0 DEF StreamInv
  <2> QED BY <2>3, <2>4, <2>5 DEF k
<1> HIDE DEF e
<1>5. /\ WellKept(b2, p) /\ b2.life = b.life /\ b2.seq = b.seq + 1
      /\ \A i \in 1..Len(b2.kept) : b2.kept[i] = e \/ In(b2.kept[i], b.kept)
      /\ \A g \in Seq(S!Event) : \A first : Heard(b, g, first) => Heard(b2, g, first)
  <2>1. PICK buf, kept, buf2 : buf = b /\ kept = S!Kept(Append(b.kept, e)) /\ buf2 = b2
    OBVIOUS
  <2>2. WellKept(buf, p) /\ e.proc = p /\ e.life = buf.life /\ e.seq = buf.seq + 1 /\ e \in S!Event /\ EventsKept \in Nat
    BY <1>2, <1>3, <2>1
  <2>3. kept = S!Kept(Append(buf.kept, e)) /\ buf2 = [life |-> buf.life, seq |-> buf.seq + 1, kept |-> kept]
    BY <2>1
  <2>4. /\ WellKept(buf2, p) /\ buf2.life = buf.life /\ buf2.seq = buf.seq + 1
        /\ \A i \in 1..Len(buf2.kept) : buf2.kept[i] = e \/ In(buf2.kept[i], buf.kept)
        /\ \A g \in Seq(S!Event) : \A first : Heard(buf, g, first) => Heard(buf2, g, first)
    BY <2>2, <2>3, EmitFollows
  <2> QED BY <2>1, <2>4
<1> HIDE DEF b2
<1>6. b2 \in Buses
  BY <1>5 DEF WellKept
<1>7. \A q \in Procs : ServerFits(q)'
  <2> SUFFICES ASSUME NEW q \in Procs PROVE ServerFits(q)'
    OBVIOUS
  <2>1. CASE q # p
    <3>1. bus'[q] = bus[q]
      BY <1>4, <2>1 DEF StreamInv
    <3> QED BY <1>1, <3>1, OtherServersFit DEF Over
  <2>2. CASE q = p
    <3>1. b2.life <= restarts
      BY <1>2, <1>5 DEF ServerFits
    <3>2. \A i \in 1..Len(b2.kept) : b2.kept[i].over => Over
      <4>1. \A i \in 1..Len(b.kept) : b.kept[i].over => Over
        BY <1>2 DEF ServerFits, Truthful
      <4> QED BY <1>3, <1>5, <4>1 DEF In
    <3> QED BY <1>1, <1>4, <1>5, <2>2, <3>1, <3>2 DEF ServerFits, Truthful, Over
  <2> QED BY <2>1, <2>2
<1>8. ASSUME NEW c \in Clients PROVE GotFits(c)' /\ client'[c] \in ClientRecords /\ ClientFits(c)'
  <2>1. GotFits(c) /\ ClientFits(c) /\ client[c] \in ClientRecords /\ got[c] \in Seq(S!Event)
    BY DEF StreamInv
  <2>2. \A q \in Procs : bus'[q].life = bus[q].life /\ bus'[q].seq >= bus[q].seq /\ bus[q].seq \in Nat
                         /\ bus'[q].seq \in Nat
    <3> SUFFICES ASSUME NEW q \in Procs
                 PROVE  bus'[q].life = bus[q].life /\ bus'[q].seq >= bus[q].seq /\ bus[q].seq \in Nat
                        /\ bus'[q].seq \in Nat
      OBVIOUS
    <3>1. bus[q].seq \in Nat
      BY DEF StreamInv, Buses
    <3>2. CASE q = p
      BY <1>2, <1>4, <1>5, <3>2
    <3>3. CASE q # p
      BY <1>4, <3>1, <3>3 DEF StreamInv
    <3> QED BY <3>2, <3>3
  <2>3. \A q \in Servers : q \in Procs /\ Heard(bus'[q], got[c], restarts = 0)
    <3> SUFFICES ASSUME NEW q \in Servers PROVE q \in Procs /\ Heard(bus'[q], got[c], restarts = 0)
      OBVIOUS
    <3>1. q \in Procs /\ Heard(bus[q], got[c], restarts = 0)
      BY <2>1 DEF GotFits, S!Given
    <3>2. CASE q = p
      BY <1>4, <1>5, <2>1, <3>1, <3>2
    <3>3. CASE q # p
      BY <1>4, <3>1, <3>3 DEF StreamInv
    <3> QED BY <3>1, <3>2, <3>3
  <2>4. \A i \in 1..Len(got[c]) : got[c][i].proc \in Servers /\ got[c][i].proc \in Procs
    BY <2>1, <2>3 DEF GotFits
  <2>5. NoGap(c)'
    <3> SUFFICES ASSUME NEW i \in 2..Len(got[c]), got[c][i].life = got[c][i - 1].life,
                        bus'[got[c][i].proc].life = got[c][i].life, got[c][i].seq > got[c][i - 1].seq + 1
                 PROVE  bus'[got[c][i].proc].seq >= got[c][i].seq + EventsKept - 1
      BY <1>1 DEF NoGap
    <3>1. i \in 1..Len(got[c]) /\ got[c][i].proc \in Procs /\ got[c][i] \in S!Event
      BY <2>1, <2>4
    <3>2. bus[got[c][i].proc].seq >= got[c][i].seq + EventsKept - 1
      BY <2>1, <2>2, <3>1 DEF GotFits, NoGap
    <3>3. got[c][i].seq \in Nat /\ EventsKept \in Nat
      BY <1>2, <3>1 DEF S!Event
    <3>4. PICK m \in Nat, n \in Nat, k \in Nat :
             m = bus[got[c][i].proc].seq /\ n = bus'[got[c][i].proc].seq /\ k = got[c][i].seq
      BY <2>2, <3>1, <3>3
    <3>5. n >= m /\ m >= k + EventsKept - 1
      BY <2>2, <3>1, <3>2, <3>4
    <3>6. n >= k + EventsKept - 1
      BY <3>3, <3>5
    <3> QED BY <3>4, <3>6
  <2>6. GotFits(c)'
    <3>1. \A i \in 1..Len(got[c]) : got[c][i].life <= bus'[got[c][i].proc].life
      BY <2>1, <2>2, <2>4 DEF GotFits
    <3>2. \A i, j \in 1..Len(got[c]) : i < j => got[c][i].seq < got[c][j].seq
      BY <2>1 DEF GotFits
    <3>3. (told[c] => Over) /\ (missed[c] => restarts > 0)
      BY <2>1 DEF GotFits
    <3>4. told'[c] => Over'
      BY <1>1, <3>3 DEF Over
    <3> QED BY <1>1, <2>1, <2>3, <2>4, <2>5, <3>1, <3>2, <3>3, <3>4 DEF GotFits
  <2>7. CASE client[c].server # p
    <3>1. client'[c] = client[c]
      BY <1>1, <2>7
    <3>2. Served(c) => Served(c)'
      <4> SUFFICES ASSUME Served(c) PROVE Served(c)'
        OBVIOUS
      <4>1. client[c].server \in Procs /\ bus'[client[c].server] = bus[client[c].server]
        BY <1>4, <2>3, <2>7 DEF Served, StreamInv
      <4> QED BY <1>1, <3>1, <4>1 DEF Served, Truthful, Over
    <3> QED BY <1>1, <2>1, <2>6, <3>1, <3>2 DEF ClientFits, Over
  <2>8. CASE client[c].server = p
    <3> DEFINE r  == client[c]
               r2 == [client[c] EXCEPT !.queue = Append(@, e)]
    <3>1. client'[c] = r2 /\ Served(c)
      <4>1. client[c] # S!Off
        BY <1>0, <2>8, OffIs
      <4> QED BY <1>1, <2>1, <2>8, <4>1 DEF ClientFits
    <3>2. /\ r.queue \in Seq(S!Event) /\ r.after \in Nat /\ Numbers(r.queue, p, b.life, b.seq)
          /\ Follows(r, b, got[c], restarts = 0) /\ Heard(b, got[c], restarts = 0)
      <4>1. p \in Servers
        BY <2>8, <3>1 DEF Served
      <4> QED BY <2>1, <2>8, <3>1, <4>1 DEF Served, GotFits, ClientRecords
    <3>3. /\ r2 \in ClientRecords /\ r2.queue = Append(r.queue, e) /\ r2.after = r.after /\ r2.server = p
          /\ r2.at = r.at /\ r2.over = r.over /\ r2.backlog = r.backlog
      <4>1. Append(r.queue, e) \in Seq(S!Event)
        BY <1>3, <3>2
      <4> QED BY <2>1, <2>8, <4>1 DEF ClientRecords
    <3> HIDE DEF r2
    <3>4. Follows(r2, b2, got[c], restarts = 0) /\ Numbers(r2.queue, p, b2.life, b2.seq)
      <4>1. PICK buf, buf2, rec, rec2, old, first :
               buf = b /\ buf2 = b2 /\ rec = r /\ rec2 = r2 /\ old = got[c] /\ first = (restarts = 0)
        OBVIOUS
      <4>2. /\ WellKept(buf, p) /\ e.proc = p /\ e.life = buf.life /\ e.seq = buf.seq + 1 /\ e \in S!Event
            /\ EventsKept \in Nat /\ buf2.seq = buf.seq + 1 /\ buf2.life = buf.life
        BY <1>2, <1>3, <1>5, <4>1
      <4>3. \A i \in 1..Len(buf2.kept) : buf2.kept[i] = e \/ In(buf2.kept[i], buf.kept)
        BY <1>5, <4>1
      <4>4. /\ old \in Seq(S!Event) /\ Numbers(rec.queue, p, buf.life, buf.seq) /\ Follows(rec, buf, old, first)
            /\ Heard(buf, old, first) /\ rec.after \in Nat
        BY <2>1, <3>2, <4>1
      <4>5. rec2.queue = Append(rec.queue, e) /\ rec2.after = rec.after
        BY <3>3, <4>1
      <4>6. Follows(rec2, buf2, old, first) /\ Numbers(rec2.queue, p, buf2.life, buf2.seq)
        <5> HIDE DEF r
        <5> QED BY <4>2, <4>3, <4>4, <4>5, EmitQueued
      <4> QED BY <4>1, <4>6
    <3>5. \A i \in 1..Len(r2.queue) : r2.queue[i].over => Over
      <4>1. \A i \in 1..Len(r.queue) : r.queue[i].over => Over
        BY <3>1 DEF Served, Truthful
      <4>2. /\ Len(r2.queue) = Len(r.queue) + 1 /\ Len(r.queue) \in Nat
            /\ \A i \in 1..Len(r.queue) + 1 : r2.queue[i] = IF i = Len(r.queue) + 1 THEN e ELSE r.queue[i]
        BY <1>3, <3>2, <3>3
      <4>3. \A i \in 1..Len(r.queue) + 1 : i # Len(r.queue) + 1 => i \in 1..Len(r.queue)
        BY <4>2
      <4> QED BY <1>3, <4>1, <4>2, <4>3
    <3>6. bus'[p] = b2 /\ got' = got /\ restarts' = restarts /\ status' = status
      BY <1>1, <1>4
    <3>7. p \in Servers /\ r.at # "off" /\ r.backlog <= EventsKept
      BY <2>8, <3>1 DEF Served
    <3>8. Served(c)'
      <4>1. Over => Over'
        BY <1>1 DEF Over
      <4> QED BY <3>1, <3>3, <3>4, <3>5, <3>6, <3>7, <4>1 DEF Served, Truthful
    <3>9. ClientFits(c)'
      BY <1>1, <2>1, <3>1, <3>3, <3>6, <3>8 DEF ClientFits, Over
    <3> QED BY <2>6, <3>1, <3>3, <3>9
  <2> QED BY <2>7, <2>8
<1>9. bus' \in [Procs -> Buses]
  BY <1>4, <1>6 DEF StreamInv
<1>10. client' \in [Clients -> ClientRecords]
  BY <1>1, <1>8
<1> QED BY <1>1, <1>7, <1>8, <1>9, <1>10 DEF StreamInv

(* A restart empties the bus and drops its followers, who keep what they   *)
(* got.                                                                    *)
LEMMA RestartFits ==
  ASSUME S!Given, StreamInv, PassInv, [S!Next]_(S!vars), NEW p \in Servers, S!Restart(p)
  PROVE  StreamInv'
<1> DEFINE b  == bus[p]
           b2 == [life |-> bus[p].life + 1, seq |-> 0, kept |-> <<>>]
<1>1. /\ restarts \in Nat /\ restarts' = restarts + 1 /\ restarts' \in 0..MaxRestarts
      /\ bus' = [bus EXCEPT ![p] = b2] /\ p \in Procs
      /\ client' = [c \in Clients |-> IF client[c].server = p THEN S!Off ELSE client[c]]
      /\ UNCHANGED <<status, revived, got, told, missed>>
  BY DEF S!Restart, StreamInv, S!Given
<1>2. b \in Buses /\ b.life \in Nat /\ b.life <= restarts
  BY <1>1 DEF StreamInv, ServerFits, Buses
<1>3. <<>> \in Seq(S!Event) /\ Len(<<>>) = 0
  OBVIOUS
<1>4. /\ b2 \in Buses /\ b2.life = b.life + 1 /\ b2.seq = 0 /\ b2.kept = <<>> /\ bus'[p] = b2
      /\ \A q \in Procs : q # p => bus'[q] = bus[q]
  BY <1>1, <1>2, <1>3 DEF Buses, StreamInv
<1> HIDE DEF b2
<1>5. \A q \in Procs : ServerFits(q)'
  <2> SUFFICES ASSUME NEW q \in Procs PROVE ServerFits(q)'
    OBVIOUS
  <2>1. CASE q = p
    <3>1. WellKept(b2, p)
      BY <1>3, <1>4 DEF WellKept, Numbers, S!Given
    <3>2. b2.life <= restarts'
      BY <1>1, <1>2, <1>4
    <3> QED BY <1>3, <1>4, <2>1, <3>1, <3>2 DEF ServerFits, Truthful
  <2>2. CASE q # p
    <3>1. ServerFits(q) /\ bus[q].life \in Nat
      BY DEF StreamInv, Buses
    <3>2. bus'[q] = bus[q] /\ (Over => Over') /\ bus[q].life <= restarts'
      BY <1>1, <1>4, <2>2, <3>1 DEF ServerFits, Over
    <3> QED BY <3>1, <3>2 DEF ServerFits, Truthful
  <2> QED BY <2>1, <2>2
<1>6. ASSUME NEW c \in Clients PROVE GotFits(c)' /\ client'[c] \in ClientRecords /\ ClientFits(c)'
  <2>1. GotFits(c) /\ ClientFits(c) /\ client[c] \in ClientRecords /\ got[c] \in Seq(S!Event)
    BY DEF StreamInv
  <2>2. restarts' # 0 /\ restarts' > 0
    BY <1>1
  <2>3. ASSUME NEW i \in 1..Len(got[c])
        PROVE  /\ got[c][i].proc \in Servers /\ got[c][i].life <= bus'[got[c][i].proc].life
               /\ bus'[got[c][i].proc].life = got[c][i].life => bus'[got[c][i].proc] = bus[got[c][i].proc]
    <3>1. got[c][i].proc \in Servers /\ got[c][i].life <= bus[got[c][i].proc].life /\ got[c][i].life \in Nat
      <4>1. got[c][i] \in S!Event /\ MaxRestarts \in Nat
        BY <2>1 DEF S!Given
      <4>2. got[c][i].life \in Nat
        BY <4>1 DEF S!Event
      <4> QED BY <2>1, <4>2 DEF GotFits
    <3>2. got[c][i].proc \in Procs
      BY <3>1 DEF S!Given
    <3>3. CASE got[c][i].proc = p
      <4>1. got[c][i].life <= b.life /\ bus'[p].life = b.life + 1
        BY <1>4, <3>1, <3>3
      <4>2. got[c][i].life < bus'[p].life
        BY <1>2, <3>1, <4>1
      <4>3. got[c][i].life <= bus'[p].life /\ got[c][i].life # bus'[p].life
        BY <1>2, <3>1, <4>1
      <4> QED BY <3>1, <3>3, <4>3
    <3>4. CASE got[c][i].proc # p
      <4>1. bus'[got[c][i].proc] = bus[got[c][i].proc]
        BY <1>4, <3>2, <3>4
      <4>2. bus'[got[c][i].proc].life = bus[got[c][i].proc].life
        BY <4>1
      <4> QED BY <3>1, <4>1, <4>2
    <3> QED BY <3>3, <3>4
  <2>4. NoGap(c)'
    <3> SUFFICES ASSUME NEW i \in 2..Len(got[c]), got[c][i].life = got[c][i - 1].life,
                        bus'[got[c][i].proc].life = got[c][i].life, got[c][i].seq > got[c][i - 1].seq + 1
                 PROVE  bus'[got[c][i].proc].seq >= got[c][i].seq + EventsKept - 1
      BY <1>1 DEF NoGap
    <3>1. i \in 1..Len(got[c])
      BY <2>1
    <3>2. bus'[got[c][i].proc] = bus[got[c][i].proc]
      BY <2>3, <3>1
    <3> QED BY <2>1, <3>2 DEF GotFits, NoGap
  <2>5. GotFits(c)'
    <3>1. \A i, j \in 1..Len(got[c]) : i < j => got[c][i].seq < got[c][j].seq
      BY <2>1 DEF GotFits
    <3>2. told'[c] => Over'
      BY <1>1, <2>1 DEF GotFits, Over
    <3>3. \A q \in Servers : Heard(bus'[q], got[c], restarts' = 0)
      BY <2>2 DEF Heard
    <3> QED BY <1>1, <2>1, <2>2, <2>3, <2>4, <3>1, <3>2, <3>3 DEF GotFits
  <2>6. CASE client'[c] = S!Off
    BY <2>5, <2>6, OffIs DEF ClientFits
  <2>7. CASE client'[c] # S!Off
    <3>1. client[c].server # p /\ client'[c] = client[c] /\ Served(c)
      BY <1>1, <2>1, <2>7 DEF ClientFits
    <3>2. client[c].server \in Procs /\ bus'[client[c].server] = bus[client[c].server]
      BY <1>4, <3>1 DEF Served, S!Given
    <3>3. Follows(client[c], bus[client[c].server], got[c], restarts' = 0)
      BY <2>2, <3>1 DEF Served, Follows
    <3>4. Served(c)'
      BY <1>1, <3>1, <3>2, <3>3 DEF Served, Truthful, Over
    <3> QED BY <1>1, <2>1, <2>5, <3>1, <3>4 DEF ClientFits, Over
  <2> QED BY <2>6, <2>7
<1>7. bus' \in [Procs -> Buses]
  BY <1>1, <1>4 DEF StreamInv
<1>8. client' \in [Clients -> ClientRecords]
  BY <1>1, <1>6
<1> QED BY <1>1, <1>5, <1>6, <1>7, <1>8 DEF StreamInv

(* The invariants say what is promised to followers.                       *)
LEMMA StreamInvShows == S!Given /\ PassInv /\ StreamInv => S!TypeOK /\ S!FollowersSeeTheRun
<1> SUFFICES ASSUME S!Given, PassInv, StreamInv PROVE S!TypeOK /\ S!FollowersSeeTheRun
  OBVIOUS
<1>1. ASSUME NEW p \in Procs
      PROVE  bus[p].seq \in Nat /\ bus[p].kept \in Seq(S!Event) /\ Len(bus[p].kept) <= EventsKept
  <2>1. ServerFits(p) /\ bus[p] \in Buses /\ EventsKept \in Nat
    BY DEF StreamInv, S!Given
  <2> QED BY <2>1 DEF ServerFits, WellKept, Buses
<1>2. ASSUME NEW c \in Clients
      PROVE  /\ client[c].at \in {"off", "load", "loop"} /\ client[c].queue \in Seq(S!Event)
             /\ client[c].backlog <= EventsKept /\ got[c] \in Seq(S!Event)
  <2>1. client[c] \in ClientRecords /\ got[c] \in Seq(S!Event)
    BY DEF StreamInv
  <2>2. client[c].backlog <= EventsKept
    <3>1. CASE client[c] = S!Off
      BY <3>1, OffIs DEF S!Given
    <3>2. CASE client[c] # S!Off
      BY <3>2 DEF StreamInv, ClientFits, Served
    <3> QED BY <3>1, <3>2
  <2> QED BY <2>1, <2>2 DEF ClientRecords
<1>3. S!TypeOK
  BY <1>1, <1>2, TasksAre DEF S!TypeOK, PassInv, StreamInv
<1>4. ASSUME NEW c \in Clients PROVE DOMAIN got[c] = 1..Len(got[c]) /\ GotFits(c)
  BY DEF StreamInv
<1>5. S!InOrderOnce
  BY <1>4 DEF S!InOrderOnce, GotFits
<1>6. S!SkippedWasSeen /\ S!EndIsTrue
  BY <1>4 DEF S!SkippedWasSeen, S!EndIsTrue, GotFits, S!Terminal, Over
<1>7. S!NoGapButForgotten
  BY <1>4 DEF S!NoGapButForgotten, GotFits, NoGap
<1>8. S!MessageTellsTheEnd
  BY DEF S!MessageTellsTheEnd, PassInv
<1> QED BY <1>3, <1>5, <1>6, <1>7, <1>8 DEF S!FollowersSeeTheRun

(* Followers see the run, whoever connects, drops and restarts             *)
(* (surfaces/sse.py).                                                      *)
LEMMA FollowersHold ==
  ASSUME S!Given
  PROVE  S!Spec => [](S!TypeOK /\ S!FollowersSeeTheRun)
<1>1. S!Init => PassInv /\ StreamInv
  BY PassStarts, StreamsStart
<1>2. (PassInv /\ StreamInv) /\ [S!Next]_(S!vars) => (PassInv /\ StreamInv)'
  <2> SUFFICES ASSUME PassInv, StreamInv, [S!Next]_(S!vars) PROVE PassInv' /\ StreamInv'
    OBVIOUS
  <2>1. ASSUME NEW t \in Passes, S!PassStep(t) PROVE StreamInv'
    BY <2>1, PassStepsFit, EmitFits DEF S!PassStep
  <2>2. ASSUME NEW c \in Clients, S!StreamStep(c) PROVE StreamInv'
    BY <2>2, StatusFits, LeavingFits, TakeFits DEF S!StreamStep
  <2>3. ASSUME NEW c \in Clients, S!Drop(c) \/ \E p \in Servers : S!Connect(c, p) PROVE StreamInv'
    BY <2>3, LeavingFits, ConnectFits
  <2>4. ASSUME NEW p \in Servers, S!Restart(p) PROVE StreamInv'
    BY <2>4, RestartFits
  <2>5. ASSUME UNCHANGED S!vars PROVE StreamInv'
    <3>1. \A q \in Procs : ServerFits(q)'
      BY <2>5, OtherServersFit DEF S!vars, Over
    <3>2. \A c \in Clients : GotFits(c)' /\ ClientFits(c)'
      BY <2>5, OtherClientsFit DEF S!vars, Over
    <3> QED BY <2>5, <3>1, <3>2 DEF S!vars, StreamInv
  <2>6. StreamInv'
    BY <2>1, <2>2, <2>3, <2>4, <2>5 DEF S!Next
  <2>7. PassInv'
    BY PassKeeps
  <2> QED BY <2>6, <2>7
<1>3. PassInv /\ StreamInv => S!TypeOK /\ S!FollowersSeeTheRun
  BY StreamInvShows
<1> QED BY <1>1, <1>2, <1>3, PTL DEF S!Spec

(* Followers are shown what is true and in order, whoever connects, drops  *)
(* and restarts (surfaces/sse.py, rail/events.py).                         *)
THEOREM FollowersKept ==
  ASSUME S!Given
  PROVE  ServicesSpec => []FollowersSeeTheRun
  BY EachKeepsItsOwn, FollowersHold, PTL DEF FollowersSeeTheRun

-----------------------------------------------------------------------------
(* Every variable of every service keeps its type.                         *)
THEOREM TypesHold ==
  ASSUME S!Given, R!Given, Q!Given, V!Given, H!Given, L!RateOK
  PROVE  ServicesSpec => []TypesOK
<1>1. L!Spec => [](L!TypeOK /\ L!WithinTheRate)
  BY RateIsKept
<1> QED BY <1>1, EachKeepsItsOwn, DecidingIsSafe, FollowersHold, BudgetsAreKept, AnswersHold,
           PhoneHolds, HelpdeskHolds, PTL DEF TypesOK
=============================================================================
