------------------------ MODULE StreamingDisplayProofs ------------------------
(***************************************************************************)
(* Proofs about StreamingDisplay, for every channel limit, every length of *)
(* the texts and any number of provider responses.                         *)
(***************************************************************************)
EXTENDS StreamingDisplay, SequenceTheorems, TLAPS

\* The messages that have been rolled over: all but the current one.
Kept == IF messageId = 0 THEN Len(shown) ELSE Len(shown) - 1

\* Until a call fails, the messages that were rolled over hold the characters up
\* to committed, one message after the other, whatever texts they are of; and of
\* the latest text there is more than they show.
Placed ==
    /\ committed = IF Kept = 0 THEN 0 ELSE shown[Kept].to
    /\ \A m \in 1..Kept :
           /\ shown[m].from = IF m = 1 THEN 1 ELSE shown[m - 1].to + 1
           /\ shown[m].to <= committed
           /\ shown[m].text = latest.text => shown[m].to < latest.len
    /\ \A m, n \in 1..Kept : m < n => shown[m].to < shown[n].from

\* The current message is the last one and shows what the display believes it
\* shows; a send is of the message after it, an edit is of the message itself,
\* and there is never one of each.
Current ==
    /\ messageId # 0 =>
           /\ messageId = Len(shown) /\ displayed = shown[messageId]
           /\ displayed.from = committed + 1
           /\ sending = None /\ attempted
    /\ messageId = 0 =>
           /\ displayed = None /\ editing = None
           /\ sending = None => shown = <<>> /\ ~attempted
    /\ sending # None => sending.from = committed + 1 /\ attempted
    /\ editing # None => target = messageId /\ editing.from = committed + 1

\* While the turn streams, what is shown or on its way is of the texts so far.
Fresh ==
    ~finalized =>
        /\ latest.text <= response
        /\ latest.len > 0 => latest.text >= 1
        /\ \A m \in 1..Len(shown) : shown[m].text \in 1..latest.text
        /\ sending # None => sending.text \in 1..latest.text
        /\ editing # None => editing.text \in 1..latest.text

\* After a failure nothing is started any more.
FailureIsTheLast == failed => ~InFlight

\* Where the turn's task is, against what it has set in motion.
Stages ==
    /\ turn \in {"checking", "polling", "fallback"} \/ result = "ok" =>
           latest.len >= 1
    /\ turn = "streaming" => ~finalized
    /\ turn = "polling" => finalized /\ (failed \/ attempted)
    /\ turn = "fallback" => finalized /\ failed
    /\ result = "ok" => turn = "over"
    /\ result = "ok" /\ ~failed => ~InFlight /\ AllShown /\ attempted

DisplayInv ==
    /\ DisplayTypeOK /\ FailureIsTheLast /\ Stages
    /\ ~failed => Placed /\ Current /\ Fresh

\* The part of the invariant that is about the display and the channel, and
\* leaves out the turn's task.
Typed ==
    /\ response \in 1..MaxResponses
    /\ latest \in Contents /\ committed \in 0..MaxLength
    /\ displayed \in Segments \cup {None}
    /\ sending \in Segments \cup {None}
    /\ editing \in Segments \cup {None}
    /\ messageId \in 0..Len(shown) /\ target \in 0..Len(shown)
    /\ attempted \in BOOLEAN /\ finalized \in BOOLEAN
    /\ failed \in BOOLEAN /\ tooSoon \in BOOLEAN
    /\ shown \in Seq(Segments)

DisplayPart ==
    /\ Typed /\ FailureIsTheLast
    /\ ~failed => Placed /\ Current /\ Fresh

TaskPart ==
    /\ turn \in {"streaming", "checking", "polling", "fallback", "over"}
    /\ result \in {"none", "ok", "error", "suppressed"}
    /\ retries \in Nat
    /\ Stages

-----------------------------------------------------------------------------
(* Lemmas                                                                   *)

\* The two parts make up the invariant.
LEMMA Parts == DisplayInv <=> DisplayPart /\ TaskPart
  BY DEF DisplayInv, DisplayPart, TaskPart, DisplayTypeOK, Typed

\* No segment is the absent one.
LEMMA NoneIsNoSegment ==
    /\ None \notin Segments
    /\ \A g \in Segments : /\ g.from \in Nat /\ g.to \in Nat /\ g.text \in Nat
                           /\ g.from >= 1 /\ g.to >= 1 /\ g.to <= MaxLength
                           /\ g.text <= MaxResponses
  BY DisplayAssumption DEF None, Segments, Texts

\* What the current message ought to show begins after the prefix, is no longer
\* than the limit and stays within the text.
LEMMA ActiveFacts ==
    ASSUME NEW content \in Contents, NEW prefix \in 0..MaxLength
    PROVE  /\ prefix >= content.len <=> Active(content, prefix) = None
           /\ prefix < content.len =>
                  /\ Active(content, prefix) \in Segments
                  /\ Active(content, prefix).text = content.text
                  /\ Active(content, prefix).from = prefix + 1
                  /\ Active(content, prefix).to \in Nat
                  /\ Active(content, prefix).to > prefix
                  /\ Active(content, prefix).to <= content.len
<1>1. content.len \in 0..MaxLength /\ content.text \in Texts
  BY DEF Contents
<1>2. CASE prefix >= content.len
  BY <1>1, <1>2, DisplayAssumption DEF Active
<1>3. CASE prefix < content.len
  <2> DEFINE to == LesserOf(prefix + Limit, content.len)
             segment == [text |-> content.text, from |-> prefix + 1, to |-> to]
  <2>1. to \in 1..MaxLength /\ to > prefix /\ to <= content.len
    BY <1>1, <1>3, DisplayAssumption DEF LesserOf
  <2>2. ~(prefix >= content.len)
    BY <1>1, <1>3
  <2>3. Active(content, prefix) = segment
    BY <2>2 DEF Active
  <2> HIDE DEF to
  <2>4. prefix + 1 \in 1..MaxLength
    BY <1>1, <1>3, DisplayAssumption
  <2>5. segment \in Segments /\ segment.text = content.text
        /\ segment.from = prefix + 1 /\ segment.to = to
    BY <1>1, <2>1, <2>4 DEF Segments
  <2> QED
    BY <1>3, <2>1, <2>2, <2>3, <2>5, NoneIsNoSegment
<1> QED
  BY <1>1, <1>2, <1>3, DisplayAssumption

\* What the type says of the numbers in the state.
LEMMA Numbers ==
    ASSUME Typed
    PROVE  /\ Len(shown) \in Nat /\ messageId \in Nat /\ target \in Nat
           /\ committed \in Nat /\ latest.len \in Nat /\ latest.text \in Nat
           /\ latest.len <= MaxLength /\ response \in Nat
           /\ \A m \in 1..Len(shown) : shown[m] \in Segments
           /\ \A m \in 1..Len(shown) :
                  shown[m].from \in Nat /\ shown[m].to \in Nat /\ shown[m].text \in Nat
<1>1. \A m \in 1..Len(shown) : shown[m] \in Segments
  BY ElementOfSeq DEF Typed
<1>2. Len(shown) \in Nat
  BY LenProperties DEF Typed
<1> QED
  BY <1>1, <1>2, NoneIsNoSegment, DisplayAssumption DEF Typed, Contents, Texts

-----------------------------------------------------------------------------
(* next_streaming_display_action                                            *)

\* The message that is full takes its place among the ones that are final.
LEMMA RollOverKeeps ==
    ASSUME DisplayPart, RollOver, UNCHANGED <<shown, response>>
    PROVE  DisplayPart' /\ attempted'
<1> DEFINE segment == Active(latest, committed)
           prefix == segment.to
           rest == Active(latest, prefix)
<1>1. /\ ~failed /\ Typed /\ Placed /\ Current /\ Fresh
      /\ sending = None /\ editing = None
      /\ segment # None /\ prefix < latest.len /\ displayed = segment
  BY DEF RollOver, Full, InFlight, DisplayPart
<1>2. /\ committed' = prefix /\ displayed' = None /\ messageId' = 0
      /\ attempted' = TRUE /\ sending' = rest
      /\ UNCHANGED <<latest, editing, target, finalized, failed, tooSoon>>
  BY DEF RollOver
<1>3. /\ latest \in Contents /\ committed \in 0..MaxLength
      /\ latest.len \in Nat /\ latest.len <= MaxLength /\ committed \in Nat
      /\ Len(shown) \in Nat
      /\ \A m \in 1..Len(shown) :
             shown[m].from \in Nat /\ shown[m].to \in Nat /\ shown[m].text \in Nat
  BY <1>1, Numbers DEF Typed
<1>4. /\ committed < latest.len
      /\ segment.text = latest.text /\ segment.from = committed + 1
      /\ prefix \in Nat /\ prefix > committed
  BY <1>1, <1>3, ActiveFacts
<1>5. /\ rest \in Segments /\ rest.text = latest.text /\ rest.from = prefix + 1
      /\ rest # None /\ prefix \in 0..MaxLength
  <2>1. prefix \in 0..MaxLength
    BY <1>1, <1>3, <1>4, DisplayAssumption
  <2> QED
    BY <1>1, <1>3, <2>1, ActiveFacts, NoneIsNoSegment
<1>6. /\ messageId # 0 /\ messageId = Len(shown) /\ shown[Len(shown)] = segment
      /\ Kept = Len(shown) - 1 /\ Len(shown) >= 1
  BY <1>1, <1>3 DEF Current, Kept
<1> HIDE DEF segment, rest
<1>7. Kept' = Len(shown)
  BY <1>2 DEF Kept
<1>8. Typed'
  BY <1>1, <1>2, <1>3, <1>5 DEF Typed
<1>9. Placed'
  <2>1. committed' = IF Kept' = 0 THEN 0 ELSE shown'[Kept'].to
    BY <1>2, <1>6, <1>7
  <2>2. ASSUME NEW m \in 1..Kept'
        PROVE  /\ shown'[m].from = IF m = 1 THEN 1 ELSE shown'[m - 1].to + 1
               /\ shown'[m].to <= committed'
               /\ shown'[m].text = latest'.text => shown'[m].to < latest'.len
    <3>1. CASE m = Len(shown)
      <4>1. shown[m] = segment /\ (m = 1 <=> Kept = 0) /\ m - 1 = Kept
        BY <1>3, <1>6, <3>1
      <4>2. committed = IF Kept = 0 THEN 0 ELSE shown[Kept].to
        BY <1>1 DEF Placed
      <4> QED
        BY <1>1, <1>2, <1>3, <1>4, <4>1, <4>2
    <3>2. CASE m # Len(shown)
      <4>1. m \in 1..Kept
        BY <1>3, <1>6, <1>7, <3>2
      <4>2. shown[m].to <= committed /\ shown[m].to \in Nat
        BY <1>1, <1>3, <1>7, <4>1 DEF Placed
      <4> QED
        BY <1>1, <1>2, <1>3, <1>4, <4>1, <4>2 DEF Placed
    <3> QED
      BY <3>1, <3>2
  <2>3. ASSUME NEW m \in 1..Kept', NEW n \in 1..Kept', m < n
        PROVE  shown'[m].to < shown'[n].from
    <3>1. m \in 1..Kept
      BY <1>3, <1>6, <1>7, <2>3
    <3>2. CASE n = Len(shown)
      <4>1. shown[m].to <= committed /\ shown[m].to \in Nat
        BY <1>1, <1>3, <1>7, <3>1 DEF Placed
      <4> QED
        BY <1>3, <1>4, <1>6, <3>2, <4>1
    <3>3. CASE n # Len(shown)
      BY <1>1, <1>3, <1>6, <1>7, <2>3, <3>1, <3>3 DEF Placed
    <3> QED
      BY <3>2, <3>3
  <2> QED
    BY <2>1, <2>2, <2>3 DEF Placed
<1>10. Current'
  BY <1>1, <1>2, <1>5 DEF Current
<1>11. Fresh'
  <2>1. latest.len > 0 /\ latest.text \in Nat
    BY <1>1, <1>3, <1>4, Numbers
  <2> QED
    BY <1>1, <1>2, <1>5, <2>1 DEF Fresh
<1> QED
  BY <1>1, <1>2, <1>8, <1>9, <1>10, <1>11 DEF DisplayPart, FailureIsTheLast

\* The first message is sent, or the current one edited: it begins where the
\* final ones end.
LEMMA BeginKeeps ==
    ASSUME DisplayPart, SendInitial \/ Edit, UNCHANGED <<shown, response>>
    PROVE  DisplayPart' /\ attempted'
<1> DEFINE segment == Active(latest, committed)
<1>1. /\ ~failed /\ Typed /\ Placed /\ Current /\ Fresh /\ segment # None
      /\ UNCHANGED <<latest, committed, displayed, messageId, finalized, failed, tooSoon>>
  BY DEF SendInitial, Edit, Unsent, Outdated, DisplayPart
<1>2. /\ latest \in Contents /\ committed \in 0..MaxLength
      /\ latest.len \in Nat /\ committed \in Nat /\ Len(shown) \in Nat
      /\ latest.text \in Nat
  BY <1>1, Numbers DEF Typed
<1>3. /\ committed < latest.len /\ segment \in Segments
      /\ segment.text = latest.text /\ segment.from = committed + 1
  BY <1>1, <1>2, ActiveFacts
<1> HIDE DEF segment
<1>4. Kept' = Kept
  BY <1>1 DEF Kept
<1>5. Placed'
  BY <1>1, <1>4 DEF Placed
<1>6. CASE SendInitial
  <2>1. /\ attempted' = TRUE /\ sending' = segment /\ UNCHANGED <<editing, target>>
        /\ messageId = 0
    BY <1>6 DEF SendInitial, Unsent, segment
  <2>2. Typed'
    BY <1>1, <1>3, <2>1 DEF Typed
  <2>3. Current'
    BY <1>1, <1>3, <2>1 DEF Current
  <2>4. Fresh'
    BY <1>1, <1>2, <1>3, <2>1 DEF Fresh
  <2> QED
    BY <1>1, <1>5, <2>1, <2>2, <2>3, <2>4 DEF DisplayPart, FailureIsTheLast
<1>7. CASE Edit
  <2>1. /\ editing' = segment /\ target' = messageId /\ UNCHANGED <<attempted, sending>>
        /\ messageId # 0
    BY <1>7 DEF Edit, Outdated, segment
  <2>2. Typed'
    BY <1>1, <1>3, <2>1 DEF Typed
  <2>3. Current'
    BY <1>1, <1>3, <2>1 DEF Current
  <2>4. Fresh'
    BY <1>1, <1>2, <1>3, <2>1 DEF Fresh
  <2>5. attempted'
    BY <1>1, <2>1 DEF Current
  <2> QED
    BY <1>1, <1>5, <2>2, <2>3, <2>4, <2>5 DEF DisplayPart, FailureIsTheLast
<1> QED
  BY <1>6, <1>7

\* A step that leaves the display and the channel alone.
LEMMA QuietKeeps ==
    ASSUME DisplayPart, UNCHANGED <<displayVars, shown, response>>
    PROVE  DisplayPart'
<1>1. /\ UNCHANGED <<latest, committed, displayed, messageId, attempted, sending>>
      /\ UNCHANGED <<editing, target, finalized, failed, tooSoon, shown, response>>
  BY DEF displayVars
<1>2. Kept' = Kept
  BY <1>1 DEF Kept
<1> QED
  BY <1>1, <1>2 DEF DisplayPart, Typed, FailureIsTheLast, InFlight, Placed, Current,
     Fresh

\* Whatever next_streaming_display_action decides keeps the invariant; it decides
\* to do something for a text that was not sent yet, and nothing for one that is
\* shown.
LEMMA NextActionKeeps ==
    ASSUME DisplayPart, NextAction, UNCHANGED <<shown, response>>
    PROVE  /\ DisplayPart' /\ UNCHANGED <<latest, finalized, failed>>
           /\ attempted => attempted'
           /\ ~failed /\ latest.len >= 1 => attempted'
           /\ ~failed /\ ~InFlight /\ AllShown => UNCHANGED displayVars
<1>1. UNCHANGED <<latest, finalized, failed>>
  BY DEF NextAction, RollOver, SendInitial, Edit, displayVars
<1>2. CASE UNCHANGED displayVars /\ ~Full /\ ~Unsent /\ ~Outdated
  <2>1. DisplayPart' /\ attempted' = attempted
    BY <1>2, QuietKeeps DEF displayVars
  <2>2. ASSUME ~failed, latest.len >= 1, ~attempted PROVE FALSE
    <3>1. /\ Typed /\ Placed /\ Current
      BY <2>2 DEF DisplayPart
    <3>2. /\ messageId = 0 /\ sending = None /\ displayed = None /\ shown = <<>>
      BY <2>2, <3>1 DEF Current
    <3>3. committed = 0
      BY <3>1, <3>2 DEF Placed, Kept
    <3>4. Active(latest, committed) # None
      BY <2>2, <3>1, <3>3, ActiveFacts, Numbers DEF Typed
    <3> QED
      BY <1>2, <2>2, <3>2, <3>4 DEF Unsent
  <2> QED
    BY <1>1, <1>2, <2>1, <2>2
<1>3. ASSUME RollOver \/ SendInitial \/ Edit PROVE ~(~failed /\ ~InFlight /\ AllShown)
  <2> SUFFICES ASSUME ~failed, ~InFlight, AllShown PROVE FALSE
    OBVIOUS
  <2>1. Typed /\ Current /\ latest \in Contents /\ committed \in 0..MaxLength
    BY DEF DisplayPart, Typed
  <2>2. Active(latest, committed) # None
    BY <1>3 DEF RollOver, Full, SendInitial, Unsent, Edit, Outdated
  <2>3. latest.len \in Nat /\ committed \in Nat
    BY <2>1, Numbers
  <2>4. ~(committed >= latest.len)
    BY <2>1, <2>2, ActiveFacts
  <2>5. committed < latest.len
    BY <2>3, <2>4
  <2>6. /\ displayed = Active(latest, committed) /\ displayed # None
        /\ displayed.to = latest.len
    BY <2>5, <2>3 DEF AllShown
  <2> QED
    BY <1>3, <2>1, <2>5, <2>6, <2>3 DEF RollOver, Full, SendInitial, Unsent, Edit, Outdated
<1>4. CASE RollOver \/ SendInitial \/ Edit
  BY <1>1, <1>3, <1>4, RollOverKeeps, BeginKeeps
<1> QED
  BY <1>2, <1>4 DEF NextAction

-----------------------------------------------------------------------------
(* The tasks                                                                *)

\* A message is added behind the final ones, or the current one is replaced by a
\* text that begins where it began.
LEMMA CallReturnsKeeps ==
    ASSUME DisplayPart, SendSucceeds \/ EditSucceeds
    PROVE  DisplayPart'
<1>1. /\ ~failed /\ Typed /\ Placed /\ Current /\ Fresh
  BY DEF DisplayPart, FailureIsTheLast, InFlight, SendSucceeds, EditSucceeds
<1>2. /\ Len(shown) \in Nat /\ shown \in Seq(Segments) /\ committed \in Nat
      /\ \A m \in 1..Len(shown) : shown[m] \in Segments
  BY <1>1, Numbers DEF Typed
<1>3. CASE SendSucceeds
  <2>1. /\ sending # None /\ shown' = Append(shown, sending)
        /\ messageId' = Len(shown') /\ displayed' = sending /\ sending' = None
        /\ tooSoon' = TRUE
        /\ UNCHANGED <<response, latest, committed, attempted, editing, target,
                       finalized, failed>>
    BY <1>3 DEF SendSucceeds
  <2>2. sending \in Segments /\ messageId = 0 /\ editing = None /\ attempted
        /\ sending.from = committed + 1
    BY <1>1, <2>1 DEF Typed, Current
  <2>3. /\ shown' \in Seq(Segments) /\ Len(shown') = Len(shown) + 1
        /\ shown'[Len(shown) + 1] = sending
        /\ \A m \in 1..Len(shown) : shown'[m] = shown[m]
    BY <1>2, <2>1, <2>2, AppendProperties
  <2>4. Kept = Len(shown) /\ Kept' = Len(shown) /\ messageId' # 0
    BY <1>2, <2>1, <2>2, <2>3 DEF Kept
  <2>5. Typed'
    BY <1>1, <1>2, <2>1, <2>2, <2>3 DEF Typed
  <2>6. Placed'
    <3>1. \A m \in 1..Kept : m # 1 => m - 1 \in 1..Kept
      BY <1>2, <2>4
    <3>2. Kept # 0 => Kept \in 1..Kept
      BY <1>2, <2>4
    <3> QED
      BY <1>1, <2>1, <2>3, <2>4, <3>1, <3>2 DEF Placed
  <2>7. Current'
    BY <2>1, <2>2, <2>3, <2>4 DEF Current
  <2>8. Fresh'
    <3>1. \A m \in 1..Len(shown') : m \in 1..Len(shown) \/ m = Len(shown) + 1
      BY <1>2, <2>3
    <3> QED
      BY <1>1, <2>1, <2>3, <3>1 DEF Fresh
  <2> QED
    BY <1>1, <2>1, <2>5, <2>6, <2>7, <2>8 DEF DisplayPart, FailureIsTheLast
<1>4. CASE EditSucceeds
  <2>1. /\ editing # None /\ shown' = [shown EXCEPT ![target] = editing]
        /\ displayed' = editing /\ editing' = None /\ tooSoon' = TRUE
        /\ UNCHANGED <<response, latest, committed, messageId, attempted, sending,
                       target, finalized, failed>>
    BY <1>4 DEF EditSucceeds
  <2>2. /\ editing \in Segments /\ messageId # 0 /\ target = Len(shown)
        /\ messageId = Len(shown) /\ sending = None /\ attempted
        /\ editing.from = committed + 1
    BY <1>1, <2>1 DEF Typed, Current
  <2>3. Len(shown) \in 1..Len(shown)
    BY <1>2, <2>2
  <2>4. /\ shown' \in Seq(Segments) /\ Len(shown') = Len(shown)
        /\ shown'[Len(shown)] = editing
        /\ \A m \in 1..Len(shown) : m # Len(shown) => shown'[m] = shown[m]
    BY <1>2, <2>1, <2>2, <2>3, ExceptSeq
  <2>5. Kept = Len(shown) - 1 /\ Kept' = Kept
    BY <2>1, <2>2, <2>4 DEF Kept
  <2>6. Typed'
    BY <1>1, <1>2, <2>1, <2>2, <2>4 DEF Typed
  <2>7. \A m \in 1..Kept : m \in 1..Len(shown) /\ shown'[m] = shown[m]
                           /\ (m # 1 => m - 1 \in 1..Kept)
    BY <1>2, <2>4, <2>5
  <2>8. Placed'
    <3>1. Kept # 0 => Kept \in 1..Kept
      BY <1>2, <2>2, <2>5
    <3>2. committed' = IF Kept' = 0 THEN 0 ELSE shown'[Kept'].to
      BY <1>1, <2>1, <2>5, <2>7, <3>1 DEF Placed
    <3>3. \A m \in 1..Kept' :
              /\ shown'[m].from = IF m = 1 THEN 1 ELSE shown'[m - 1].to + 1
              /\ shown'[m].to <= committed'
              /\ shown'[m].text = latest'.text => shown'[m].to < latest'.len
      BY <1>1, <2>1, <2>5, <2>7 DEF Placed
    <3>4. \A m, n \in 1..Kept' : m < n => shown'[m].to < shown'[n].from
      BY <1>1, <2>5, <2>7 DEF Placed
    <3> QED
      BY <3>2, <3>3, <3>4 DEF Placed
  <2>9. Current'
    BY <2>1, <2>2, <2>4 DEF Current
  <2>10. Fresh'
    BY <1>1, <2>1, <2>4 DEF Fresh
  <2> QED
    BY <1>1, <2>1, <2>6, <2>8, <2>9, <2>10 DEF DisplayPart, FailureIsTheLast
<1> QED
  BY <1>3, <1>4

\* A call that failed is the last one.
LEMMA CallFailsKeeps ==
    ASSUME DisplayPart, SendFails \/ EditFails
    PROVE  DisplayPart' /\ failed'
<1>1. ~failed /\ Typed /\ Current /\ Len(shown) \in Nat
  BY Numbers DEF DisplayPart, FailureIsTheLast, InFlight, SendFails, EditFails
<1>2. CASE SendFails
  <2>1. /\ sending \in Segments /\ editing = None
    BY <1>1, <1>2 DEF SendFails, Typed, Current
  <2>2. shown' \in Seq(Segments) /\ Len(shown') \in Nat /\ Len(shown) <= Len(shown')
    BY <1>1, <1>2, <2>1, AppendProperties DEF SendFails, Typed
  <2>3. Typed'
    BY <1>1, <1>2, <2>2 DEF SendFails, Typed
  <2> QED
    BY <1>2, <2>1, <2>3 DEF SendFails, DisplayPart, FailureIsTheLast, InFlight
<1>3. CASE EditFails
  <2>1. /\ editing \in Segments /\ sending = None /\ target \in 1..Len(shown)
    BY <1>1, <1>3 DEF EditFails, Typed, Current
  <2>2. shown' \in Seq(Segments) /\ Len(shown') = Len(shown)
    BY <1>1, <1>3, <2>1, ExceptSeq DEF EditFails, Typed
  <2>3. Typed'
    BY <1>1, <1>3, <2>2 DEF EditFails, Typed
  <2> QED
    BY <1>3, <2>1, <2>3 DEF EditFails, DisplayPart, FailureIsTheLast, InFlight
<1> QED
  BY <1>2, <1>3

-----------------------------------------------------------------------------
(* The turn's task                                                          *)

\* A delta or the final text replaces the latest text: a longer text of the same
\* response, or a text of which nothing has been shown.
LEMMA SetLatestKeeps ==
    ASSUME DisplayPart, turn = "streaming", ~finalized,
           NEW content \in Contents, SetLatest(content), finalized' \in BOOLEAN,
           ~finalized' => content.text = response,
           \/ content.text = response /\ content.len >= Streamed
           \/ content.text = Unstreamed
    PROVE  DisplayPart'
<1>1. /\ latest' = content
      /\ UNCHANGED <<response, committed, displayed, messageId, attempted, sending>>
      /\ UNCHANGED <<editing, target, failed, tooSoon, shown>>
  BY DEF SetLatest
<1>2. Typed
  BY DEF DisplayPart
<1>3. Typed' /\ Kept' = Kept
  BY <1>1, <1>2 DEF Typed, Kept
<1>4. FailureIsTheLast'
  BY <1>1 DEF DisplayPart, FailureIsTheLast, InFlight
<1>5. ASSUME ~failed PROVE Placed' /\ Current' /\ Fresh'
  <2>1. Placed /\ Current /\ Fresh
    BY <1>5 DEF DisplayPart
  <2>2. /\ latest.text \in Nat /\ latest.len \in Nat /\ content.len \in Nat
        /\ content.text \in Nat /\ response \in Nat /\ response >= 1
        /\ Len(shown) \in Nat
        /\ \A m \in 1..Len(shown) : shown[m].to \in Nat /\ shown[m].text \in Nat
    BY <1>2, Numbers, DisplayAssumption DEF Typed, Contents, Texts
  <2>3. /\ latest.text <= response
        /\ \A m \in 1..Len(shown) : shown[m].text \in 1..latest.text
        /\ sending # None => sending.text \in 1..latest.text
        /\ editing # None => editing.text \in 1..latest.text
    BY <2>1 DEF Fresh
  <2>4. \A m \in 1..Len(shown) : shown[m].text = content.text =>
            content.text = latest.text /\ content.len >= latest.len
    BY <2>2, <2>3 DEF Streamed, Unstreamed
  <2>5. \A m \in 1..Kept : m \in 1..Len(shown)
    BY <2>2 DEF Kept
  <2>6. \A m \in 1..Kept : shown[m].text = content.text => shown[m].to < content.len
    BY <2>1, <2>2, <2>4, <2>5 DEF Placed
  <2>7. Placed'
    BY <1>1, <1>3, <2>1, <2>6 DEF Placed
  <2>8. Current'
    BY <1>1, <2>1 DEF Current
  <2>9. Fresh'
    <3> SUFFICES ASSUME ~finalized'
                 PROVE  /\ latest'.text <= response'
                        /\ latest'.len > 0 => latest'.text >= 1
                        /\ \A m \in 1..Len(shown') : shown'[m].text \in 1..latest'.text
                        /\ sending' # None => sending'.text \in 1..latest'.text
                        /\ editing' # None => editing'.text \in 1..latest'.text
      BY DEF Fresh
    <3>1. content.text = response
      OBVIOUS
    <3> QED
      BY <1>1, <2>2, <2>3, <3>1
  <2> QED
    BY <2>7, <2>8, <2>9
<1> QED
  BY <1>1, <1>3, <1>4, <1>5 DEF DisplayPart

\* Every step of the turn's task and of the spawned ones keeps the invariant.
LEMMA DisplayStep == DisplayInv /\ [DisplayNext]_streamVars => DisplayInv'
<1> SUFFICES ASSUME DisplayInv, [DisplayNext]_streamVars PROVE DisplayPart' /\ TaskPart'
  BY DEF DisplayInv, DisplayPart, TaskPart, DisplayTypeOK, Typed
<1>1. DisplayPart /\ TaskPart /\ Typed /\ Stages
  BY Parts DEF DisplayPart, TaskPart
<1>2. /\ latest.len \in Nat /\ response \in Nat /\ Len(shown) \in Nat
      /\ latest \in Contents /\ response \in Texts /\ Unstreamed \in Texts
  BY <1>1, Numbers, DisplayAssumption DEF Typed, Texts, Unstreamed
<1>3. CASE TextDelta \/ FinalizeReply \/ FinalizeUnstreamed
  <2>1. Streamed \in Nat
    BY <1>2 DEF Streamed
  <2>2. turn = "streaming" /\ ~finalized /\ result # "ok"
    BY <1>1, <1>3 DEF TextDelta, FinalizeReply, FinalizeUnstreamed, SetLatest, Stages
  <2>3. PICK content \in Contents :
            /\ SetLatest(content) /\ content.len \in Nat /\ content.len >= 1
            /\ finalized' \in BOOLEAN
            /\ ~finalized' => content.text = response
            /\ \/ content.text = response /\ content.len >= Streamed
               \/ content.text = Unstreamed
    <3>1. \A t \in Texts : \A n \in 1..MaxLength :
              /\ [text |-> t, len |-> n] \in Contents
              /\ [text |-> t, len |-> n].len = n /\ [text |-> t, len |-> n].text = t
      BY DisplayAssumption DEF Contents
    <3>2. CASE TextDelta
      <4>1. PICK n \in Streamed + 1 .. MaxLength :
                SetLatest([text |-> response, len |-> n]) /\ UNCHANGED finalized
        BY <3>2 DEF TextDelta
      <4>2. n \in 1..MaxLength /\ n >= Streamed /\ n \in Nat /\ n >= 1
        BY <2>1, DisplayAssumption
      <4> QED
        BY <1>1, <1>2, <3>1, <4>1, <4>2 DEF Typed
    <3>3. CASE FinalizeReply
      <4>1. PICK n \in Streamed .. MaxLength :
                SetLatest([text |-> response, len |-> n])
        BY <3>3 DEF FinalizeReply
      <4>2. n \in 1..MaxLength /\ n >= Streamed /\ n \in Nat /\ n >= 1
        BY <2>1, <3>3, DisplayAssumption DEF FinalizeReply
      <4>3. finalized' = TRUE
        BY <3>3 DEF FinalizeReply
      <4> QED
        BY <1>2, <3>1, <4>1, <4>2, <4>3
    <3>4. CASE FinalizeUnstreamed
      <4>1. PICK n \in 1..MaxLength : SetLatest([text |-> Unstreamed, len |-> n])
        BY <3>4 DEF FinalizeUnstreamed
      <4>2. n \in Nat /\ n >= 1
        BY DisplayAssumption
      <4>3. finalized' = TRUE
        BY <3>4 DEF FinalizeUnstreamed
      <4> QED
        BY <1>2, <3>1, <4>1, <4>2, <4>3
    <3> QED
      BY <1>3, <3>2, <3>3, <3>4
  <2>4. DisplayPart'
    BY <1>1, <2>2, <2>3, SetLatestKeeps
  <2>5. turn' = "checking" /\ latest' = content /\ UNCHANGED <<result, retries>>
    BY <2>3 DEF SetLatest
  <2>6. TaskPart'
    BY <1>1, <2>2, <2>3, <2>5 DEF TaskPart, Stages
  <2> QED
    BY <2>4, <2>6
<1>4. CASE NextResponse
  <2>1. /\ turn = "streaming" /\ response' = response + 1 /\ response < MaxResponses
        /\ UNCHANGED <<turn, result, displayVars, retries, shown>>
    BY <1>4 DEF NextResponse
  <2>2. /\ UNCHANGED <<latest, committed, displayed, messageId, attempted, sending>>
        /\ UNCHANGED <<editing, target, finalized, failed, tooSoon, shown>>
    BY <2>1 DEF displayVars
  <2>3. Typed'
    BY <1>1, <1>2, <2>1, <2>2, DisplayAssumption DEF Typed
  <2>4. Kept' = Kept
    BY <2>2 DEF Kept
  <2>5. ASSUME ~failed PROVE Placed' /\ Current' /\ Fresh'
    <3>1. Placed /\ Current /\ Fresh /\ latest.text \in Nat
      BY <1>1, <2>5, Numbers DEF DisplayPart
    <3>2. latest.text <= response => latest.text <= response + 1
      BY <1>2, <3>1
    <3> QED
      BY <2>1, <2>2, <2>4, <3>1, <3>2 DEF Placed, Current, Fresh
  <2>6. DisplayPart'
    BY <1>1, <2>2, <2>3, <2>5 DEF DisplayPart, FailureIsTheLast, InFlight
  <2>7. TaskPart'
    BY <1>1, <2>1, <2>2 DEF TaskPart, Stages
  <2> QED
    BY <2>6, <2>7
<1>5. CASE Suppress
  <2>1. DisplayPart'
    BY <1>1, <1>5, QuietKeeps DEF Suppress
  <2> QED
    BY <1>1, <1>5, <2>1 DEF Suppress, TaskPart, Stages
<1>6. CASE TurnChecks
  <2>1. /\ turn = "checking" /\ NextAction /\ UNCHANGED <<response, result, retries, shown>>
        /\ turn' = IF finalized THEN "polling" ELSE "streaming"
        /\ latest.len >= 1 /\ result # "ok"
    BY <1>1, <1>6 DEF TurnChecks, Stages
  <2>2. /\ DisplayPart' /\ UNCHANGED <<latest, finalized, failed>>
        /\ ~failed => attempted'
    BY <1>1, <2>1, NextActionKeeps
  <2>3. TaskPart'
    BY <1>1, <2>1, <2>2 DEF TaskPart, Stages
  <2> QED
    BY <2>2, <2>3
<1>7. CASE Poll
  <2>1. /\ turn = "polling" /\ UNCHANGED <<response, displayVars, retries, shown>>
        /\ latest.len >= 1 /\ finalized /\ (failed \/ attempted) /\ result # "ok"
    BY <1>1, <1>7 DEF Poll, Stages
  <2>2. DisplayPart' /\ UNCHANGED <<latest, attempted, finalized, failed>>
    BY <1>1, <2>1, QuietKeeps DEF displayVars
  <2>3. turn' \in {"fallback", "checking", "over"} /\ result' \in {result, "ok", "error"}
    BY <1>7 DEF Poll, Return
  <2>4. ASSUME turn' = "fallback" PROVE failed
    <3>1. ~InFlight /\ messageId = 0 /\ displayed = None
      BY <1>7, <2>4 DEF Poll, Return
    <3> QED
      BY <1>1, <2>1, <3>1 DEF DisplayPart, Current, InFlight
  <2>5. ASSUME result' = "ok" PROVE turn' = "over" /\ ~InFlight /\ AllShown
    BY <1>7, <2>1, <2>5 DEF Poll, Return
  <2>6. InFlight' = InFlight /\ AllShown' = AllShown
    BY <2>1 DEF displayVars, InFlight, AllShown
  <2>7. Stages'
    BY <2>1, <2>2, <2>3, <2>4, <2>5, <2>6 DEF Stages
  <2> QED
    BY <1>1, <2>1, <2>2, <2>3, <2>7 DEF TaskPart
<1>8. CASE Fallback
  <2>1. /\ turn = "fallback" /\ failed /\ finalized /\ latest.len >= 1
        /\ UNCHANGED <<response, displayVars, retries>> /\ turn' = "over"
        /\ result' \in {"ok", "error"}
    BY <1>1, <1>8 DEF Fallback, Return, Stages
  <2> DEFINE whole == [text |-> latest.text, from |-> 1, to |-> latest.len]
  <2>2. whole \in Segments
    BY <1>2, <2>1, DisplayAssumption DEF Contents, Segments
  <2>3. shown' = shown \/ shown' = Append(shown, whole)
    BY <1>8 DEF Fallback
  <2> HIDE DEF whole
  <2>4. shown' \in Seq(Segments) /\ Len(shown') \in Nat /\ Len(shown) <= Len(shown')
    BY SMTT(30), <1>1, <1>2, <2>2, <2>3, AppendProperties DEF Typed
  <2>5. Typed'
    BY <1>1, <1>2, <2>1, <2>4 DEF Typed, displayVars
  <2>6. DisplayPart'
    BY <1>1, <2>1, <2>5 DEF DisplayPart, FailureIsTheLast, InFlight, displayVars
  <2>7. TaskPart'
    BY <1>1, <2>1 DEF TaskPart, Stages, displayVars
  <2> QED
    BY <2>6, <2>7
<1>9. CASE SendSucceeds \/ EditSucceeds \/ SendFails \/ EditFails
  <2>1. DisplayPart'
    BY <1>1, <1>9, CallReturnsKeeps, CallFailsKeeps
  <2>2. /\ UNCHANGED <<turn, result, latest, finalized, attempted>>
        /\ retries' \in {retries, retries + 1} /\ InFlight
        /\ failed' = failed \/ failed' = TRUE
    BY <1>9 DEF SendSucceeds, EditSucceeds, SendFails, EditFails, InFlight
  <2>3. ~failed
    BY <1>1, <2>2 DEF DisplayPart, FailureIsTheLast
  <2>4. result # "ok"
    BY <1>1, <2>2, <2>3 DEF Stages
  <2>5. retries' \in Nat
    BY <1>1, <2>2 DEF TaskPart
  <2>6. Stages'
    BY <1>1, <2>2, <2>3, <2>4 DEF Stages
  <2> QED
    BY <1>1, <2>1, <2>2, <2>5, <2>6 DEF TaskPart
<1>10. CASE TaskRetries
  <2>1. /\ retries > 0 /\ retries' = retries - 1 /\ NextAction
        /\ UNCHANGED <<response, turn, result, shown>>
    BY <1>10 DEF TaskRetries
  <2>2. /\ DisplayPart' /\ UNCHANGED <<latest, finalized, failed>>
        /\ attempted => attempted'
        /\ ~failed /\ ~InFlight /\ AllShown => UNCHANGED displayVars
    BY <1>1, <2>1, NextActionKeeps
  <2>3. retries' \in Nat
    BY <1>1, <2>1 DEF TaskPart
  <2>4. result = "ok" /\ ~failed => ~InFlight' /\ AllShown' /\ attempted'
    BY <1>1, <2>2 DEF Stages, displayVars, InFlight, AllShown
  <2>5. Stages'
    BY <1>1, <2>1, <2>2, <2>4 DEF Stages
  <2> QED
    BY <1>1, <2>1, <2>2, <2>3, <2>5 DEF TaskPart
<1>11. CASE IntervalElapses
  <2>1. /\ tooSoon' = FALSE
        /\ UNCHANGED <<response, turn, result, latest, committed, displayed, messageId>>
        /\ UNCHANGED <<attempted, sending, editing, target, finalized, failed, retries,
                       shown>>
    BY <1>11 DEF IntervalElapses
  <2>2. Kept' = Kept
    BY <2>1 DEF Kept
  <2>3. DisplayPart'
    BY <1>1, <2>1, <2>2 DEF DisplayPart, Typed, FailureIsTheLast, InFlight, Placed,
       Current, Fresh
  <2>4. TaskPart'
    BY <1>1, <2>1 DEF TaskPart, Stages, InFlight, AllShown
  <2> QED
    BY <2>3, <2>4
<1>12. CASE DisplayQuiescent \/ UNCHANGED streamVars
  <2>1. UNCHANGED <<response, turn, result, displayVars, retries, shown>>
    BY <1>12 DEF DisplayQuiescent, streamVars
  <2>2. DisplayPart'
    BY <1>1, <2>1, QuietKeeps
  <2>3. TaskPart'
    BY <1>1, <2>1 DEF TaskPart, Stages, InFlight, AllShown, displayVars
  <2> QED
    BY <2>2, <2>3
<1> QED
  BY <1>3, <1>4, <1>5, <1>6, <1>7, <1>8, <1>9, <1>10, <1>11, <1>12
  DEF DisplayNext, TurnStep, TaskStep

\* The invariant of every execution of a turn's display.
LEMMA DisplayInvariant == DisplaySpec => []DisplayInv
<1>1. DisplayInit => DisplayInv
  <2> SUFFICES ASSUME DisplayInit PROVE DisplayInv
    OBVIOUS
  <2>1. Len(shown) = 0 /\ shown \in Seq(Segments)
    BY EmptySeq DEF DisplayInit
  <2>2. [text |-> Unstreamed, len |-> 0] \in Contents
    BY DisplayAssumption DEF Contents, Texts, Unstreamed
  <2>3. Typed
    <3>1. 1 \in 1..MaxResponses /\ 0 \in 0..MaxLength /\ 0 \in 0..0
      BY DisplayAssumption
    <3>2. latest \in Contents
      BY <2>2 DEF DisplayInit
    <3> QED
      BY <2>1, <3>1, <3>2 DEF DisplayInit, Typed
  <2>4. TaskPart
    BY DEF DisplayInit, TaskPart, Stages
  <2>5. Placed /\ Current /\ Fresh
    BY <2>1, DisplayAssumption DEF DisplayInit, Placed, Kept, Current, Fresh, Unstreamed
  <2>6. FailureIsTheLast
    BY DEF DisplayInit, FailureIsTheLast
  <2> QED
    BY <2>3, <2>4, <2>5, <2>6, Parts DEF DisplayPart
<1> QED
  BY <1>1, DisplayStep, PTL DEF DisplaySpec

-----------------------------------------------------------------------------
(* What the channel shows                                                   *)

\* The messages follow each other, the current one included.
LEMMA MessagesFollow ==
    ASSUME DisplayInv, ~failed
    PROVE  /\ \A m \in 1..Len(shown) :
                  shown[m].from = IF m = 1 THEN 1 ELSE shown[m - 1].to + 1
           /\ \A m, n \in 1..Len(shown) : m < n => shown[m].to < shown[n].from
<1>1. Typed /\ Placed /\ Current
  BY Parts DEF DisplayPart
<1>2. /\ Len(shown) \in Nat /\ committed \in Nat /\ messageId \in Nat
      /\ \A m \in 1..Len(shown) : shown[m].from \in Nat /\ shown[m].to \in Nat
  BY <1>1, Numbers
<1>3. CASE messageId = 0
  BY <1>1, <1>3 DEF Placed, Kept
<1>4. CASE messageId # 0
  <2>1. /\ Kept = Len(shown) - 1 /\ shown[Len(shown)].from = committed + 1
        /\ Kept \in Nat
    BY <1>1, <1>2, <1>4 DEF Current, Kept, Typed
  <2>2. \A m \in 1..Len(shown) : m \in 1..Kept \/ m = Len(shown)
    BY <1>2, <2>1
  <2>3. committed = IF Kept = 0 THEN 0 ELSE shown[Kept].to
    BY <1>1 DEF Placed
  <2>4. ASSUME NEW m \in 1..Len(shown)
        PROVE  shown[m].from = IF m = 1 THEN 1 ELSE shown[m - 1].to + 1
    <3>1. CASE m = Len(shown)
      BY <1>2, <2>1, <2>3, <3>1
    <3>2. CASE m \in 1..Kept
      BY <1>1, <3>2 DEF Placed
    <3> QED
      BY <2>2, <3>1, <3>2
  <2>5. ASSUME NEW m \in 1..Len(shown), NEW n \in 1..Len(shown), m < n
        PROVE  shown[m].to < shown[n].from
    <3>1. m \in 1..Kept
      BY <1>2, <2>1, <2>5
    <3>2. CASE n = Len(shown)
      <4>1. shown[m].to <= committed
        BY <1>1, <3>1 DEF Placed
      <4> QED
        BY <1>2, <2>1, <3>2, <4>1
    <3>3. CASE n \in 1..Kept
      BY <1>1, <2>5, <3>1, <3>3 DEF Placed
    <3> QED
      BY <2>2, <3>2, <3>3
  <2> QED
    BY <2>4, <2>5
<1> QED
  BY <1>3, <1>4

\* ReplyIsShown for every limit and length: when finalize_streaming_display
\* reports success without a failed call, the messages on the channel are the
\* reply, all of it, once and in order, unless text of an earlier response was
\* committed before.
THEOREM ReplyStaysShown == DisplaySpec => []ReplyIsShown
<1>1. DisplayInv => ReplyIsShown
  <2> SUFFICES ASSUME DisplayInv, result = "ok", ~failed,
                      \A m \in 1..Len(shown) - 1 : shown[m].text = latest.text
               PROVE  Shows(latest.text, latest.len)
    BY DEF ReplyIsShown
  <2>1. /\ Typed /\ Placed /\ Current /\ ~InFlight /\ AllShown /\ attempted
        /\ latest.len >= 1
    BY Parts DEF DisplayPart, TaskPart, Stages
  <2>2. /\ Len(shown) \in Nat /\ committed \in Nat /\ latest.len \in Nat
        /\ latest \in Contents /\ committed \in 0..MaxLength
        /\ shown \in Seq(Segments)
    BY <2>1, Numbers DEF Typed
  <2>3. messageId # 0 /\ messageId = Len(shown) /\ displayed = shown[Len(shown)]
    BY <2>1 DEF Current, InFlight
  <2>4. Kept = Len(shown) - 1 /\ Len(shown) >= 1
    BY <2>2, <2>3 DEF Kept
  <2>5. committed # latest.len
    <3> SUFFICES ASSUME committed = latest.len PROVE FALSE
      OBVIOUS
    <3>1. Kept # 0 /\ shown[Kept].to = committed
      BY <2>1, <2>2 DEF Placed
    <3>2. Kept \in 1..Kept /\ Kept \in 1..Len(shown) - 1
      BY <2>2, <2>4, <3>1
    <3>3. shown[Kept].text = latest.text
      BY <3>2
    <3>4. shown[Kept].to < latest.len
      BY <2>1, <3>2, <3>3 DEF Placed
    <3> QED
      BY <2>2, <3>1, <3>4
  <2>6. /\ displayed = Active(latest, committed) /\ displayed # None
        /\ displayed.to = latest.len
    BY <2>1, <2>5 DEF AllShown
  <2>7. displayed.text = latest.text
    <3>1. ~(committed >= latest.len)
      BY <2>2, <2>6, ActiveFacts
    <3>2. committed < latest.len
      BY <2>2, <3>1
    <3> QED
      BY <2>2, <2>6, <3>2, ActiveFacts
  <2>8. \A m \in 1..Len(shown) : shown[m].text = latest.text
    <3> SUFFICES ASSUME NEW m \in 1..Len(shown) PROVE shown[m].text = latest.text
      OBVIOUS
    <3>1. m \in 1..Len(shown) - 1 \/ m = Len(shown)
      BY <2>2
    <3> QED
      BY <2>3, <2>7, <3>1
  <2>9. shown # <<>> /\ DOMAIN shown = 1..Len(shown)
    BY <2>2, <2>4
  <2> QED
    BY <2>3, <2>6, <2>8, <2>9, MessagesFollow DEF Shows
<1> QED
  BY <1>1, DisplayInvariant, PTL

\* DisplayIsConsistent for every limit and length: no two messages show the same
\* characters of a text, and the display knows what its current message shows,
\* however deltas, sends, edits, rollovers and the finalizer interleave.
THEOREM DisplayStaysConsistent == DisplaySpec => []DisplayIsConsistent
<1>1. DisplayInv => DisplayIsConsistent
  <2> SUFFICES ASSUME DisplayInv, ~failed PROVE DisplayIsConsistent
    BY DEF DisplayIsConsistent, NothingTwice, PictureIsTrue
  <2>1. Typed /\ Current
    BY Parts DEF DisplayPart
  <2>2. DOMAIN shown = 1..Len(shown) /\ Len(shown) \in Nat
    BY <2>1 DEF Typed
  <2>3. NothingTwice
    <3> SUFFICES ASSUME NEW m \in 1..Len(shown), NEW n \in 1..Len(shown), m # n
                 PROVE  shown[m].to < shown[n].from \/ shown[n].to < shown[m].from
      BY <2>2 DEF NothingTwice
    <3>1. m < n \/ n < m
      BY <2>2
    <3> QED
      BY <3>1, MessagesFollow
  <2>4. PictureIsTrue
    BY <2>1 DEF PictureIsTrue, Current
  <2> QED
    BY <2>3, <2>4 DEF DisplayIsConsistent
<1> QED
  BY <1>1, DisplayInvariant, PTL

\* CommittedIsFinal for every limit and length: whatever reaches the channel is a
\* new message or an edit of the last one, also when the call reports a failure.
THEOREM CommittedStaysFinal == DisplaySpec => CommittedIsFinal
<1> DEFINE Final == \A m \in 1..Len(shown) - 1 : shown'[m] = shown[m]
<1>1. ASSUME DisplayInv, [DisplayNext]_streamVars PROVE [Final]_shown
  <2>1. Typed /\ Len(shown) \in Nat /\ shown \in Seq(Segments)
    BY <1>1, Parts, Numbers DEF DisplayPart, Typed
  <2>2. ASSUME NEW g \in Segments, shown' = Append(shown, g) PROVE Final
    <3>1. \A m \in 1..Len(shown) : shown'[m] = shown[m]
      BY <2>1, <2>2, AppendProperties
    <3>2. \A m \in 1..Len(shown) - 1 : m \in 1..Len(shown)
      BY <2>1
    <3> QED
      BY <3>1, <3>2
  <2>3. ASSUME shown' = [shown EXCEPT ![Len(shown)] = editing] PROVE Final
    <3>1. \A m \in 1..Len(shown) - 1 : m \in 1..Len(shown) /\ m # Len(shown)
      BY <2>1
    <3>2. DOMAIN shown = 1..Len(shown)
      BY <2>1
    <3> QED
      BY <2>3, <3>1, <3>2
  <2>4. ASSUME InFlight PROVE Current
    BY <1>1, <2>4, Parts DEF DisplayPart, FailureIsTheLast
  <2>5. CASE SendSucceeds \/ SendFails
    <3>1. sending \in Segments
      BY <2>1, <2>5 DEF SendSucceeds, SendFails, Typed
    <3>2. shown' = shown \/ shown' = Append(shown, sending)
      BY <2>5 DEF SendSucceeds, SendFails
    <3> HIDE DEF Final
    <3> QED
      BY <2>2, <3>1, <3>2
  <2>6. CASE EditSucceeds \/ EditFails
    <3>1. editing # None
      BY <2>6 DEF EditSucceeds, EditFails
    <3>2. target = Len(shown)
      BY <2>4, <3>1 DEF InFlight, Current
    <3>3. shown' = shown \/ shown' = [shown EXCEPT ![Len(shown)] = editing]
      BY <2>6, <3>2 DEF EditSucceeds, EditFails
    <3> HIDE DEF Final
    <3> QED
      BY <2>3, <3>3
  <2>7. CASE Fallback
    <3> DEFINE whole == [text |-> latest.text, from |-> 1, to |-> latest.len]
    <3>1. latest.len >= 1 /\ latest \in Contents
      BY <1>1, <2>1, <2>7, Parts DEF Fallback, TaskPart, Stages, Typed
    <3>2. whole \in Segments
      BY <3>1, DisplayAssumption DEF Contents, Segments
    <3>3. shown' = shown \/ shown' = Append(shown, whole)
      BY <2>7 DEF Fallback
    <3> HIDE DEF Final, whole
    <3> QED
      BY <2>2, <3>2, <3>3
  <2>8. CASE \/ TextDelta \/ NextResponse \/ FinalizeReply \/ FinalizeUnstreamed
             \/ Suppress \/ TurnChecks \/ Poll \/ TaskRetries \/ IntervalElapses
             \/ DisplayQuiescent \/ UNCHANGED streamVars
    BY <2>8 DEF TextDelta, NextResponse, FinalizeReply, FinalizeUnstreamed, SetLatest,
       Suppress, TurnChecks, Poll, TaskRetries, IntervalElapses, DisplayQuiescent, streamVars
  <2> HIDE DEF Final
  <2> QED
    BY <1>1, <2>5, <2>6, <2>7, <2>8 DEF DisplayNext, TurnStep, TaskStep
<1> QED
  BY <1>1, DisplayInvariant, PTL DEF DisplaySpec, CommittedIsFinal

=============================================================================
