--------------------------- MODULE StreamingDisplay ---------------------------
(***************************************************************************)
(* How one turn's reply appears on a channel that supports editing         *)
(* (src/run.rs).  While the provider streams, each delta replaces          *)
(* latest_content and tries to start a send or an edit; a spawned task     *)
(* carries it out and tries again.  Once a message is full (channel_limit  *)
(* characters) its text is committed and a new message begun: a rollover.  *)
(* At the end of the turn finalize_streaming_display sets the final text   *)
(* and polls until it is shown.  The turn's task and the spawned ones      *)
(* share the state under a mutex that none holds across an await.          *)
(*                                                                         *)
(* A turn may take several provider responses (tool calls in between),     *)
(* each streamed from its own beginning, and may end with a text that was  *)
(* never streamed (the error reply).  A text is abstracted to its number   *)
(* and its length: different texts share no character.                     *)
(***************************************************************************)
EXTENDS Naturals, Sequences

CONSTANTS
    Limit,          \* channel_limit (2000 characters on Discord)
    MaxLength,      \* bound: length of a text
    MaxResponses    \* bound: provider responses in the turn (max_steps)

ASSUME DisplayAssumption ==
    /\ Limit \in Nat \ {0}
    /\ MaxLength \in Nat \ {0}
    /\ MaxResponses \in Nat \ {0}

VARIABLES
    response,       \* the provider response being streamed
    turn,           \* what the turn's task does next
    result,         \* of finalize_streaming_display
    latest,         \* latest_content
    committed,      \* committed_prefix_chars
    displayed,      \* displayed_segment
    messageId,      \* message_id, 0 for None
    attempted,      \* initial_send_attempted
    sending,        \* the segment being sent (send_in_flight)
    editing,        \* the segment being edited in (edit_in_flight)
    target,         \* the message that edit is for
    finalized,
    failed,         \* terminal_failure, set together with error_message
    tooSoon,        \* last_edit is within STREAMING_EDIT_INTERVAL
    retries,        \* tasks about to call spawn_next_streaming_display_action
    shown           \* the turn's messages on the channel, oldest first

displayVars == <<latest, committed, displayed, messageId, attempted, sending,
                 editing, target, finalized, failed, tooSoon>>
streamVars == <<response, turn, result, displayVars, retries, shown>>

None == [text |-> 0, from |-> 0, to |-> 0]
Unstreamed == 0     \* the error reply, or the notice that max_steps is reached
Texts == 0..MaxResponses
Contents == [text : Texts, len : 0..MaxLength]
Segments == [text : Texts, from : 1..MaxLength, to : 1..MaxLength]
LesserOf(a, b) == IF a < b THEN a ELSE b

DisplayInit ==
    /\ response = 1 /\ turn = "streaming" /\ result = "none"
    /\ latest = [text |-> Unstreamed, len |-> 0]
    /\ committed = 0 /\ displayed = None /\ messageId = 0
    /\ attempted = FALSE /\ sending = None /\ editing = None /\ target = 0
    /\ finalized = FALSE /\ failed = FALSE /\ tooSoon = FALSE
    /\ retries = 0 /\ shown = <<>>

\* active_streaming_segment: what the current message ought to show.
Active(content, prefix) ==
    IF prefix >= content.len THEN None
    ELSE [text |-> content.text, from |-> prefix + 1,
          to |-> LesserOf(prefix + Limit, content.len)]

InFlight == sending # None \/ editing # None

-----------------------------------------------------------------------------
(* next_streaming_display_action, under the mutex                           *)

\* try_rollover_streaming_segment: a full message that shows its text.
Full ==
    LET segment == Active(latest, committed) IN
    /\ ~InFlight /\ ~failed
    /\ segment # None /\ segment.to < latest.len
    /\ displayed = segment

Unsent ==
    /\ ~failed /\ Active(latest, committed) # None
    /\ messageId = 0 /\ sending = None /\ displayed = None /\ ~attempted

Outdated ==
    /\ ~failed /\ Active(latest, committed) # None
    /\ messageId # 0 /\ editing = None
    /\ displayed # Active(latest, committed)
    /\ finalized \/ ~tooSoon

\* Slips: the rollover commits all of the text, or none of it, or goes on
\* using the message it has just filled.
RollOverCommitsAll ==
    /\ Full
    /\ committed' = latest.len
    /\ displayed' = None
    /\ messageId' = 0
    /\ attempted' = TRUE
    /\ sending' = Active(latest, latest.len)
    /\ UNCHANGED <<latest, editing, target, finalized, failed, tooSoon>>

RollOverForgetsPrefix ==
    /\ Full
    /\ displayed' = None
    /\ messageId' = 0
    /\ attempted' = TRUE
    /\ sending' = Active(latest, committed)
    /\ UNCHANGED <<latest, committed, editing, target, finalized, failed, tooSoon>>

RollOverKeepsMessage ==
    LET prefix == Active(latest, committed).to IN
    /\ Full
    /\ committed' = prefix
    /\ displayed' = None
    /\ attempted' = TRUE
    /\ sending' = Active(latest, prefix)
    /\ UNCHANGED <<latest, messageId, editing, target, finalized, failed, tooSoon>>

\* The overflow of a full message is sent as a new one in the same step.
RollOver ==
    LET prefix == Active(latest, committed).to IN
    /\ Full
    /\ committed' = prefix
    /\ displayed' = None
    /\ messageId' = 0
    /\ attempted' = TRUE
    /\ sending' = Active(latest, prefix)
    /\ UNCHANGED <<latest, editing, target, finalized, failed, tooSoon>>

SendInitial ==
    /\ Unsent
    /\ attempted' = TRUE
    /\ sending' = Active(latest, committed)
    /\ UNCHANGED <<latest, committed, displayed, messageId, editing, target,
                   finalized, failed, tooSoon>>

Edit ==
    /\ ~Full /\ Outdated
    /\ editing' = Active(latest, committed)
    /\ target' = messageId
    /\ UNCHANGED <<latest, committed, displayed, messageId, attempted, sending,
                   finalized, failed, tooSoon>>

NextAction ==
    \/ RollOver
    \/ SendInitial
    \/ Edit
    \/ ~Full /\ ~Unsent /\ ~Outdated /\ UNCHANGED displayVars

-----------------------------------------------------------------------------
(* The tasks spawned for a send or an edit                                  *)

\* Discord returns the id of every message it accepts.
SendSucceeds ==
    /\ sending # None
    /\ shown' = Append(shown, sending)
    /\ messageId' = Len(shown')
    /\ displayed' = sending
    /\ sending' = None
    /\ tooSoon' = TRUE
    /\ retries' = retries + 1
    /\ UNCHANGED <<response, turn, result, latest, committed, attempted,
                   editing, target, finalized, failed>>

EditSucceeds ==
    /\ editing # None
    /\ shown' = [shown EXCEPT ![target] = editing]
    /\ displayed' = editing
    /\ editing' = None
    /\ tooSoon' = TRUE
    /\ retries' = retries + 1
    /\ UNCHANGED <<response, turn, result, latest, committed, messageId,
                   attempted, sending, target, finalized, failed>>

\* A call that returns an error may have taken effect all the same.
SendFails ==
    /\ sending # None
    /\ shown' \in {shown, Append(shown, sending)}
    /\ sending' = None
    /\ failed' = TRUE
    /\ UNCHANGED <<response, turn, result, latest, committed, displayed,
                   messageId, attempted, editing, target, finalized, tooSoon,
                   retries>>

\* Slip: a failed edit is not recorded.
EditFailsQuietly ==
    /\ editing # None
    /\ editing' = None
    /\ UNCHANGED <<response, turn, result, latest, committed, displayed,
                   messageId, attempted, sending, target, finalized, failed,
                   tooSoon, retries, shown>>

EditFails ==
    /\ editing # None
    /\ shown' \in {shown, [shown EXCEPT ![target] = editing]}
    /\ editing' = None
    /\ failed' = TRUE
    /\ UNCHANGED <<response, turn, result, latest, committed, displayed,
                   messageId, attempted, sending, target, finalized, tooSoon,
                   retries>>

TaskRetries ==
    /\ retries > 0
    /\ retries' = retries - 1
    /\ NextAction
    /\ UNCHANGED <<response, turn, result, shown>>

IntervalElapses ==
    /\ tooSoon
    /\ tooSoon' = FALSE
    /\ UNCHANGED <<response, turn, result, latest, committed, displayed,
                   messageId, attempted, sending, editing, target, finalized,
                   failed, retries, shown>>

-----------------------------------------------------------------------------
(* The turn's task                                                          *)

\* spawn_streaming_display_update and finalize_streaming_display set the text
\* under the mutex, release it, and only then look for something to do.
SetLatest(content) ==
    /\ turn = "streaming"
    /\ latest' = content
    /\ turn' = "checking"
    /\ UNCHANGED <<response, result, committed, displayed, messageId, attempted,
                   sending, editing, target, failed, tooSoon, retries, shown>>

Streamed == IF latest.text = response THEN latest.len ELSE 0

TextDelta ==
    \E n \in Streamed + 1 .. MaxLength :
        /\ SetLatest([text |-> response, len |-> n])
        /\ UNCHANGED finalized

\* Tool calls were made; the next provider response is a text of its own.
NextResponse ==
    /\ turn = "streaming"
    /\ response < MaxResponses
    /\ response' = response + 1
    /\ UNCHANGED <<turn, result, displayVars, retries, shown>>

\* The reply is the last response, with a footer if transparency is on.
FinalizeReply ==
    /\ Streamed > 0
    /\ \E n \in Streamed .. MaxLength : SetLatest([text |-> response, len |-> n])
    /\ finalized' = TRUE

\* The turn failed or ran out of steps: the final text was never streamed.
FinalizeUnstreamed ==
    /\ \E n \in 1..MaxLength : SetLatest([text |-> Unstreamed, len |-> n])
    /\ finalized' = TRUE

\* The reply is the no-reply sentinel: the display is left as it is.
Suppress ==
    /\ turn = "streaming"
    /\ turn' = "over"
    /\ result' = "suppressed"
    /\ UNCHANGED <<response, displayVars, retries, shown>>

TurnChecks ==
    /\ turn = "checking"
    /\ turn' = IF finalized THEN "polling" ELSE "streaming"
    /\ NextAction
    /\ UNCHANGED <<response, result, retries, shown>>

Return(value) == turn' = "over" /\ result' = value

AnythingShown == messageId # 0 \/ displayed # None \/ committed > 0

AllShown ==
    \/ committed = latest.len
    \/ /\ displayed = Active(latest, committed)
       /\ displayed # None
       /\ displayed.to = latest.len

\* One iteration of finalize_streaming_display's loop.
Poll ==
    LET givesUp == ~InFlight /\ failed /\ AnythingShown
        done == ~InFlight /\ AllShown
        fallsBack == ~InFlight /\ messageId = 0 /\ displayed = None
    IN  /\ turn = "polling"
        /\ \/ givesUp /\ Return("error")
           \/ ~givesUp /\ done /\ Return("ok")
           \/ /\ ~givesUp /\ ~done /\ fallsBack
              /\ turn' = "fallback" /\ UNCHANGED result
           \/ /\ ~givesUp /\ ~done /\ ~fallsBack
              /\ turn' = "checking" /\ UNCHANGED result
        /\ UNCHANGED <<response, displayVars, retries, shown>>

\* gateway.send_message of the whole text, which the channel accepts only up
\* to its limit.
Fallback ==
    LET whole == [text |-> latest.text, from |-> 1, to |-> latest.len] IN
    /\ turn = "fallback"
    /\ \/ latest.len <= Limit /\ shown' = Append(shown, whole) /\ Return("ok")
       \/ UNCHANGED shown /\ Return("error")
    /\ UNCHANGED <<response, displayVars, retries>>

TurnStep == TurnChecks \/ Poll \/ Fallback
TaskStep == SendSucceeds \/ SendFails \/ EditSucceeds \/ EditFails \/ TaskRetries

\* The turn is over and the tasks it spawned have ended.
DisplayQuiescent ==
    /\ turn = "over" /\ ~InFlight /\ retries = 0 /\ ~tooSoon
    /\ UNCHANGED streamVars

DisplayNext ==
    \/ TextDelta \/ NextResponse
    \/ FinalizeReply \/ FinalizeUnstreamed \/ Suppress
    \/ TurnStep
    \/ TaskStep
    \/ IntervalElapses
    \/ DisplayQuiescent

DisplaySpec == DisplayInit /\ [][DisplayNext]_streamVars

\* The runtime schedules the turn's task and the spawned ones, calls to the
\* channel return, and time passes.  The provider may stall for ever.
DisplayFairSpec ==
    /\ DisplaySpec
    /\ WF_streamVars(TurnStep) /\ WF_streamVars(TaskStep)
    /\ WF_streamVars(IntervalElapses)

-----------------------------------------------------------------------------
(* Properties                                                               *)

\* The variables hold what the code's types allow.
DisplayTypeOK ==
    /\ response \in 1..MaxResponses
    /\ turn \in {"streaming", "checking", "polling", "fallback", "over"}
    /\ result \in {"none", "ok", "error", "suppressed"}
    /\ latest \in Contents
    /\ committed \in 0..MaxLength
    /\ {displayed, sending, editing} \subseteq Segments \cup {None}
    /\ {messageId, target} \subseteq 0..Len(shown)
    /\ {attempted, finalized, failed, tooSoon} \subseteq BOOLEAN
    /\ retries \in Nat
    /\ shown \in Seq(Segments)

\* The messages show text t from its first character to its n-th, in order
\* and with nothing missing or repeated.
Shows(t, n) ==
    /\ shown # <<>>
    /\ \A m \in DOMAIN shown :
           /\ shown[m].text = t
           /\ shown[m].from = IF m = 1 THEN 1 ELSE shown[m - 1].to + 1
    /\ shown[Len(shown)].to = n

\* When finalize_streaming_display reports success and no text of an earlier
\* response had been committed, the channel shows the reply, all of it, once
\* and in order, however sends, edits and rollovers interleaved with deltas.
ReplyIsShown ==
    (/\ result = "ok" /\ ~failed
     /\ \A m \in 1..Len(shown) - 1 : shown[m].text = latest.text)
    => Shows(latest.text, latest.len)

\* No two messages show the same characters unless a send failed, whether
\* the deltas outran the sends or the finalizer raced an edit in flight.
NothingTwice ==
    ~failed => \A m, n \in DOMAIN shown :
        m # n /\ shown[m].text = shown[n].text =>
            shown[m].to < shown[n].from \/ shown[n].to < shown[m].from

\* The display's picture of its message is the message on the channel: an
\* edit in flight is the only way they differ, so comparing with
\* displayed_segment never skips a needed edit.
PictureIsTrue ==
    ~failed /\ messageId # 0 /\ editing = None =>
        messageId = Len(shown) /\ shown[messageId] = displayed

\* What the display believes of the channel, and what the channel shows of a
\* text, never drift apart.
DisplayIsConsistent == NothingTwice /\ PictureIsTrue

\* A message that has been rolled over is never touched again, though edits
\* and sends are carried out by tasks that started earlier.
CommittedIsFinal ==
    [][\A m \in 1..Len(shown) - 1 : shown'[m] = shown[m]]_shown

\* "finalizer should not spin forever": it always returns.
FinalizerReturns == turn = "polling" ~> turn = "over"

\* It does return when the final text is at least as long as what has been
\* committed, failures of sends and edits included.
FinalizerReturnsUnlessShorter ==
    turn = "polling" /\ committed <= latest.len ~> turn = "over"

=============================================================================
