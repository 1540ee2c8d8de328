--------------------------- MODULE SessionMailbox ---------------------------
(***************************************************************************)
(* What the session coordinator promises the code that runs turns: one     *)
(* mailbox per session key, served in the order of the dispatch calls, by  *)
(* a handler that never runs twice at the same time for one key and never  *)
(* sees a message twice.  It does not promise that an accepted message is  *)
(* served: a call may leave its message out, and a mailbox may lose what   *)
(* it holds.                                                               *)
(***************************************************************************)
EXTENDS Naturals, Sequences

CONSTANT Keys

VARIABLES
    calls,    \* dispatch calls so far; the last one's message is `calls`
    box,      \* key -> accepted messages not yet handed to the handler
    serving,  \* keys whose handler is running
    handled   \* key -> messages handed to the handler, in order

vars == <<calls, box, serving, handled>>

Init ==
    /\ calls = 0
    /\ box = [k \in Keys |-> <<>>]
    /\ serving = {}
    /\ handled = [k \in Keys |-> <<>>]

(* A dispatch call begins.                                                 *)
Call ==
    /\ calls' = calls + 1
    /\ UNCHANGED <<box, serving, handled>>

(* The message of the call enters its key's mailbox, at most once.         *)
Deliver(k) ==
    /\ calls > 0
    /\ \A i \in 1 .. Len(box[k]) : box[k][i] < calls
    /\ \A i \in 1 .. Len(handled[k]) : handled[k][i] < calls
    /\ box' = [box EXCEPT ![k] = Append(@, calls)]
    /\ UNCHANGED <<calls, serving, handled>>

Start(k) ==
    /\ k \notin serving
    /\ box[k] /= <<>>
    /\ serving' = serving \cup {k}
    /\ handled' = [handled EXCEPT ![k] = Append(@, Head(box[k]))]
    /\ box' = [box EXCEPT ![k] = Tail(@)]
    /\ UNCHANGED calls

Finish(k) ==
    /\ k \in serving
    /\ serving' = serving \ {k}
    /\ UNCHANGED <<calls, box, handled>>

(* The handler of k dies, and the mailbox of k with it.                    *)
Crash(k) ==
    /\ k \in serving
    /\ serving' = serving \ {k}
    /\ box' = [box EXCEPT ![k] = <<>>]
    /\ UNCHANGED <<calls, handled>>

Next == Call \/ \E k \in Keys : Deliver(k) \/ Start(k) \/ Finish(k) \/ Crash(k)

Spec == Init /\ [][Next]_vars
=============================================================================
