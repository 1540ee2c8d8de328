------------------------------ MODULE MCSessions ------------------------------
(***************************************************************************)
(* What the service loop works for (src/run.rs): the sessions of the       *)
(* gateway, and the display of the reply of one turn.  They share no       *)
(* state, so each behaviour follows one of them.                           *)
(***************************************************************************)
EXTENDS GatewaySessions, StreamingDisplay

VARIABLE followed

sessionVars == <<vars, streamVars, followed>>

MCInit == followed \in {"gateway", "display"} /\ Init /\ DisplayInit

GatewayStep(A) == followed = "gateway" /\ A /\ UNCHANGED <<streamVars, followed>>
DisplayStep(A) == followed = "display" /\ A /\ UNCHANGED <<vars, followed>>

MCNext == GatewayStep(Next) \/ DisplayStep(DisplayNext)

\* The fairness of FairSpec and DisplayFairSpec.
MCSpec ==
    /\ MCInit /\ [][MCNext]_sessionVars
    /\ WF_sessionVars(GatewayStep(EnqueueHeld))
    /\ WF_sessionVars(GatewayStep(ReceiveInbound))
    /\ WF_sessionVars(GatewayStep(NewSessionRemove))
    /\ WF_sessionVars(GatewayStep(Workers!LoopStep /\ UNCHANGED gateway))
    /\ \A w \in Workers!WorkerIds :
           WF_sessionVars(GatewayStep((Workers!Progress(w) \/ Workers!ChannelClosed(w))
                                         /\ UNCHANGED gateway))
    /\ WF_sessionVars(DisplayStep(TurnStep))
    /\ WF_sessionVars(DisplayStep(TaskStep))
    /\ WF_sessionVars(DisplayStep(IntervalElapses))

=============================================================================
