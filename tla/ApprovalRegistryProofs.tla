------------------------ MODULE ApprovalRegistryProofs ------------------------
(***************************************************************************)
(* Proofs about the approval registry: it agrees with the tasks that wait, *)
(* every decision was made by the user it was asked of, and until the      *)
(* process restarts it was made on the very prompt that showed the action. *)
(* One inductive invariant carries all three.                              *)
(***************************************************************************)
EXTENDS ApprovalRegistry, SequenceTheorems, TLAPS

Live(r) == at[r] \in {"sending", "waiting", "removing", "deleting"}

\* The requester of r pressed the button for this decision on a prompt that
\* carries r's id.
PressedUnder(i, user, decision) ==
    \E c \in 1..Len(clicks) :
        /\ clicks[c].user = user
        /\ clicks[c].decision = decision
        /\ id[clicks[c].prompt] = i

\* The types the steps rely on; ids are only known to be numbers.
Shape ==
    /\ nextId \in Nat \ {0} /\ restarts \in Nat
    /\ at \in [Requests -> {"idle", "sending", "waiting", "removing",
                            "deleting", "over"}]
    /\ id \in [Requests -> Nat]
    /\ answer \in [Requests -> {None} \cup Decisions]
    /\ outcome \in [Requests -> {None, "TimedOut", "SendFailed", "Dropped"}
                                    \cup Decisions]
    /\ prompt \in [Requests -> {None, "shown", "closed", "deleted"}]
    /\ clicks \in Seq(Interactions)
    /\ queue \in Seq([id : Nat, user : Users, decision : Decisions])

\* Each entry of the registry is under the id of its own request, ids that
\* are in use are distinct and below the counter, and a request that has not
\* begun has left no trace.
IdsAgree ==
    /\ \A i \in DOMAIN pending :
           /\ i \in Nat /\ i < nextId
           /\ pending[i] \in Requests /\ at[pending[i]] # "idle"
           /\ id[pending[i]] = i
    /\ \A r \in Requests : Live(r) => id[r] < nextId /\ id[r] # 0
    /\ \A r, s \in Requests : Live(r) /\ Live(s) /\ id[r] = id[s] => r = s
    /\ \A r \in Requests : at[r] = "idle" =>
           id[r] = 0 /\ answer[r] = None /\ outcome[r] = None /\ prompt[r] = None
    /\ \A c \in 1..Len(clicks) : at[clicks[c].prompt] # "idle"

\* Every decision under way goes back to a press by its requester.
DecisionsArePressed ==
    /\ \A q \in 1..Len(queue) :
           PressedUnder(queue[q].id, queue[q].user, queue[q].decision)
    /\ \A r \in Requests :
           /\ answer[r] # None => PressedUnder(id[r], Requester[r], answer[r])
           /\ outcome[r] \in Decisions =>
                  PressedUnder(id[r], Requester[r], outcome[r])

\* Until a restart no id is given twice.
IdsAreUnique ==
    restarts = 0 =>
        /\ \A r \in Requests : id[r] < nextId
        /\ \A r, s \in Requests : id[r] = id[s] /\ id[r] # 0 => r = s
        /\ \A r \in Requests : at[r] # "idle" => id[r] # 0

ApprovalInv ==
    /\ Shape /\ IdsAgree /\ RegistryAgrees
    /\ DecisionsArePressed /\ IdsAreUnique

-----------------------------------------------------------------------------
(* Presses                                                                  *)

\* A press stays what it is: no step forgets one, and the id its prompt
\* carries no longer changes.
LEMMA PressStays ==
    ASSUME Len(clicks) \in Nat, Len(clicks') \in Nat, Len(clicks) <= Len(clicks'),
           \A c \in 1..Len(clicks) :
               /\ clicks'[c].user = clicks[c].user
               /\ clicks'[c].decision = clicks[c].decision
               /\ clicks'[c].prompt = clicks[c].prompt
               /\ id'[clicks[c].prompt] = id[clicks[c].prompt],
           NEW i, NEW user, NEW decision, PressedUnder(i, user, decision)
    PROVE  PressedUnder(i, user, decision)'
<1>1. PICK c \in 1..Len(clicks) :
          /\ clicks[c].user = user /\ clicks[c].decision = decision
          /\ id[clicks[c].prompt] = i
  BY DEF PressedUnder
<1>2. c \in 1..Len(clicks')
  OBVIOUS
<1> QED
  BY <1>1, <1>2 DEF PressedUnder

\* A step that leaves the presses, their ids, the queue and the answers alone
\* and returns no decision of its own.
LEMMA DecisionsStay ==
    ASSUME DecisionsArePressed, UNCHANGED <<clicks, id, queue, answer>>,
           \A r \in Requests : outcome'[r] \in Decisions =>
               outcome'[r] = outcome[r] \/ (outcome'[r] = answer[r] /\ answer[r] # None)
    PROVE  DecisionsArePressed'
<1>1. \A i, user, decision :
          PressedUnder(i, user, decision)' <=> PressedUnder(i, user, decision)
  BY DEF PressedUnder
<1> QED
  BY <1>1 DEF DecisionsArePressed

\* A step that leaves the registry, the ids and the presses alone, begins no
\* request and brings none back to life keeps the ids as they were.
LEMMA IdsStay ==
    ASSUME Shape, IdsAgree, IdsAreUnique,
           UNCHANGED <<nextId, pending, id, clicks, restarts>>,
           \A s \in Requests : /\ at'[s] = "idle" <=> at[s] = "idle"
                               /\ Live(s)' => Live(s)
                               /\ at[s] = "idle" => /\ answer'[s] = answer[s]
                                                    /\ outcome'[s] = outcome[s]
                                                    /\ prompt'[s] = prompt[s]
    PROVE  IdsAgree' /\ IdsAreUnique'
<1>1. \A c \in 1..Len(clicks) : clicks[c].prompt \in Requests
  <2>1. \A c \in 1..Len(clicks) : clicks[c] \in Interactions
    BY DEF Shape
  <2> QED
    BY <2>1 DEF Interactions
<1> QED
  BY <1>1 DEF IdsAgree, IdsAreUnique

-----------------------------------------------------------------------------
(* The steps of a requester                                                 *)

\* Posting, waiting, giving up: the registry and the queue are not touched.
LEMMA RequesterKeeps ==
    ASSUME ApprovalInv, NEW r \in Requests,
           \/ PromptPosted(r) \/ SendReturns(r) \/ SendFails(r)
           \/ ReceiveDecision(r) \/ TimeoutElapses(r)
           \/ DeletePrompt(r) \/ TaskPanics(r)
    PROVE  ApprovalInv'
<1> USE DEF Decisions, None
<1>1. ASSUME PromptPosted(r) PROVE ApprovalInv'
  <2>1. Shape' /\ IdsAgree' /\ RegistryAgrees' /\ IdsAreUnique'
    <3>1. Shape'
      BY <1>1 DEF PromptPosted, registryVars, requesterVars, ApprovalInv, Shape
    <3>2. IdsAgree' /\ IdsAreUnique'
      BY <1>1, IdsStay DEF PromptPosted, registryVars, requesterVars, ApprovalInv, Shape, Live
    <3>3. RegistryAgrees'
      BY <1>1 DEF PromptPosted, registryVars, requesterVars, ApprovalInv, Shape,
         RegistryAgrees, Answerable, DecidedIsGone, NoForgottenEntries,
         HasReceiver
    <3> QED
      BY <3>1, <3>2, <3>3
  <2>2. DecisionsArePressed'
    BY <1>1, DecisionsStay DEF PromptPosted, registryVars, requesterVars, ApprovalInv, Shape
  <2> QED
    BY <2>1, <2>2 DEF ApprovalInv
<1>2. ASSUME SendReturns(r) PROVE ApprovalInv'
  <2>1. Shape' /\ IdsAgree' /\ RegistryAgrees' /\ IdsAreUnique'
    <3>1. Shape'
      BY <1>2 DEF SendReturns, registryVars, ApprovalInv, Shape
    <3>2. IdsAgree' /\ IdsAreUnique'
      BY <1>2, IdsStay DEF SendReturns, registryVars, ApprovalInv, Shape, Live
    <3>3. RegistryAgrees'
      BY <1>2 DEF SendReturns, registryVars, ApprovalInv, Shape,
         RegistryAgrees, Answerable, DecidedIsGone, NoForgottenEntries,
         HasReceiver
    <3> QED
      BY <3>1, <3>2, <3>3
  <2>2. DecisionsArePressed'
    BY <1>2, DecisionsStay DEF SendReturns, registryVars, ApprovalInv, Shape
  <2> QED
    BY <2>1, <2>2 DEF ApprovalInv
<1>3. ASSUME SendFails(r) PROVE ApprovalInv'
  <2>1. Shape' /\ IdsAgree' /\ RegistryAgrees' /\ IdsAreUnique'
    <3>1. Shape'
      BY <1>3 DEF SendFails, End, registryVars, ApprovalInv, Shape
    <3>2. IdsAgree' /\ IdsAreUnique'
      BY <1>3, IdsStay DEF SendFails, End, registryVars, ApprovalInv, Shape, Live
    <3>3. RegistryAgrees'
      BY <1>3 DEF SendFails, End, registryVars, ApprovalInv, Shape,
         RegistryAgrees, Answerable, DecidedIsGone, NoForgottenEntries,
         HasReceiver
    <3> QED
      BY <3>1, <3>2, <3>3
  <2>2. DecisionsArePressed'
    BY <1>3, DecisionsStay DEF SendFails, End, registryVars, ApprovalInv, Shape
  <2> QED
    BY <2>1, <2>2 DEF ApprovalInv
<1>4. ASSUME ReceiveDecision(r) PROVE ApprovalInv'
  <2>1. Shape' /\ IdsAgree' /\ RegistryAgrees' /\ IdsAreUnique'
    <3>1. Shape'
      BY <1>4 DEF ReceiveDecision, Decide, registryVars, ApprovalInv, Shape
    <3>2. IdsAgree' /\ IdsAreUnique'
      BY <1>4, IdsStay DEF ReceiveDecision, Decide, registryVars, ApprovalInv, Shape, Live
    <3>3. RegistryAgrees'
      BY <1>4 DEF ReceiveDecision, Decide, registryVars, ApprovalInv, Shape,
         RegistryAgrees, Answerable, DecidedIsGone, NoForgottenEntries,
         HasReceiver
    <3> QED
      BY <3>1, <3>2, <3>3
  <2>2. DecisionsArePressed'
    BY <1>4, DecisionsStay DEF ReceiveDecision, Decide, registryVars, ApprovalInv, Shape
  <2> QED
    BY <2>1, <2>2 DEF ApprovalInv
<1>5. ASSUME TimeoutElapses(r) PROVE ApprovalInv'
  <2>1. Shape' /\ IdsAgree' /\ RegistryAgrees' /\ IdsAreUnique'
    <3>1. Shape'
      BY <1>5 DEF TimeoutElapses, Decide, registryVars, ApprovalInv, Shape
    <3>2. IdsAgree' /\ IdsAreUnique'
      BY <1>5, IdsStay DEF TimeoutElapses, Decide, registryVars, ApprovalInv, Shape, Live
    <3>3. RegistryAgrees'
      BY <1>5 DEF TimeoutElapses, Decide, registryVars, ApprovalInv, Shape,
         RegistryAgrees, Answerable, DecidedIsGone, NoForgottenEntries,
         HasReceiver
    <3> QED
      BY <3>1, <3>2, <3>3
  <2>2. DecisionsArePressed'
    BY <1>5, DecisionsStay DEF TimeoutElapses, Decide, registryVars, ApprovalInv, Shape
  <2> QED
    BY <2>1, <2>2 DEF ApprovalInv
<1>6. ASSUME DeletePrompt(r) PROVE ApprovalInv'
  <2>1. Shape' /\ IdsAgree' /\ RegistryAgrees' /\ IdsAreUnique'
    <3>1. Shape'
      BY <1>6 DEF DeletePrompt, registryVars, ApprovalInv, Shape
    <3>2. IdsAgree' /\ IdsAreUnique'
      BY <1>6, IdsStay DEF DeletePrompt, registryVars, ApprovalInv, Shape, Live
    <3>3. RegistryAgrees'
      BY <1>6 DEF DeletePrompt, registryVars, ApprovalInv, Shape,
         RegistryAgrees, Answerable, DecidedIsGone, NoForgottenEntries,
         HasReceiver
    <3> QED
      BY <3>1, <3>2, <3>3
  <2>2. DecisionsArePressed'
    BY <1>6, DecisionsStay DEF DeletePrompt, registryVars, ApprovalInv, Shape
  <2> QED
    BY <2>1, <2>2 DEF ApprovalInv
<1>7. ASSUME TaskPanics(r) PROVE ApprovalInv'
  <2>1. Shape' /\ IdsAgree' /\ RegistryAgrees' /\ IdsAreUnique'
    <3>1. Shape'
      BY <1>7 DEF TaskPanics, End, registryVars, ApprovalInv, Shape
    <3>2. IdsAgree' /\ IdsAreUnique'
      BY <1>7, IdsStay DEF TaskPanics, End, registryVars, ApprovalInv, Shape, Live
    <3>3. RegistryAgrees'
      BY <1>7 DEF TaskPanics, End, registryVars, ApprovalInv, Shape,
         RegistryAgrees, Answerable, DecidedIsGone, NoForgottenEntries,
         HasReceiver
    <3> QED
      BY <3>1, <3>2, <3>3
  <2>2. DecisionsArePressed'
    BY <1>7, DecisionsStay DEF TaskPanics, End, registryVars, ApprovalInv, Shape
  <2> QED
    BY <2>1, <2>2 DEF ApprovalInv
<1> QED
  BY <1>1, <1>2, <1>3, <1>4, <1>5, <1>6, <1>7

\* A request enters the registry under an id nobody has.
LEMMA RegisterKeeps ==
    ASSUME ApprovalInv, NEW r \in Requests, Register(r)
    PROVE  ApprovalInv'
<1> USE DEF Decisions, None
<1>1. /\ at[r] = "idle" /\ nextId \in Nat \ {0} /\ nextId \notin DOMAIN pending
      /\ nextId' = nextId + 1
      /\ at' = [at EXCEPT ![r] = "sending"] /\ id' = [id EXCEPT ![r] = nextId]
      /\ DOMAIN pending' = DOMAIN pending \cup {nextId} /\ pending'[nextId] = r
      /\ \A i \in DOMAIN pending : pending'[i] = pending[i] /\ pending[i] # r
      /\ UNCHANGED <<answer, outcome, prompt, clicks, queue, restarts>>
  BY DEF Register, ApprovalInv, Shape, IdsAgree
<1>2. Shape'
  BY <1>1 DEF ApprovalInv, Shape
<1>3. IdsAgree'
  BY <1>1, <1>2 DEF ApprovalInv, Shape, IdsAgree, Live
<1>4. RegistryAgrees'
  BY <1>1, <1>2 DEF ApprovalInv, Shape, IdsAgree, RegistryAgrees, Answerable,
     DecidedIsGone, NoForgottenEntries, HasReceiver, Live
<1>5. IdsAreUnique'
  BY <1>1, <1>2 DEF ApprovalInv, Shape, IdsAgree, IdsAreUnique
<1>6. \A i, user, decision :
          PressedUnder(i, user, decision) => PressedUnder(i, user, decision)'
  <2>1. \A c \in 1..Len(clicks) : id'[clicks[c].prompt] = id[clicks[c].prompt]
    BY <1>1 DEF ApprovalInv, Shape, IdsAgree
  <2> QED
    BY <1>1, <2>1 DEF PressedUnder
<1>7. DecisionsArePressed'
  BY <1>1, <1>6 DEF ApprovalInv, Shape, IdsAgree, DecisionsArePressed
<1> QED
  BY <1>2, <1>3, <1>4, <1>5, <1>7 DEF ApprovalInv

\* wait_for_decision takes its own request out of the registry and no other.
LEMMA RemovePendingKeeps ==
    ASSUME ApprovalInv, NEW r \in Requests, RemovePending(r)
    PROVE  ApprovalInv'
<1> USE DEF Decisions, None
<1>1. /\ at[r] = "removing" /\ DOMAIN pending' = DOMAIN pending \ {id[r]}
      /\ \A i \in DOMAIN pending' : pending'[i] = pending[i] /\ pending[i] # r
      /\ at' \in {[at EXCEPT ![r] = "deleting"], [at EXCEPT ![r] = "over"]}
      /\ UNCHANGED <<nextId, answer, id, outcome, prompt, clicks, queue, restarts>>
  BY DEF RemovePending, Without, ApprovalInv, IdsAgree
<1>2. Shape'
  BY <1>1 DEF ApprovalInv, Shape
<1>3. IdsAgree' /\ IdsAreUnique'
  <2>1. \A s \in Requests : (Live(s)' => Live(s)) /\ (at'[s] = "idle" <=> at[s] = "idle")
    BY <1>1 DEF ApprovalInv, Shape, Live
  <2>2. \A c \in 1..Len(clicks) : clicks[c].prompt \in Requests
    <3>1. \A c \in 1..Len(clicks) : clicks[c] \in Interactions
      BY DEF ApprovalInv, Shape
    <3> QED
      BY <3>1 DEF Interactions
  <2> QED
    BY <1>1, <2>1, <2>2 DEF ApprovalInv, IdsAgree, IdsAreUnique
<1>4. RegistryAgrees'
  BY <1>1, <1>2 DEF ApprovalInv, Shape, IdsAgree, RegistryAgrees, Answerable,
     DecidedIsGone, NoForgottenEntries, HasReceiver, Live
<1>5. DecisionsArePressed'
  BY <1>1, DecisionsStay DEF ApprovalInv
<1> QED
  BY <1>2, <1>3, <1>4, <1>5 DEF ApprovalInv

-----------------------------------------------------------------------------
(* The handlers, the listener and the process                               *)

\* A press changes nothing but the list of presses.
LEMMA ClickKeeps ==
    ASSUME ApprovalInv, NEW r \in Requests, NEW u \in Users,
           NEW decision \in Decisions, Click(r, u, decision)
    PROVE  ApprovalInv'
<1> DEFINE new == [prompt |-> r, user |-> u, decision |-> decision, at |-> "clicked"]
<1>1. /\ clicks \in Seq(Interactions) /\ new \in Interactions
      /\ clicks' = Append(clicks, new) /\ prompt[r] = "shown" /\ at[r] # "idle"
      /\ UNCHANGED <<nextId, pending, at, id, answer, outcome, prompt, queue, restarts>>
  BY DEF Click, ApprovalInv, Shape, IdsAgree, None, Interactions, requesterVars,
     registryVars
<1>2. new.prompt = r
  OBVIOUS
<1> HIDE DEF new
<1>3. /\ clicks' \in Seq(Interactions) /\ Len(clicks) \in Nat
      /\ Len(clicks') = Len(clicks) + 1 /\ clicks'[Len(clicks) + 1] = new
      /\ \A c \in 1..Len(clicks) : clicks'[c] = clicks[c]
  BY <1>1
<1>4. Shape'
  BY <1>1, <1>3 DEF ApprovalInv, Shape
<1>5. IdsAgree'
  <2>1. \A c \in 1..Len(clicks') : at[clicks'[c].prompt] # "idle"
    BY <1>1, <1>2, <1>3 DEF ApprovalInv, IdsAgree
  <2> QED
    BY <1>1, <2>1 DEF ApprovalInv, IdsAgree, Live
<1>6. RegistryAgrees' /\ IdsAreUnique'
  BY <1>1 DEF ApprovalInv, RegistryAgrees, Answerable, DecidedIsGone,
     NoForgottenEntries, HasReceiver, IdsAreUnique
<1>7. \A i, user, d : PressedUnder(i, user, d) => PressedUnder(i, user, d)'
  BY <1>1, <1>3, PressStays
<1>8. DecisionsArePressed'
  BY <1>1, <1>7 DEF ApprovalInv, DecisionsArePressed
<1> QED
  BY <1>4, <1>5, <1>6, <1>8 DEF ApprovalInv

\* What a handler does with its press leaves prompt, user and decision of it.
LEMMA ClickAtKeeps ==
    ASSUME ApprovalInv, NEW c \in DOMAIN clicks,
           NEW place \in {"sending", "acking", "over"}, ClickAt(c, place)
    PROVE  /\ c \in 1..Len(clicks)
           /\ clicks' \in Seq(Interactions) /\ Len(clicks') = Len(clicks)
           /\ Len(clicks) \in Nat
           /\ \A k \in 1..Len(clicks) : /\ clicks[k] \in Interactions
                                        /\ clicks'[k].user = clicks[k].user
                                        /\ clicks'[k].decision = clicks[k].decision
                                        /\ clicks'[k].prompt = clicks[k].prompt
<1> DEFINE new == [clicks[c] EXCEPT !.at = place]
<1>1. clicks \in Seq(Interactions) /\ c \in 1..Len(clicks) /\ Len(clicks) \in Nat
  BY DEF ApprovalInv, Shape
<1>2. \A k \in 1..Len(clicks) : clicks[k] \in Interactions
  BY <1>1
<1>3. /\ new \in Interactions /\ new.user = clicks[c].user
      /\ new.decision = clicks[c].decision /\ new.prompt = clicks[c].prompt
      /\ clicks' = [clicks EXCEPT ![c] = new]
  BY <1>1, <1>2 DEF ClickAt, Interactions
<1> HIDE DEF new
<1>4. /\ clicks' \in Seq(Interactions) /\ Len(clicks') = Len(clicks)
      /\ \A k \in 1..Len(clicks) : clicks'[k] = IF k = c THEN new ELSE clicks[k]
  BY <1>1, <1>3, ExceptSeq
<1> QED
  BY <1>1, <1>2, <1>3, <1>4

\* Handlers do not touch the registry, and queue only what was pressed.
LEMMA HandlerKeeps ==
    ASSUME ApprovalInv, NEW c \in DOMAIN clicks, HandlerStep(c)
    PROVE  ApprovalInv'
<1>1. PICK place \in {"sending", "acking", "over"} : ClickAt(c, place)
  BY DEF HandlerStep, Evaluate, QueueResolution, AckInteraction
<1>2. /\ c \in 1..Len(clicks)
      /\ clicks' \in Seq(Interactions) /\ Len(clicks') = Len(clicks)
      /\ Len(clicks) \in Nat
      /\ \A k \in 1..Len(clicks) : /\ clicks[k] \in Interactions
                                   /\ clicks'[k].user = clicks[k].user
                                   /\ clicks'[k].decision = clicks[k].decision
                                   /\ clicks'[k].prompt = clicks[k].prompt
  BY <1>1, ClickAtKeeps
<1>3. UNCHANGED <<nextId, pending, at, id, answer, outcome, restarts>>
  BY DEF HandlerStep, Evaluate, QueueResolution, AckInteraction, requesterVars,
     registryVars
<1>4. \A i, user, d : PressedUnder(i, user, d) => PressedUnder(i, user, d)'
  BY <1>2, <1>3, PressStays
<1>5. /\ prompt' \in [Requests -> {None, "shown", "closed", "deleted"}]
      /\ \A r \in Requests : prompt[r] = None => prompt'[r] = None
  <2>1. clicks[c].prompt \in Requests
    BY <1>2 DEF Interactions
  <2> QED
    BY <2>1 DEF HandlerStep, Evaluate, QueueResolution, AckInteraction,
       ApprovalInv, Shape, None
<1>6. /\ queue' \in Seq([id : Nat, user : Users, decision : Decisions])
      /\ \A q \in 1..Len(queue') :
             PressedUnder(queue'[q].id, queue'[q].user, queue'[q].decision)
  <2> DEFINE Res == [id : Nat, user : Users, decision : Decisions]
  <2>1. queue \in Seq(Res)
    BY DEF ApprovalInv, Shape
  <2>2. CASE queue' = queue
    BY <2>1, <2>2 DEF ApprovalInv, DecisionsArePressed
  <2>3. CASE QueueResolution(c)
    <3> DEFINE new == [id |-> id[clicks[c].prompt], user |-> clicks[c].user,
                       decision |-> clicks[c].decision]
    <3>1. new \in Res /\ queue' = Append(queue, new)
      BY <1>2, <2>3 DEF QueueResolution, ApprovalInv, Shape, Interactions
    <3>2. PressedUnder(new.id, new.user, new.decision)
      BY <1>2 DEF PressedUnder
    <3> HIDE DEF new, Res
    <3>3. /\ queue' \in Seq(Res) /\ Len(queue) \in Nat
          /\ Len(queue') = Len(queue) + 1 /\ queue'[Len(queue) + 1] = new
          /\ \A q \in 1..Len(queue) : queue'[q] = queue[q]
      BY <2>1, <3>1
    <3> QED
      BY <3>2, <3>3 DEF ApprovalInv, DecisionsArePressed, Res
  <2> QED
    BY <2>2, <2>3 DEF HandlerStep, Evaluate, AckInteraction
<1>7. Shape'
  BY <1>2, <1>3, <1>5, <1>6 DEF ApprovalInv, Shape
<1>8. IdsAgree'
  <2>1. \A k \in 1..Len(clicks') : at[clicks'[k].prompt] # "idle"
    BY <1>2 DEF ApprovalInv, IdsAgree
  <2> QED
    BY <1>3, <1>5, <2>1 DEF ApprovalInv, IdsAgree, Live
<1>9. RegistryAgrees' /\ IdsAreUnique'
  BY <1>3 DEF ApprovalInv, RegistryAgrees, Answerable, DecidedIsGone,
     NoForgottenEntries, HasReceiver, IdsAreUnique
<1>10. DecisionsArePressed'
  BY <1>3, <1>4, <1>6 DEF ApprovalInv, DecisionsArePressed
<1> QED
  BY <1>7, <1>8, <1>9, <1>10 DEF ApprovalInv

\* A resolution takes one request out of the registry and answers it, or does
\* nothing.
LEMMA ResolveKeeps ==
    ASSUME ApprovalInv, Resolve
    PROVE  ApprovalInv'
<1> USE DEF Decisions, None
<1> DEFINE Res == [id : Nat, user : Users, decision : Decisions]
<1> DEFINE res == Head(queue)
<1> DEFINE r == pending[res.id]
<1> DEFINE accepted == res.id \in DOMAIN pending /\ Requester[r] = res.user
<1>1. /\ queue \in Seq(Res) /\ queue # << >> /\ queue' = Tail(queue)
      /\ UNCHANGED <<nextId, at, id, outcome, prompt, clicks, restarts>>
  BY DEF Resolve, ApprovalInv, Shape, requesterVars
<1>2. /\ res \in Res /\ res = queue[1] /\ 1 \in 1..Len(queue)
      /\ queue' \in Seq(Res) /\ Len(queue') = Len(queue) - 1
      /\ Len(queue) \in Nat
      /\ \A q \in 1..Len(queue') : queue'[q] = queue[q + 1] /\ q + 1 \in 1..Len(queue)
  <2> HIDE DEF Res
  <2>1. Len(queue) \in Nat /\ Len(queue) # 0
    BY <1>1, EmptySeq
  <2> QED
    BY <1>1, <2>1, HeadTailProperties
<1>3. \A i, user, d : PressedUnder(i, user, d)' <=> PressedUnder(i, user, d)
  BY <1>1 DEF PressedUnder
<1>4. \A q \in 1..Len(queue') :
          PressedUnder(queue'[q].id, queue'[q].user, queue'[q].decision)
  BY <1>2 DEF ApprovalInv, DecisionsArePressed
<1>5. CASE ~accepted
  <2>1. UNCHANGED <<pending, answer>>
    BY <1>5 DEF Resolve
  <2>2. Shape'
    BY <1>1, <1>2, <2>1 DEF ApprovalInv, Shape
  <2>3. IdsAgree' /\ RegistryAgrees' /\ IdsAreUnique'
    BY <1>1, <2>1 DEF ApprovalInv, IdsAgree, Live, RegistryAgrees, Answerable,
       DecidedIsGone, NoForgottenEntries, HasReceiver, IdsAreUnique
  <2>4. DecisionsArePressed'
    BY <1>1, <1>3, <1>4, <2>1 DEF ApprovalInv, DecisionsArePressed
  <2> QED
    BY <2>2, <2>3, <2>4 DEF ApprovalInv
<1>6. CASE accepted
  <2>1. /\ r \in Requests /\ id[r] = res.id /\ at[r] # "idle"
        /\ Requester[r] = res.user /\ res.decision \in Decisions
    BY <1>2, <1>6 DEF ApprovalInv, IdsAgree
  <2>2. /\ DOMAIN pending' = DOMAIN pending \ {id[r]}
        /\ \A i \in DOMAIN pending' : pending'[i] = pending[i]
        /\ answer' = IF HasReceiver(r) THEN [answer EXCEPT ![r] = res.decision]
                     ELSE answer
    BY <1>6, <2>1 DEF Resolve, Without
  <2>3. PressedUnder(id[r], Requester[r], res.decision)
    BY <1>2, <2>1 DEF ApprovalInv, DecisionsArePressed
  <2> HIDE DEF res, r, accepted
  <2>4. Shape'
    BY <1>1, <1>2, <2>1, <2>2 DEF ApprovalInv, Shape
  <2>5. IdsAgree' /\ IdsAreUnique'
    BY <1>1, <2>1, <2>2, <2>4 DEF ApprovalInv, Shape, IdsAgree, Live, IdsAreUnique
  <2>6. \A i \in DOMAIN pending' : pending'[i] # r
    BY <2>2 DEF ApprovalInv, IdsAgree
  <2>7. RegistryAgrees'
    <3>1. answer \in [Requests -> {None} \cup Decisions]
      BY DEF ApprovalInv, Shape
    <3>2. \A s \in Requests : s # r => answer'[s] = answer[s]
      BY <2>1, <2>2, <3>1
    <3>3. Answerable'
      <4> SUFFICES ASSUME NEW s \in Requests, HasReceiver(s), answer'[s] = None
                   PROVE  id[s] \in DOMAIN pending' /\ pending'[id[s]] = s
        BY <1>1 DEF Answerable, HasReceiver
      <4>1. s # r
        BY <2>1, <2>2, <3>1
      <4>2. id[s] \in DOMAIN pending /\ pending[id[s]] = s
        BY <3>2, <4>1 DEF ApprovalInv, RegistryAgrees, Answerable
      <4>3. id[s] # id[r]
        BY <4>1, <4>2, <1>6, <2>1 DEF accepted, r
      <4> QED
        BY <2>2, <4>2, <4>3
    <3>4. DecidedIsGone'
      BY <2>2, <2>6, <3>2 DEF ApprovalInv, RegistryAgrees, DecidedIsGone
    <3>5. NoForgottenEntries'
      BY <1>1, <2>2 DEF ApprovalInv, RegistryAgrees, NoForgottenEntries
    <3> QED
      BY <3>3, <3>4, <3>5 DEF RegistryAgrees
  <2>8. DecisionsArePressed'
    BY <1>1, <1>3, <1>4, <2>1, <2>2, <2>3 DEF ApprovalInv, Shape,
       DecisionsArePressed
  <2> QED
    BY <2>4, <2>5, <2>7, <2>8 DEF ApprovalInv
<1> QED
  BY <1>5, <1>6

\* A restart empties the registry and ends every task.
LEMMA RestartKeeps ==
    ASSUME ApprovalInv, Restart
    PROVE  ApprovalInv'
<1> USE DEF Decisions, None
<1>1. /\ nextId' = 1 /\ DOMAIN pending' = {} /\ queue' = << >>
      /\ restarts' = restarts + 1 /\ UNCHANGED <<answer, id, prompt>>
      /\ at' \in [Requests -> {"idle", "over"}]
      /\ \A r \in Requests : /\ at'[r] = "idle" <=> at[r] = "idle"
                             /\ outcome'[r] \in {outcome[r], "Dropped"}
                             /\ at[r] = "idle" => outcome'[r] = outcome[r]
      /\ outcome' \in [Requests -> {None, "TimedOut", "SendFailed", "Dropped"}
                                       \cup Decisions]
  BY DEF Restart, ApprovalInv, Shape
<1>2. /\ clicks \in Seq(Interactions) /\ Len(clicks) \in Nat
      /\ DOMAIN clicks = 1..Len(clicks)
      /\ \A c \in 1..Len(clicks) : clicks[c] \in Interactions
  BY DEF ApprovalInv, Shape
<1>3. clicks' = [c \in 1..Len(clicks) |-> [clicks[c] EXCEPT !.at = "over"]]
  BY <1>2 DEF Restart
<1>4. \A c \in 1..Len(clicks) : [clicks[c] EXCEPT !.at = "over"] \in Interactions
  BY <1>2 DEF Interactions
<1>5. /\ clicks' \in Seq(Interactions) /\ Len(clicks') = Len(clicks)
      /\ \A c \in 1..Len(clicks) : /\ clicks'[c].user = clicks[c].user
                                   /\ clicks'[c].decision = clicks[c].decision
                                   /\ clicks'[c].prompt = clicks[c].prompt
                                   /\ clicks[c].prompt \in Requests
  <2>1. clicks' \in Seq(Interactions) /\ Len(clicks') = Len(clicks)
    BY <1>2, <1>3, <1>4, IsASeq, SeqDef
  <2> QED
    BY <1>2, <1>3, <2>1 DEF Interactions
<1>6. \A i, user, d : PressedUnder(i, user, d) => PressedUnder(i, user, d)'
  BY <1>1, <1>2, <1>5, PressStays
<1>7. Shape'
  BY <1>1, <1>5 DEF ApprovalInv, Shape
<1>8. IdsAgree'
  <2>1. \A c \in 1..Len(clicks') : at'[clicks'[c].prompt] # "idle"
    BY <1>1, <1>5 DEF ApprovalInv, IdsAgree
  <2> QED
    BY <1>1, <2>1 DEF ApprovalInv, IdsAgree, Live
<1>9. RegistryAgrees'
  BY <1>1 DEF RegistryAgrees, Answerable, DecidedIsGone, NoForgottenEntries,
     HasReceiver
<1>10. IdsAreUnique'
  BY <1>1 DEF ApprovalInv, Shape, IdsAreUnique
<1>11. DecisionsArePressed'
  BY <1>1, <1>6 DEF ApprovalInv, Shape, DecisionsArePressed
<1> QED
  BY <1>7, <1>8, <1>9, <1>10, <1>11 DEF ApprovalInv

\* Every step keeps the invariant, and it holds at the start.
LEMMA ApprovalInvariant == Spec => []ApprovalInv
<1>1. Init => ApprovalInv
  <2> SUFFICES ASSUME Init PROVE ApprovalInv
    OBVIOUS
  <2>1. Len(clicks) = 0 /\ Len(queue) = 0 /\ DOMAIN pending = {}
    BY DEF Init
  <2>2. Shape
    BY DEF Init, Shape
  <2> QED
    BY <2>1, <2>2 DEF Init, ApprovalInv, IdsAgree, Live, RegistryAgrees,
       Answerable, DecidedIsGone, NoForgottenEntries, HasReceiver,
       DecisionsArePressed, IdsAreUnique, None, Decisions
<1>2. ASSUME ApprovalInv, [Next]_vars PROVE ApprovalInv'
  <2>1. CASE UNCHANGED vars
    BY <1>2, <2>1 DEF vars, ApprovalInv, Shape, IdsAgree, Live, RegistryAgrees,
       Answerable, DecidedIsGone, NoForgottenEntries, HasReceiver,
       DecisionsArePressed, PressedUnder, IdsAreUnique
  <2> QED
    BY <1>2, <2>1, RegisterKeeps, RequesterKeeps, RemovePendingKeeps, ClickKeeps,
       HandlerKeeps, ResolveKeeps, RestartKeeps
       DEF Next, RequesterStep, Quiescent
<1> QED
  BY <1>1, <1>2, PTL DEF Spec

-----------------------------------------------------------------------------
(* Theorems                                                                 *)

\* The registry agrees with the tasks that wait (register, resolve,
\* wait_for_decision): it has every request that can still be decided, none
\* that has been, and none that was forgotten.
THEOREM RegistryStaysInStep == Spec => []RegistryAgrees
<1>1. ApprovalInv => RegistryAgrees
  BY DEF ApprovalInv
<1> QED
  BY <1>1, ApprovalInvariant, PTL

\* Whatever races between presses, timeouts, panics and restarts, a decision
\* was made by the user the request asks, on its own prompt or on one left
\* over with the same id (evaluate_approval_interaction, resolve).
THEOREM OnlyTheRequesterDecides == Spec => []DecidedByRequester
<1>1. ApprovalInv => DecidedByRequester
  <2> SUFFICES ASSUME ApprovalInv, NEW r \in Requests, outcome[r] \in Decisions
               PROVE  \/ PressedOn(r, outcome[r])
                      \/ \E old \in Requests \ {r} :
                             /\ id[old] = id[r]
                             /\ \E c \in DOMAIN clicks :
                                    /\ clicks[c].prompt = old
                                    /\ clicks[c].user = Requester[r]
                                    /\ clicks[c].decision = outcome[r]
    BY DEF DecidedByRequester
  <2>1. PICK c \in 1..Len(clicks) :
            /\ clicks[c].user = Requester[r]
            /\ clicks[c].decision = outcome[r]
            /\ id[clicks[c].prompt] = id[r]
    BY DEF ApprovalInv, DecisionsArePressed, PressedUnder
  <2>2. c \in DOMAIN clicks /\ clicks[c] \in Interactions
    BY DEF ApprovalInv, Shape
  <2>3. clicks[c].prompt \in Requests
    BY <2>2 DEF Interactions
  <2> QED
    BY <2>1, <2>2, <2>3 DEF PressedOn
<1> QED
  BY <1>1, ApprovalInvariant, PTL

\* "Stable identifier used by the UI callback to resolve the request" is true
\* of one life of the process: while nothing has restarted, what was approved
\* is the action the pressed prompt showed.
THEOREM ApprovedAsShownUntilRestart ==
    Spec => [](restarts = 0 => ApprovedAsShown)
<1>1. ApprovalInv => (restarts = 0 => ApprovedAsShown)
  <2> SUFFICES ASSUME ApprovalInv, restarts = 0, NEW r \in Requests,
                      outcome[r] = "Approved"
               PROVE  PressedOn(r, "Approved")
    BY DEF ApprovedAsShown
  <2>1. PICK c \in 1..Len(clicks) :
            /\ clicks[c].user = Requester[r]
            /\ clicks[c].decision = "Approved"
            /\ id[clicks[c].prompt] = id[r]
    BY DEF ApprovalInv, DecisionsArePressed, PressedUnder, Decisions
  <2>2. c \in DOMAIN clicks /\ clicks[c] \in Interactions
    BY DEF ApprovalInv, Shape
  <2>3. clicks[c].prompt \in Requests
    BY <2>2 DEF Interactions
  <2>4. id[r] # 0
    BY DEF ApprovalInv, Shape, IdsAgree, IdsAreUnique, None
  <2>5. clicks[c].prompt = r
    BY <2>1, <2>3, <2>4 DEF ApprovalInv, IdsAreUnique
  <2> QED
    BY <2>1, <2>2, <2>5 DEF PressedOn
<1> QED
  BY <1>1, ApprovalInvariant, PTL

=============================================================================
