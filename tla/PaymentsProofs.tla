---------------------------- MODULE PaymentsProofs ----------------------------
(***************************************************************************)
(* Payments keeps its promises for every number of payments and requests.  *)
(***************************************************************************)
EXTENDS Payments, TLAPS

-----------------------------------------------------------------------------
\* The inductive invariant

\* How a request gets where it is.
ReqInv ==
  \A r \in Requests : req[r] # Idle =>
    /\ req[r].kind = "start" <=> req[r].pc = "starting"
    /\ req[r].pc = "asking" => req[r].kind = "return"
    /\ req[r].kind = "return" => provider[req[r].p] # "none"
    /\ req[r].pc = "applying" => req[r].cat # "none"
    /\ req[r].kind = "webhook" => req[r].cat # "none"

\* A message is kept until it is answered, and nobody else answers it meanwhile.
WebhookInv ==
  \A r \in Requests : req[r] # Idle /\ req[r].kind = "webhook" =>
    /\ <<req[r].p, req[r].cat>> \in hooks
    /\ \A s \in Requests \ {r} : ~Handles(s, <<req[r].p, req[r].cat>>)

\* The provider knows nothing of a payment before it has answered the start view.
StartInv ==
  /\ \A p \in Payments : status[p] = "none" => provider[p] = "none"
  /\ \A r \in Requests : req[r] # Idle /\ req[r].kind = "start" =>
       /\ status[req[r].p] # "none"
       /\ provider[req[r].p] = "none"
       /\ \A s \in Requests \ {r} :
            req[s] # Idle /\ req[s].kind = "start" => req[s].p # req[r].p

\* Nobody says "completed" of what is not paid.
PaidInv ==
  /\ \A m \in hooks : m[2] = "completed" => provider[m[1]] \in PaidCategories
  /\ \A r \in Requests :
       req[r] # Idle /\ req[r].cat = "completed" => provider[req[r].p] \in PaidCategories

Inv == TypeOK /\ ReqInv /\ WebhookInv /\ StartInv /\ PaidInv /\ OnlyPaidIsCompleted

Steps(r) == RequestProceeds(r) \/ Killed(r)

-----------------------------------------------------------------------------
\* What the parts are

\* A request under way has a kind, a payment, a copy and a category.
LEMMA RequestFields ==
  ASSUME TypeOK, NEW r \in Requests, req[r] # Idle
  PROVE  /\ req[r] \in Request
         /\ req[r].p \in Payments
         /\ req[r].copy \in Statuses
         /\ req[r].cat \in Categories
BY DEF TypeOK, Request

\* The provider's categories map to statuses of a payment; only "completed" to a final one.
LEMMA ToOfStatusType ==
  ASSUME NEW cat \in Categories
  PROVE  /\ ToOfStatus(cat) \in Statuses \ {"none", "registered"}
         /\ ToOfStatus(cat) \in PAYMENT_STATUS_FINAL => cat = "completed"
BY DEF Categories, ToOfStatus, Statuses, PAYMENT_STATUS_FINAL

\* What chains do, and what makes them do it.
ChainSteps ==
  \/ \E c \in Chains : ChainProceeds(c) \/ ChainDies(c)
  \/ RetryProcessing \/ AdminRetry \/ Age

\* Chains know nothing of requests and messages, and to a payment they only do one thing.
LEMMA ChainEffect ==
  ASSUME ChainSteps
  PROVE  UNCHANGED <<provider, hooks, req>> /\ status' \in {status, MarkRegistered}
BY DEF ChainSteps, ChainProceeds, ChainDies, RetryProcessing, AdminRetry, Age,
       RegistrationSkips, Registers, RegistrationFails, UpdateSkips, UpdateSucceeds,
       UpdateFails, FinaliseReads, FinaliseSaves, chainUnchanged, external

\* An event leaves every slot a chain or empty.
LEMMA EventType ==
  ASSUME TypeOK, NEW e \in Events, OnPostSubmissionEvent(e)
  PROVE  chain' \in [Chains -> {NoChain} \cup Chain]
<1>1. [pc |-> "registering", event |-> e, flag |-> FALSE] \in Chain
  BY DEF Chain
<1> QED
  BY <1>1 DEF TypeOK, OnPostSubmissionEvent

\* A chain at a task has an event and a flag; at another task it is still a chain.
LEMMA ChainFields ==
  ASSUME TypeOK, NEW c \in Chains, chain[c] # NoChain
  PROVE  /\ chain[c] \in Chain
         /\ chain[c].flag \in BOOLEAN
         /\ \A t \in {"registering", "updating", "finalising", "saving"} :
              [chain[c] EXCEPT !.pc = t] \in Chain
         /\ \A f \in BOOLEAN : [chain[c] EXCEPT !.pc = "saving", !.flag = f] \in Chain
<1>1. chain[c] \in Chain
  BY DEF TypeOK
<1> QED
  BY <1>1 DEF Chain

\* A chain goes on to another task, or ends.
LEMMA GoesType ==
  ASSUME TypeOK, NEW c \in Chains, chain[c] # NoChain,
         NEW t \in {"updating", "finalising"}, Goes(c, t) \/ Ends(c) \/ FailTask(c, t)
  PROVE  chain' \in [Chains -> {NoChain} \cup Chain]
<1>1. Goes(c, t) => chain' = [chain EXCEPT ![c] = [chain[c] EXCEPT !.pc = t]]
  BY DEF Goes
<1> QED
  BY <1>1, ChainFields DEF TypeOK, Goes, Ends, FailTask

\* At first there is no payment, no message and no request.
LEMMA InitInv == Init => Inv /\ CompletedIsAnnounced
BY ConstantsAssumption
DEF Init, Inv, TypeOK, ReqInv, WebhookInv, StartInv, PaidInv, OnlyPaidIsCompleted,
    CompletedIsAnnounced, Statuses, Categories, Idle, PAYMENT_STATUS_FINAL

-----------------------------------------------------------------------------
\* Types

\* Every step keeps the types.
LEMMA TypeStep ==
  ASSUME TypeOK, [Next]_vars
  PROVE  TypeOK'
<1> USE ConstantsAssumption DEF TypeOK
<1>1. CASE UNCHANGED vars
  BY <1>1 DEF vars, external, submission
<1>2. ASSUME NEW p \in Payments, ProviderMoves(p) PROVE TypeOK'
  BY <1>2 DEF ProviderMoves, Moves, Categories, submission
<1>3. ASSUME NEW r \in Requests, NEW p \in Payments, StartPayment(r, p) PROVE TypeOK'
  BY <1>3 DEF StartPayment, Statuses, Categories, Request, external, submission
<1>4. ASSUME NEW r \in Requests, NEW p \in Payments, ReturnStart(r, p) PROVE TypeOK'
  BY <1>4 DEF ReturnStart, Statuses, Categories, Request, external, submission
<1>5. ASSUME NEW m \in hooks, NEW r \in Requests, WebhookStart(r, m) PROVE TypeOK'
  BY <1>5 DEF WebhookStart, Statuses, Categories, Request, external, submission
<1>6. ASSUME NEW r \in Requests, StartSucceeds(r) PROVE TypeOK'
  BY <1>6, RequestFields DEF StartSucceeds, At, Categories, submission
<1>7. ASSUME NEW r \in Requests, StartFails(r) PROVE TypeOK'
  BY <1>7, RequestFields DEF StartFails, At, Statuses, external, submission
<1>8. ASSUME NEW r \in Requests, ReturnAsk(r) PROVE TypeOK'
  BY <1>8, RequestFields DEF ReturnAsk, At, Request, external, submission
<1>9. ASSUME NEW r \in Requests, ReturnAskFails(r) PROVE TypeOK'
  BY <1>9 DEF ReturnAskFails, At, external, submission
<1>10. ASSUME NEW r \in Requests, ReturnAnswer(r) PROVE TypeOK'
  BY <1>10, EventType DEF ReturnAnswer, Announce, Events, At, external, submission
<1>11. ASSUME NEW r \in Requests, ApplyStatus(r) PROVE TypeOK'
  BY <1>11, RequestFields, ToOfStatusType DEF ApplyStatus, MayApply, Request, external, submission
<1>12. ASSUME NEW r \in Requests, WebhookAnswer(r) PROVE TypeOK'
  BY <1>12, EventType DEF WebhookAnswer, Announce, Events, At, submission
<1>13. ASSUME NEW r \in Requests, Killed(r) PROVE TypeOK'
  BY <1>13, RequestFields DEF Killed, external, submission
<1>14. ASSUME NEW c \in Chains, ChainProceeds(c) \/ ChainDies(c) PROVE TypeOK'
  <2>1. status' \in [Payments -> Statuses] /\ UNCHANGED <<provider, hooks, req>>
    BY <1>14, ChainEffect DEF ChainSteps, MarkRegistered, Completed, Statuses
  <2>2. CASE RegistrationSkips(c) \/ Registers(c) \/ RegistrationFails(c)
    <3>1. chain' \in [Chains -> {NoChain} \cup Chain]
      BY <2>2, GoesType DEF RegistrationSkips, Registers, RegistrationFails, Runs, NoChain
    <3> QED
      BY <2>1, <2>2, <3>1
      DEF RegistrationSkips, Registers, RegistrationFails, chainUnchanged, RegistrationStatuses
  <2>3. CASE UpdateSkips(c) \/ UpdateSucceeds(c) \/ UpdateFails(c)
    <3>1. chain' \in [Chains -> {NoChain} \cup Chain]
      BY <2>3, GoesType DEF UpdateSkips, UpdateSucceeds, UpdateFails, Runs, NoChain
    <3> QED
      BY <2>1, <2>3, <3>1 DEF UpdateSkips, UpdateSucceeds, UpdateFails, chainUnchanged
  <2>4. CASE FinaliseReads(c)
    <3>1. NeedsRetry \in BOOLEAN BY DEF NeedsRetry
    <3>2. chain' = [chain EXCEPT ![c] =
                      [chain[c] EXCEPT !.pc = "saving", !.flag = NeedsRetry]]
      BY <2>4 DEF FinaliseReads
    <3>3. [chain[c] EXCEPT !.pc = "saving", !.flag = NeedsRetry] \in Chain
      <4>1. chain[c] # NoChain
        BY <2>4 DEF FinaliseReads, Runs, NoChain
      <4> QED
        BY <3>1, <4>1, ChainFields
    <3>4. chain' \in [Chains -> {NoChain} \cup Chain]
      BY <3>2, <3>3
    <3> QED BY <2>1, <2>4, <3>4 DEF FinaliseReads, submission
  <2>5. CASE FinaliseSaves(c)
    BY <2>1, <2>5 DEF FinaliseSaves, Runs, Ends, Chain, NoChain, Completed
  <2>6. CASE ChainDies(c)
    BY <2>1, <2>6 DEF ChainDies, Ends, Completed, submission
  <2> QED BY <1>14, <2>2, <2>3, <2>4, <2>5, <2>6 DEF ChainProceeds
<1>15. CASE RetryProcessing \/ AdminRetry \/ Age
  <2>1. status' \in [Payments -> Statuses] /\ UNCHANGED <<provider, hooks, req>>
    BY <1>15, ChainEffect DEF ChainSteps, MarkRegistered, Completed, Statuses
  <2> QED
    BY <1>15, <2>1, EventType DEF RetryProcessing, AdminRetry, Age, Events, submission
<1> QED
  BY <1>1, <1>2, <1>3, <1>4, <1>5, <1>6, <1>7, <1>8, <1>9, <1>10, <1>11, <1>12, <1>13,
     <1>14, <1>15
  DEF Next, RequestProceeds, Delivered, ChainSteps

-----------------------------------------------------------------------------
\* Requests and messages

\* Every step keeps requests on the path of their kind.
LEMMA ReqStep ==
  ASSUME TypeOK, ReqInv, [Next]_vars
  PROVE  ReqInv'
<1> USE DEF ReqInv, TypeOK, Request, Idle
<1>1. CASE UNCHANGED vars
  BY <1>1 DEF vars, external
<1>2. ASSUME NEW p \in Payments, ProviderMoves(p) PROVE ReqInv'
  BY <1>2 DEF ProviderMoves, Moves, external
<1>3. ASSUME NEW r \in Requests, NEW p \in Payments, StartPayment(r, p) PROVE ReqInv'
  BY <1>3 DEF StartPayment, external
<1>4. ASSUME NEW r \in Requests, NEW p \in Payments, ReturnStart(r, p) PROVE ReqInv'
  BY <1>4 DEF ReturnStart, external
<1>5. ASSUME NEW m \in hooks, NEW r \in Requests, WebhookStart(r, m) PROVE ReqInv'
  BY <1>5 DEF WebhookStart, external
<1>6. ASSUME NEW r \in Requests, StartSucceeds(r) PROVE ReqInv'
  BY <1>6 DEF StartSucceeds, At
<1>7. ASSUME NEW r \in Requests, StartFails(r) PROVE ReqInv'
  BY <1>7 DEF StartFails, At, external
<1>8. ASSUME NEW r \in Requests, ReturnAsk(r) PROVE ReqInv'
  BY <1>8 DEF ReturnAsk, At, external
<1>9. ASSUME NEW r \in Requests, ReturnAskFails(r) PROVE ReqInv'
  BY <1>9 DEF ReturnAskFails, At, external
<1>10. ASSUME NEW r \in Requests, ReturnAnswer(r) PROVE ReqInv'
  BY <1>10 DEF ReturnAnswer, At, external
<1>11. ASSUME NEW r \in Requests, ApplyStatus(r) PROVE ReqInv'
  BY <1>11 DEF ApplyStatus, MayApply, external
<1>12. ASSUME NEW r \in Requests, WebhookAnswer(r) PROVE ReqInv'
  BY <1>12 DEF WebhookAnswer, At
<1>13. ASSUME NEW r \in Requests, Killed(r) PROVE ReqInv'
  BY <1>13 DEF Killed, external
<1>14. CASE ChainSteps
  BY <1>14, ChainEffect DEF MarkRegistered, Completed
<1> QED
  BY <1>1, <1>2, <1>3, <1>4, <1>5, <1>6, <1>7, <1>8, <1>9, <1>10, <1>11, <1>12, <1>13, <1>14
  DEF Next, RequestProceeds, Delivered, ChainSteps

\* Every step keeps the message of a webhook request, which it alone handles.
LEMMA WebhookStep ==
  ASSUME TypeOK, ReqInv, WebhookInv, [Next]_vars
  PROVE  WebhookInv'
<1> USE DEF WebhookInv, Handles, Unhandled, TypeOK, Request, Idle
<1>1. CASE UNCHANGED vars
  BY <1>1 DEF vars, external
<1>2. ASSUME NEW p \in Payments, ProviderMoves(p) PROVE WebhookInv'
  BY <1>2 DEF ProviderMoves, Moves, external
<1>3. ASSUME NEW r \in Requests, NEW p \in Payments, StartPayment(r, p) PROVE WebhookInv'
  BY <1>3 DEF StartPayment, external
<1>4. ASSUME NEW r \in Requests, NEW p \in Payments, ReturnStart(r, p) PROVE WebhookInv'
  BY <1>4 DEF ReturnStart, external
<1>5. ASSUME NEW m \in hooks, NEW r \in Requests, WebhookStart(r, m) PROVE WebhookInv'
  BY <1>5 DEF WebhookStart, external
<1>6. ASSUME NEW r \in Requests, StartSucceeds(r) PROVE WebhookInv'
  BY <1>6 DEF StartSucceeds, At
<1>7. ASSUME NEW r \in Requests, StartFails(r) PROVE WebhookInv'
  BY <1>7 DEF StartFails, At, external
<1>8. ASSUME NEW r \in Requests, ReturnAsk(r) PROVE WebhookInv'
  BY <1>8 DEF ReturnAsk, At, external
<1>9. ASSUME NEW r \in Requests, ReturnAskFails(r) PROVE WebhookInv'
  BY <1>9 DEF ReturnAskFails, At, external
<1>10. ASSUME NEW r \in Requests, ReturnAnswer(r) PROVE WebhookInv'
  BY <1>10 DEF ReturnAnswer, At, external
<1>11. ASSUME NEW r \in Requests, ApplyStatus(r) PROVE WebhookInv'
  BY <1>11 DEF ApplyStatus, MayApply, external
<1>12. ASSUME NEW r \in Requests, WebhookAnswer(r) PROVE WebhookInv'
  BY <1>12 DEF WebhookAnswer, At
<1>13. ASSUME NEW r \in Requests, Killed(r) PROVE WebhookInv'
  BY <1>13 DEF Killed, external
<1>14. CASE ChainSteps
  BY <1>14, ChainEffect DEF MarkRegistered, Completed
<1> QED
  BY <1>1, <1>2, <1>3, <1>4, <1>5, <1>6, <1>7, <1>8, <1>9, <1>10, <1>11, <1>12, <1>13, <1>14
  DEF Next, RequestProceeds, Delivered, ChainSteps

\* Every step keeps what a start request and its payment have to do with the provider.
LEMMA StartStep ==
  ASSUME TypeOK, ReqInv, StartInv, [Next]_vars
  PROVE  StartInv'
<1> USE DEF StartInv, TypeOK, Request, Idle
<1>1. CASE UNCHANGED vars
  BY <1>1 DEF vars, external
<1>2. ASSUME NEW p \in Payments, ProviderMoves(p) PROVE StartInv'
  BY <1>2 DEF ProviderMoves, Moves, external
<1>3. ASSUME NEW r \in Requests, NEW p \in Payments, StartPayment(r, p) PROVE StartInv'
  BY <1>3 DEF StartPayment, external
<1>4. ASSUME NEW r \in Requests, NEW p \in Payments, ReturnStart(r, p) PROVE StartInv'
  BY <1>4 DEF ReturnStart, external
<1>5. ASSUME NEW m \in hooks, NEW r \in Requests, WebhookStart(r, m) PROVE StartInv'
  BY <1>5 DEF WebhookStart, external, ReqInv
<1>6. ASSUME NEW r \in Requests, StartSucceeds(r) PROVE StartInv'
  BY <1>6 DEF StartSucceeds, At
<1>7. ASSUME NEW r \in Requests, StartFails(r) PROVE StartInv'
  BY <1>7 DEF StartFails, At, external
<1>8. ASSUME NEW r \in Requests, ReturnAsk(r) PROVE StartInv'
  BY <1>8 DEF ReturnAsk, At, external
<1>9. ASSUME NEW r \in Requests, ReturnAskFails(r) PROVE StartInv'
  BY <1>9 DEF ReturnAskFails, At, external
<1>10. ASSUME NEW r \in Requests, ReturnAnswer(r) PROVE StartInv'
  BY <1>10 DEF ReturnAnswer, At, external
<1>11. ASSUME NEW r \in Requests, ApplyStatus(r) PROVE StartInv'
  BY <1>11, ToOfStatusType DEF ApplyStatus, MayApply, external, ReqInv
<1>12. ASSUME NEW r \in Requests, WebhookAnswer(r) PROVE StartInv'
  BY <1>12 DEF WebhookAnswer, At
<1>13. ASSUME NEW r \in Requests, Killed(r) PROVE StartInv'
  BY <1>13 DEF Killed, external
<1>14. CASE ChainSteps
  BY <1>14, ChainEffect DEF MarkRegistered, Completed
<1> QED
  BY <1>1, <1>2, <1>3, <1>4, <1>5, <1>6, <1>7, <1>8, <1>9, <1>10, <1>11, <1>12, <1>13, <1>14
  DEF Next, RequestProceeds, Delivered, ChainSteps

-----------------------------------------------------------------------------
\* What is completed is paid

\* Every step keeps "completed", in rows, copies and messages, to what is paid.
LEMMA PaidStep ==
  ASSUME TypeOK, ReqInv, WebhookInv, StartInv, PaidInv, OnlyPaidIsCompleted, [Next]_vars
  PROVE  PaidInv' /\ OnlyPaidIsCompleted'
<1> USE DEF PaidInv, OnlyPaidIsCompleted, TypeOK, Request, Idle, PaidCategories, PAYMENT_STATUS_FINAL
<1>1. CASE UNCHANGED vars
  BY <1>1 DEF vars, external
<1>2. ASSUME NEW p \in Payments, ProviderMoves(p) PROVE PaidInv' /\ OnlyPaidIsCompleted'
  BY <1>2 DEF ProviderMoves, Moves, external
<1>3. ASSUME NEW r \in Requests, NEW p \in Payments, StartPayment(r, p) PROVE PaidInv' /\ OnlyPaidIsCompleted'
  BY <1>3 DEF StartPayment, external
<1>4. ASSUME NEW r \in Requests, NEW p \in Payments, ReturnStart(r, p) PROVE PaidInv' /\ OnlyPaidIsCompleted'
  BY <1>4 DEF ReturnStart, external
<1>5. ASSUME NEW m \in hooks, NEW r \in Requests, WebhookStart(r, m) PROVE PaidInv' /\ OnlyPaidIsCompleted'
  BY <1>5 DEF WebhookStart, external
<1>6. ASSUME NEW r \in Requests, StartSucceeds(r) PROVE PaidInv' /\ OnlyPaidIsCompleted'
  BY <1>6 DEF StartSucceeds, At, StartInv
<1>7. ASSUME NEW r \in Requests, StartFails(r) PROVE PaidInv' /\ OnlyPaidIsCompleted'
  BY <1>7 DEF StartFails, At, external
<1>8. ASSUME NEW r \in Requests, ReturnAsk(r) PROVE PaidInv' /\ OnlyPaidIsCompleted'
  BY <1>8 DEF ReturnAsk, At, external
<1>9. ASSUME NEW r \in Requests, ReturnAskFails(r) PROVE PaidInv' /\ OnlyPaidIsCompleted'
  BY <1>9 DEF ReturnAskFails, At, external
<1>10. ASSUME NEW r \in Requests, ReturnAnswer(r) PROVE PaidInv' /\ OnlyPaidIsCompleted'
  BY <1>10 DEF ReturnAnswer, At, external
<1>11. ASSUME NEW r \in Requests, ApplyStatus(r) PROVE PaidInv' /\ OnlyPaidIsCompleted'
  BY <1>11, ToOfStatusType DEF ApplyStatus, MayApply, external
<1>12. ASSUME NEW r \in Requests, WebhookAnswer(r) PROVE PaidInv' /\ OnlyPaidIsCompleted'
  BY <1>12 DEF WebhookAnswer, At
<1>13. ASSUME NEW r \in Requests, Killed(r) PROVE PaidInv' /\ OnlyPaidIsCompleted'
  BY <1>13 DEF Killed, external
<1>14. CASE ChainSteps
  BY <1>14, ChainEffect DEF MarkRegistered, Completed
<1> QED
  BY <1>1, <1>2, <1>3, <1>4, <1>5, <1>6, <1>7, <1>8, <1>9, <1>10, <1>11, <1>12, <1>13, <1>14
  DEF Next, RequestProceeds, Delivered, ChainSteps

-----------------------------------------------------------------------------
\* What is completed is announced

\* A chain is under way that has not decided to leave it at that.
Live(c) == chain[c] # NoChain /\ (Runs(c, "saving") => chain[c].flag)
SomeLive == \E c \in Chains : Live(c)

\* What keeps payment p from waiting in vain.
UnderWay(p) ==
  \/ \E r \in Requests : Announces(r) /\ req[r].p = p
  \/ \E m \in hooks : m[1] = p /\ Unhandled(m)
  \/ SomeLive
  \/ retry
  \/ ~left \/ PaymentRegistered \/ p \in lost

\* After an event there is a live chain: a new one, or the one that kept it out.
LEMMA EventLive ==
  ASSUME TypeOK, NEW e, OnPostSubmissionEvent(e)
  PROVE  SomeLive'
BY DEF TypeOK, OnPostSubmissionEvent, SomeLive, Live, Runs, NoChain, Chain

\* Every task of a chain keeps the chain live, or flags the submission, unless nothing is left to
\* be done or the payment becomes one of the lost.
LEMMA ChainKeeps ==
  ASSUME TypeOK, ChainSteps, NEW p \in Payments, status'[p] = "completed",
         SomeLive \/ retry \/ ~left \/ PaymentRegistered \/ p \in lost
  PROVE  \/ SomeLive' \/ retry' \/ ~left' \/ PaymentRegistered' \/ p \in lost'
<1>1. /\ status[p] = "completed"
      /\ PaymentRegistered => PaymentRegistered'
  BY ChainEffect DEF MarkRegistered, Completed, PaymentRegistered, TypeOK
<1>2. p \in Completed BY <1>1 DEF Completed
<1>3. CASE RetryProcessing \/ AdminRetry
  BY <1>3, EventLive DEF RetryProcessing, AdminRetry
<1>4. CASE Age
  BY <1>4 DEF Age, SomeLive, Live, Runs, PaymentRegistered
<1>5. ASSUME NEW c \in Chains, ChainProceeds(c) \/ ChainDies(c)
      PROVE  \/ SomeLive' \/ retry' \/ ~left' \/ PaymentRegistered' \/ p \in lost'
  <2>1. CASE RegistrationFails(c) \/ UpdateFails(c)
    BY <2>1 DEF RegistrationFails, UpdateFails
  <2>2. ASSUME NEW t \in {"updating", "finalising"}, Goes(c, t), chain[c] # NoChain
        PROVE  SomeLive'
    <3>1. chain'[c].pc = t /\ chain'[c] # NoChain
      BY <2>2 DEF Goes, TypeOK, Chain, NoChain
    <3> QED BY <3>1 DEF SomeLive, Live, Runs
  <2>3. CASE RegistrationSkips(c) \/ Registers(c) \/ UpdateSkips(c) \/ UpdateSucceeds(c)
    BY <2>2, <2>3
    DEF RegistrationSkips, Registers, UpdateSkips, UpdateSucceeds, Runs, NoChain
  <2>4. CASE FinaliseReads(c)
    <3>1. CASE NeedsRetry
      <4>1. chain'[c] = [chain[c] EXCEPT !.pc = "saving", !.flag = TRUE]
        BY <2>4, <3>1 DEF FinaliseReads, TypeOK
      <4>2. chain[c] # NoChain
        BY <2>4 DEF FinaliseReads, Runs, NoChain
      <4>3. chain'[c].flag = TRUE /\ chain'[c].pc = "saving"
        BY <4>1, <4>2, ChainFields DEF Chain
      <4> QED BY <4>3 DEF SomeLive, Live, NoChain
    <3>2. CASE ~NeedsRetry
      <4>1. PaymentRegistered \/ ~left
        BY <1>2, <3>2 DEF NeedsRetry, HasPaid
      <4> QED BY <1>1, <2>4, <4>1 DEF FinaliseReads, submission
    <3> QED BY <3>1, <3>2
  <2>5. CASE FinaliseSaves(c)
    <3>1. CASE chain[c].flag BY <2>5, <3>1 DEF FinaliseSaves
    <3>2. CASE retry /\ ~chain[c].flag
      <4>1. CASE NeedsRetry
        BY <1>2, <2>5, <3>2, <4>1 DEF FinaliseSaves
      <4>2. CASE ~NeedsRetry
        <5>1. PaymentRegistered \/ ~left
          BY <1>2, <4>2 DEF NeedsRetry, HasPaid
        <5> QED BY <1>1, <2>5, <5>1 DEF FinaliseSaves
      <4> QED BY <4>1, <4>2
    <3>3. CASE ~retry /\ ~chain[c].flag
      <4>1. ASSUME NEW d \in Chains, Live(d) PROVE Live(d)'
        <5>1. d # c BY <2>5, <3>3, <4>1 DEF Live, FinaliseSaves
        <5> QED BY <2>5, <4>1, <5>1 DEF FinaliseSaves, Ends, Live, Runs, TypeOK
      <4>2. UNCHANGED left /\ lost' = lost BY <2>5, <3>3 DEF FinaliseSaves
      <4> QED BY <1>1, <3>3, <4>1, <4>2 DEF SomeLive
    <3>4. chain[c].flag \in BOOLEAN
      BY <2>5 DEF FinaliseSaves, Runs, TypeOK, Chain, NoChain
    <3>5. retry \in BOOLEAN BY DEF TypeOK
    <3> QED BY <3>1, <3>2, <3>3, <3>4, <3>5
  <2>6. CASE ChainDies(c)
    BY <1>2, <2>6 DEF ChainDies
  <2> QED BY <1>5, <2>1, <2>3, <2>4, <2>5, <2>6 DEF ChainProceeds
<1> QED BY <1>3, <1>4, <1>5 DEF ChainSteps

\* Every step that completes a payment, or takes away what announces it, leaves something else
\* that does, or puts the payment among the lost.
LEMMA AnnouncedStep ==
  ASSUME Inv, CompletedIsAnnounced, [Next]_vars
  PROVE  CompletedIsAnnounced'
<1> SUFFICES ASSUME NEW p \in Payments, (status[p] = "completed")'
             PROVE  UnderWay(p)'
  BY DEF CompletedIsAnnounced, UnderWay, SomeLive, Live
<1> USE DEF Inv
<1>0. status[p] = "completed" => UnderWay(p)
  BY DEF CompletedIsAnnounced, UnderWay, SomeLive, Live
<1>a. ASSUME UNCHANGED <<chain, submission, status>>
      PROVE  (SomeLive <=> SomeLive') /\ UNCHANGED <<retry, left>>
             /\ (PaymentRegistered => PaymentRegistered')
  BY <1>a DEF SomeLive, Live, Runs, submission, PaymentRegistered
<1>b. ASSUME UNCHANGED <<chain, submission>>,
             NEW q \in Payments, status[q] # "registered",
             NEW s, status' = [status EXCEPT ![q] = s]
      PROVE  (SomeLive <=> SomeLive') /\ UNCHANGED <<retry, left>>
             /\ (PaymentRegistered => PaymentRegistered')
  BY <1>b DEF SomeLive, Live, Runs, submission, PaymentRegistered, TypeOK
<1> USE <1>0 DEF UnderWay, Announces, Unhandled, Handles, TypeOK, Idle
<1>1. CASE UNCHANGED vars
  BY <1>1, <1>a DEF vars, external
<1>2. ASSUME NEW q \in Payments, ProviderMoves(q) PROVE UnderWay(p)'
  BY <1>2, <1>a DEF ProviderMoves
<1>3. ASSUME NEW r \in Requests, NEW q \in Payments, StartPayment(r, q) PROVE UnderWay(p)'
  BY <1>3, <1>b DEF StartPayment, external
<1>4. ASSUME NEW r \in Requests, NEW q \in Payments, ReturnStart(r, q) PROVE UnderWay(p)'
  BY <1>4, <1>a DEF ReturnStart, external
<1>5. ASSUME NEW m \in hooks, NEW r \in Requests, WebhookStart(r, m) PROVE UnderWay(p)'
  <2>1. CASE m[1] = p
    BY <1>5, <1>a, <2>1 DEF WebhookStart, external
  <2>2. CASE m[1] # p
    BY <1>5, <1>a, <2>2 DEF WebhookStart, external
  <2> QED
    BY <2>1, <2>2
<1>6. ASSUME NEW r \in Requests, StartSucceeds(r) PROVE UnderWay(p)'
  BY <1>6, <1>a DEF StartSucceeds, At, ReqInv
<1>7. ASSUME NEW r \in Requests, StartFails(r) PROVE UnderWay(p)'
  <2>1. status[req[r].p] # "registered"
    BY <1>7, RequestFields
    DEF StartFails, At, StartInv, OnlyPaidIsCompleted, PaidCategories, PAYMENT_STATUS_FINAL
  <2> QED
    BY <1>7, <1>b, <2>1, RequestFields DEF StartFails, At, external, ReqInv
<1>8. ASSUME NEW r \in Requests, ReturnAsk(r) PROVE UnderWay(p)'
  BY <1>8, <1>a DEF ReturnAsk, At, external, Request
<1>9. ASSUME NEW r \in Requests, ReturnAskFails(r) PROVE UnderWay(p)'
  BY <1>9, <1>a DEF ReturnAskFails, At, external, ReqInv
<1>10. ASSUME NEW r \in Requests, ReturnAnswer(r) PROVE UnderWay(p)'
  <2>1. CASE status[req[r].p] = "completed"
    BY <1>10, <2>1, EventLive DEF ReturnAnswer, Announce
  <2>2. CASE status[req[r].p] # "completed"
    BY <1>10, <1>a, <2>2 DEF ReturnAnswer, Announce, At, external
  <2> QED
    BY <2>1, <2>2
<1>11. ASSUME NEW r \in Requests, ApplyStatus(r) PROVE UnderWay(p)'
  <2>1. CASE MayApply(r)
    <3>1. status[req[r].p] # "registered" /\ req[r].p \in Payments
      BY <1>11, <2>1, RequestFields DEF ApplyStatus, MayApply, PAYMENT_STATUS_FINAL
    <3> QED
      BY <1>11, <1>b, <2>1, <3>1 DEF ApplyStatus, external, Request, ReqInv
  <2>2. CASE ~MayApply(r)
    BY <1>11, <1>a, <2>2 DEF ApplyStatus, external, Request, ReqInv
  <2> QED
    BY <2>1, <2>2
<1>12. ASSUME NEW r \in Requests, WebhookAnswer(r) PROVE UnderWay(p)'
  <2>1. CASE req[r].copy = "completed"
    BY <1>12, <2>1, EventLive DEF WebhookAnswer, Announce
  <2>2. CASE req[r].copy # "completed"
    BY <1>12, <1>a, <2>2 DEF WebhookAnswer, Announce, At
  <2> QED
    BY <2>1, <2>2
<1>13. ASSUME NEW r \in Requests, Killed(r) PROVE UnderWay(p)'
  <2>1. /\ UNCHANGED <<status, hooks, chain, submission>>
        /\ req' = [req EXCEPT ![r] = Idle]
        /\ lost \subseteq lost'
        /\ req[r] # Idle
    BY <1>13 DEF Killed, external
  <2>2. \A m : Unhandled(m) => Unhandled(m)'
    BY <2>1
  <2>3. CASE ~(Announces(r) /\ req[r].p = p)
    BY <1>a, <2>1, <2>2, <2>3
  <2>4. CASE Announces(r) /\ req[r].p = p /\ req[r].kind = "return"
    BY <1>13, <2>4 DEF Killed
  <2>5. CASE Announces(r) /\ req[r].p = p /\ req[r].kind = "webhook"
    <3>1. PICK m \in hooks : m = <<req[r].p, req[r].cat>>
      BY <2>1, <2>5 DEF WebhookInv
    <3>2. \A s \in Requests \ {r} : ~Handles(s, m)
      BY <2>1, <2>5, <3>1 DEF WebhookInv
    <3>3. \A s \in Requests : req'[s] = IF s = r THEN Idle ELSE req[s]
      BY <2>1
    <3>4. Unhandled(m)'
      BY <3>2, <3>3
    <3> QED
      BY <2>1, <2>5, <3>1, <3>4
  <2>6. Announces(r) => req[r].kind \in {"return", "webhook"}
    BY <2>1, RequestFields DEF ReqInv, Request
  <2> QED
    BY <2>3, <2>4, <2>5, <2>6
<1>14. CASE ChainSteps
  <2>1. UNCHANGED <<hooks, req>>
    BY <1>14, ChainEffect
  <2>2. status[p] = "completed"
    BY <1>14, ChainEffect DEF MarkRegistered, Completed
  <2>3. CASE SomeLive \/ retry \/ ~left \/ PaymentRegistered \/ p \in lost
    BY <1>14, <2>3, ChainKeeps
  <2> QED
    BY <2>1, <2>2, <2>3
<1> QED
  BY <1>1, <1>2, <1>3, <1>4, <1>5, <1>6, <1>7, <1>8, <1>9, <1>10, <1>11, <1>12, <1>13,
     <1>14
  DEF Next, RequestProceeds, Delivered, ChainSteps

-----------------------------------------------------------------------------
\* The life cycle

\* The phase of each payment in the abstract specification.
Phase ==
  [p \in Payments |-> IF status[p] \in PAYMENT_STATUS_FINAL THEN status[p] ELSE "open"]

\* At first every payment is open.
LEMMA LifecycleInit == Init => Phase = [p \in Payments |-> "open"]
BY DEF Init, Phase, PAYMENT_STATUS_FINAL

\* Every step completes one payment, registers the completed ones, or leaves the phases alone.
LEMMA LifecycleStep ==
  ASSUME Inv, [Next]_vars
  PROVE  [Lifecycle!Next]_Phase
<1> USE DEF Inv, TypeOK, Phase, PAYMENT_STATUS_FINAL
<1>1. ASSUME UNCHANGED status PROVE UNCHANGED Phase
  BY <1>1
<1>2. ASSUME NEW r \in Requests, NEW p \in Payments, StartPayment(r, p)
      PROVE  UNCHANGED Phase
  BY <1>2 DEF StartPayment
<1>3. ASSUME NEW r \in Requests, StartFails(r) PROVE UNCHANGED Phase
  BY <1>3, RequestFields DEF StartFails, At, StartInv, OnlyPaidIsCompleted, PaidCategories
<1>4. ASSUME NEW r \in Requests, ApplyStatus(r) PROVE [Lifecycle!Next]_Phase
  <2> DEFINE p == req[r].p
             new == ToOfStatus(req[r].cat)
  <2>1. req[r] # Idle /\ p \in Payments /\ new \in Statuses
    BY <1>4, RequestFields, ToOfStatusType DEF ApplyStatus
  <2>2. CASE ~MayApply(r)
    BY <1>4, <2>2 DEF ApplyStatus
  <2>3. CASE MayApply(r) /\ new # "completed"
    BY <1>4, <2>1, <2>3, RequestFields, ToOfStatusType DEF ApplyStatus, MayApply
  <2>4. CASE MayApply(r) /\ new = "completed"
    <3>1. status' = [status EXCEPT ![p] = "completed"] /\ status[p] \notin {"completed", "registered"}
      BY <1>4, <2>4 DEF ApplyStatus, MayApply
    <3>2. Phase[p] = "open" /\ Phase' = [Phase EXCEPT ![p] = "completed"]
      BY <2>1, <3>1
    <3> QED
      BY <2>1, <3>2 DEF Lifecycle!Next, Lifecycle!Complete
  <2> QED
    BY <2>2, <2>3, <2>4
<1>5. CASE ChainSteps
  <2>1. CASE status' = status
    BY <1>1, <2>1
  <2>2. CASE status' = MarkRegistered
    <3>1. Phase' = [p \in Payments |-> IF Phase[p] = "completed" THEN "registered" ELSE Phase[p]]
      BY <2>2 DEF MarkRegistered, Completed
    <3> QED
      BY <3>1 DEF Lifecycle!Next, Lifecycle!Register
  <2> QED
    BY <1>5, <2>1, <2>2, ChainEffect
<1>6. UNCHANGED status
        \/ ChainSteps
        \/ \E r \in Requests : \/ \E p \in Payments : StartPayment(r, p)
                              \/ StartFails(r) \/ ApplyStatus(r)
  BY DEF Next, vars, RequestProceeds, Delivered, external, ProviderMoves, ReturnStart,
         WebhookStart, StartSucceeds, ReturnAsk, ReturnAskFails, ReturnAnswer,
         WebhookAnswer, Killed, ChainSteps
<1> QED
  BY <1>1, <1>2, <1>3, <1>4, <1>5, <1>6

-----------------------------------------------------------------------------
\* Every step keeps the invariant.
LEMMA InvStep == Inv /\ [Next]_vars => Inv'
BY TypeStep, ReqStep, WebhookStep, StartStep, PaidStep DEF Inv

\* Inv holds in every reachable state.
THEOREM InvHolds == Spec => []Inv
<1>1. Init => Inv
  BY InitInv
<1> QED
  BY <1>1, InvStep, PTL DEF Spec

\* Every variable keeps its type.
THEOREM TypeCorrect == Spec => []TypeOK
<1>1. Inv => TypeOK
  BY DEF Inv
<1> QED
  BY <1>1, InvHolds, PTL

\* Nothing is completed or registered that was not paid.
THEOREM OnlyPaidCompletes == Spec => []OnlyPaidIsCompleted
<1>1. Inv => OnlyPaidIsCompleted
  BY DEF Inv
<1> QED
  BY <1>1, InvHolds, PTL

\* A completed payment is announced, or about to be, or what should have looked at it ended too
\* early.
THEOREM CompletedAreAnnounced == Spec => []CompletedIsAnnounced
<1>1. Init => CompletedIsAnnounced
  BY InitInv
<1>2. Inv /\ CompletedIsAnnounced /\ [Next]_vars => CompletedIsAnnounced'
  BY AnnouncedStep
<1> QED
  BY <1>1, <1>2, InvHolds, PTL DEF Spec

\* The views, the webhooks and the chain implement the life cycle of a payment.
THEOREM Implementation == Spec => ImplementsLifecycle
<1>1. Init => Lifecycle!Init
  BY LifecycleInit DEF Lifecycle!Init, Phase
<1>2. Inv /\ [Next]_vars => [Lifecycle!Next]_Phase
  BY LifecycleStep
<1> QED
  BY <1>1, <1>2, InvHolds, PTL DEF Spec, ImplementsLifecycle, Lifecycle!Spec, Phase

=============================================================================
