------------------------------- MODULE Payments -------------------------------
(***************************************************************************)
(* The payments of ONE submission that has to be paid, between the user,   *)
(* the payment provider, Open Forms (payments/views.py with the Worldline  *)
(* plugin) and the registration backend.  Requests (start, return,         *)
(* webhook) run side by side, each with the copy of the payment that it    *)
(* read when it began; the only thing that keeps them apart is the         *)
(* condition of one UPDATE.  The provider delivers a webhook message until *)
(* it is answered, in any order.  A completed payment sends off a chain of *)
(* tasks; of Processing's chain only what decides about the payments is    *)
(* here, one step per task.                                                *)
(***************************************************************************)
EXTENDS Naturals, FiniteSets

CONSTANTS
  Payments,   \* payments the user may start for the submission
  Requests,   \* slots: requests under way
  Chains,     \* slots: chains of tasks that are queued or run
  HasBackend, \* a registration backend is configured, and its plugin exists
  WaitForPayment,  \* GlobalConfiguration.wait_for_payment_to_register
  MaxKilled   \* bound on the requests and chains that end too early

ASSUME ConstantsAssumption ==
  MaxKilled \in Nat /\ {HasBackend, WaitForPayment} \subseteq BOOLEAN

VARIABLES
  status,    \* status of each SubmissionPayment; "none": not created
  provider,  \* category of the provider's payment, as of now
  hooks,     \* webhook messages, <<payment, category>>, that are not answered yet
  req,       \* per slot: the request and the copy of the payment it holds
  chain,     \* per slot: the chain, and the task it has got to
  registration, \* submission.registration_status; "pending" also while in progress
  left,      \* registration_attempts is below the limit
  retry,     \* needs_on_completion_retry
  recent,    \* completed_on is within RETRY_SUBMISSIONS_TIME_LIMIT
  lost,      \* history: payments that nobody may look at again, see Killed and ChainDies
  killed

external   == <<provider, hooks>>
submission == <<registration, left, retry, recent>>
vars == <<status, external, req, chain, submission, lost, killed>>

-----------------------------------------------------------------------------
\* Values

Statuses == {"none", "started", "processing", "failed", "completed", "registered"}

PAYMENT_STATUS_FINAL == {"completed", "registered"}

\* Categories of the provider's statuses; those that mean the same here are one, except that
\* a refund is something else than a failed attempt: it comes after the money.
Categories == {"none", "created", "pending", "unsuccessful", "completed", "refunded"}

\* Mutant of ToOfStatus: the provider's last category has no counterpart.
ToOfStatusRaw(cat) ==
  CASE cat = "created"      -> "started"
    [] cat = "pending"      -> "processing"
    [] cat = "unsuccessful" -> "failed"
    [] OTHER                -> cat

\* Mutant of ToOfStatus: an authorisation that is not captured yet counts as paid.
ToOfStatusEarly(cat) ==
  CASE cat = "created"      -> "started"
    [] cat = "pending"      -> "completed"
    [] cat = "unsuccessful" -> "failed"
    [] cat = "completed"    -> "completed"
    [] OTHER                -> "failed"

\* CATEGORY_TO_OF_STATUS
ToOfStatus(cat) ==
  CASE cat = "created"      -> "started"
    [] cat = "pending"      -> "processing"
    [] cat = "unsuccessful" -> "failed"
    [] cat = "completed"    -> "completed"
    [] OTHER                -> "failed"

\* How the provider's payment goes on.  An unsuccessful attempt may be followed by another
\* one in the same hosted checkout.
Moves ==
  {<<"created", "pending">>, <<"created", "unsuccessful">>, <<"created", "completed">>,
   <<"pending", "unsuccessful">>, <<"pending", "completed">>,
   <<"unsuccessful", "pending">>,
   <<"completed", "refunded">>}

\* The money has arrived, whatever happened to it later.
PaidCategories == {"completed", "refunded"}

Idle == [pc |-> "idle"]

Request == [pc   : {"starting", "asking", "applying", "answering"},
            kind : {"start", "return", "webhook"},
            p    : Payments,
            copy : Statuses,     \* payment.status of the request's instance
            cat  : Categories]   \* what the provider said; "none": nothing yet

RegistrationStatuses == {"pending", "failed", "success"}

\* A chain of another event does what these do, and never marks the payments more.
Events == {"on_payment_complete", "on_retry"}

NoChain == [pc |-> "idle"]

\* "registering": queued, or in a task up to register_submission; then
\* update_submission_payment_status and finalise_completion, until it has read the row
\* and is about to save the flag.
Chain == [pc : {"registering", "updating", "finalising", "saving"},
          event : Events,
          flag : BOOLEAN]   \* the retry flag that finalise_completion saves

\* Request r is of this kind and has got here.
At(r, kind, pc) == req[r] # Idle /\ req[r].kind = kind /\ req[r].pc = pc

-----------------------------------------------------------------------------
\* The chain of the completion has ended: the user may pay.
Init ==
  /\ status = [p \in Payments |-> "none"]
  /\ provider = [p \in Payments |-> "none"]
  /\ hooks = {}
  /\ req = [r \in Requests |-> Idle]
  /\ chain = [c \in Chains |-> NoChain]
  /\ registration \in RegistrationStatuses
  /\ left \in BOOLEAN
  /\ retry \in BOOLEAN
  /\ recent = TRUE
  /\ registration = "success" => ~WaitForPayment
  /\ registration = "failed" => retry = left
  /\ lost = {}
  /\ killed = 0

-----------------------------------------------------------------------------
\* The provider

\* A payment, or an attempt at one, goes on; a message about it will be delivered.
ProviderMoves(p) ==
  \E m \in Moves :
    /\ provider[p] = m[1]
    /\ provider' = [provider EXCEPT ![p] = m[2]]
    /\ hooks' = hooks \cup {<<p, m[2]>>}
    /\ UNCHANGED <<status, req, chain, submission, lost, killed>>

-----------------------------------------------------------------------------
\* PaymentStartView

\* create_for, then the plugin asks the provider for a checkout.  Nothing looks at the
\* payments that are there already.
StartPayment(r, p) ==
  /\ req[r] = Idle
  /\ status[p] = "none"
  /\ status' = [status EXCEPT ![p] = "started"]
  /\ req' = [req EXCEPT ![r] = [pc |-> "starting", kind |-> "start", p |-> p,
                               copy |-> "started", cat |-> "none"]]
  /\ UNCHANGED <<external, chain, submission, lost, killed>>

StartSucceeds(r) ==
  /\ At(r, "start", "starting")
  /\ provider' = [provider EXCEPT ![req[r].p] = "created"]
  /\ req' = [req EXCEPT ![r] = Idle]
  /\ UNCHANGED <<status, hooks, chain, submission, lost, killed>>

\* The checkout cannot be created; the user never gets its URL.
StartFails(r) ==
  /\ At(r, "start", "starting")
  /\ status' = [status EXCEPT ![req[r].p] = "failed"]
  /\ req' = [req EXCEPT ![r] = Idle]
  /\ UNCHANGED <<external, chain, submission, lost, killed>>

-----------------------------------------------------------------------------
\* PaymentReturnView

\* The user comes back from the checkout, now or some other time.
ReturnStart(r, p) ==
  /\ req[r] = Idle
  /\ provider[p] # "none"
  /\ req' = [req EXCEPT ![r] =
       [pc |-> IF status[p] = "completed" THEN "answering" ELSE "asking",
        kind |-> "return", p |-> p, copy |-> status[p], cat |-> "none"]]
  /\ UNCHANGED <<status, external, chain, submission, lost, killed>>

\* get_hosted_checkout
ReturnAsk(r) ==
  /\ At(r, "return", "asking")
  /\ req' = [req EXCEPT ![r].pc = "applying", ![r].cat = provider[req[r].p]]
  /\ UNCHANGED <<status, external, chain, submission, lost, killed>>

ReturnAskFails(r) ==
  /\ At(r, "return", "asking")
  /\ req' = [req EXCEPT ![r] = Idle]
  /\ UNCHANGED <<status, external, chain, submission, lost, killed>>

-----------------------------------------------------------------------------
\* apply_status

\* Mutant of MayApply: only the copy is looked at.
MayApplyCopy(r) ==
  /\ req[r].copy \notin PAYMENT_STATUS_FINAL
  /\ status[req[r].p] # ToOfStatus(req[r].cat)

\* Mutant of MayApply: a failed payment is final too.
MayApplyOnce(r) ==
  /\ req[r].copy \notin PAYMENT_STATUS_FINAL
  /\ status[req[r].p] \notin PAYMENT_STATUS_FINAL \cup {"failed"}
  /\ status[req[r].p] # ToOfStatus(req[r].cat)

\* The early return, on the copy, and the WHERE clause of the UPDATE, on the row.
MayApply(r) ==
  /\ req[r].copy \notin PAYMENT_STATUS_FINAL
  /\ status[req[r].p] \notin PAYMENT_STATUS_FINAL
  /\ status[req[r].p] # ToOfStatus(req[r].cat)

\* The copy is refreshed only if the UPDATE changed the row.
ApplyStatus(r) ==
  /\ req[r] # Idle /\ req[r].pc = "applying"
  /\ IF MayApply(r)
       THEN /\ status' = [status EXCEPT ![req[r].p] = ToOfStatus(req[r].cat)]
            /\ req' = [req EXCEPT ![r].pc = "answering", ![r].copy = ToOfStatus(req[r].cat)]
       ELSE /\ req' = [req EXCEPT ![r].pc = "answering"]
            /\ UNCHANGED status
  /\ UNCHANGED <<external, chain, submission, lost, killed>>

-----------------------------------------------------------------------------
\* on_post_submission_event

\* A chain is sent, or rejected at its first task, whose key knows no event, because another
\* one has not got past that.
OnPostSubmissionEvent(e) ==
  \/ \E c \in Chains :
       /\ chain[c] = NoChain
       /\ chain' = [chain EXCEPT ![c] = [pc |-> "registering", event |-> e, flag |-> FALSE]]
  \/ /\ \E c \in Chains : chain[c].pc = "registering"
     /\ UNCHANGED chain

Announce(paid) == IF paid THEN OnPostSubmissionEvent("on_payment_complete")
                          ELSE UNCHANGED chain

-----------------------------------------------------------------------------
\* The end of the requests: on_payment_complete, if the payment is completed

\* The return view reads the payment again.
ReturnAnswer(r) ==
  /\ At(r, "return", "answering")
  /\ Announce(status[req[r].p] = "completed")
  /\ req' = [req EXCEPT ![r] = Idle]
  /\ UNCHANGED <<status, external, submission, lost, killed>>

\* Request r handles message m.
Handles(r, m) == req[r] # Idle /\ req[r].kind = "webhook" /\ <<req[r].p, req[r].cat>> = m

Unhandled(m) == \A r \in Requests : ~Handles(r, m)

\* Mutant of WebhookStart: a message about a completed payment is answered at once.
WebhookStartFinal(r, m) ==
  /\ req[r] = Idle
  /\ Unhandled(m)
  /\ IF status[m[1]] = "completed"
       THEN /\ hooks' = hooks \ {m}
            /\ UNCHANGED req
       ELSE /\ req' = [req EXCEPT ![r] = [pc |-> "applying", kind |-> "webhook", p |-> m[1],
                                        copy |-> status[m[1]], cat |-> m[2]]]
            /\ UNCHANGED hooks
  /\ UNCHANGED <<status, provider, chain, submission, lost, killed>>

\* A message is delivered to one request at a time.
WebhookStart(r, m) ==
  /\ req[r] = Idle
  /\ Unhandled(m)
  /\ req' = [req EXCEPT ![r] =
       [pc |-> IF status[m[1]] = "completed" THEN "answering" ELSE "applying",
        kind |-> "webhook", p |-> m[1], copy |-> status[m[1]], cat |-> m[2]]]
  /\ UNCHANGED <<status, external, chain, submission, lost, killed>>

\* The webhook goes by its copy.
WebhookAnswer(r) ==
  /\ At(r, "webhook", "answering")
  /\ Announce(req[r].copy = "completed")
  /\ hooks' = hooks \ {<<req[r].p, req[r].cat>>}
  /\ req' = [req EXCEPT ![r] = Idle]
  /\ UNCHANGED <<status, provider, submission, lost, killed>>

\* Request r has completed the payment and is about to announce it.
Announces(r) ==
  /\ req[r] # Idle
  /\ req[r].pc = "answering"
  /\ req[r].copy = "completed"
  /\ req[r].cat # "none"

\* A worker is killed, or the redirect of a return is refused after apply_status.  The
\* provider delivers a webhook again, but a return that ends here does not come back.
Killed(r) ==
  /\ req[r] # Idle
  /\ killed < MaxKilled
  /\ killed' = killed + 1
  /\ lost' = IF req[r].kind = "return" /\ Announces(r) THEN lost \cup {req[r].p} ELSE lost
  /\ req' = [req EXCEPT ![r] = Idle]
  /\ UNCHANGED <<status, external, chain, submission>>

-----------------------------------------------------------------------------
\* The tasks of a chain

Completed == {p \in Payments : status[p] = "completed"}
PaymentRegistered == \E p \in Payments : status[p] = "registered"
HasPaid == Completed # {} \/ PaymentRegistered

MarkRegistered == [p \in Payments |-> IF p \in Completed THEN "registered" ELSE status[p]]

\* Chain c is about to run this task.
Runs(c, task) == chain[c].pc = task

Goes(c, task) == chain' = [chain EXCEPT ![c].pc = task]
Ends(c) == chain' = [chain EXCEPT ![c] = NoChain]

\* Only a retry re-raises what a plugin raised.
FailTask(c, next) == IF chain[c].event = "on_retry" THEN Ends(c) ELSE Goes(c, next)

chainUnchanged == <<external, req, recent, lost, killed>>

\* Nothing is registered: it was already, the attempts are used up, or the submission still
\* waits for its payment, its cosigner or its pre-registration (the latter two are not here).
RegistrationSkips(c) ==
  /\ Runs(c, "registering")
  /\ Goes(c, "updating")
  /\ UNCHANGED <<status, registration, left, retry, chainUnchanged>>

MayRegister == registration # "success" /\ left /\ (WaitForPayment => HasPaid)

\* Only a chain of the payment itself marks the payments; it may be the last attempt.
Registers(c) ==
  /\ Runs(c, "registering")
  /\ MayRegister
  /\ registration' = "success"
  /\ status' = IF HasBackend /\ WaitForPayment /\ chain[c].event = "on_payment_complete"
                 THEN MarkRegistered ELSE status
  /\ left' \in BOOLEAN
  /\ Goes(c, "updating")
  /\ UNCHANGED <<retry, chainUnchanged>>

\* The pre-registration or the registration fails.
RegistrationFails(c) ==
  /\ Runs(c, "registering")
  /\ HasBackend /\ registration # "success" /\ left
  /\ registration' = "failed"
  /\ retry' = TRUE
  /\ left' \in BOOLEAN
  /\ FailTask(c, "updating")
  /\ UNCHANGED <<status, chainUnchanged>>

UpdateSkipped ==
  \/ WaitForPayment
  \/ registration # "success"
  \/ PaymentRegistered
  \/ ~left
  \/ ~HasBackend
  \/ Completed = {}

UpdateSkips(c) ==
  /\ Runs(c, "updating")
  /\ UpdateSkipped
  /\ Goes(c, "finalising")
  /\ UNCHANGED <<status, registration, left, retry, chainUnchanged>>

UpdateSucceeds(c) ==
  /\ Runs(c, "updating")
  /\ ~UpdateSkipped
  /\ status' = MarkRegistered
  /\ Goes(c, "finalising")
  /\ UNCHANGED <<registration, left, retry, chainUnchanged>>

UpdateFails(c) ==
  /\ Runs(c, "updating")
  /\ ~UpdateSkipped
  /\ retry' = TRUE
  /\ FailTask(c, "finalising")
  /\ UNCHANGED <<status, registration, left, chainUnchanged>>

\* Mutant of NeedsRetry: a payment that is not registered is no reason to go on.
NeedsRetryUnpaid ==
  IF registration = "success" THEN FALSE
  ELSE IF registration = "failed" \/ (HasPaid /\ ~PaymentRegistered) THEN left
  ELSE retry

NeedsRetry ==
  IF registration = "success" /\ PaymentRegistered THEN FALSE
  ELSE IF registration = "failed" \/ (HasPaid /\ ~PaymentRegistered) THEN left
  ELSE retry

FinaliseReads(c) ==
  /\ Runs(c, "finalising")
  /\ chain' = [chain EXCEPT ![c].pc = "saving", ![c].flag = NeedsRetry]
  /\ UNCHANGED <<status, submission, external, req, lost, killed>>

\* ... and saves: a flag that another chain has set meanwhile is taken back, although it
\* would be needed.
FinaliseSaves(c) ==
  /\ Runs(c, "saving")
  /\ retry' = chain[c].flag
  /\ lost' = IF retry /\ ~chain[c].flag /\ NeedsRetry THEN lost \cup Completed ELSE lost
  /\ Ends(c)
  /\ UNCHANGED <<status, external, req, registration, left, recent, killed>>

\* The booking of the appointment or the save of the registration's result fails, a retry's
\* pre-registration raises (what it recorded is rolled back), the next task is rejected because
\* another chain of the event has it, or the worker is killed for the hard time limit: nobody
\* is told of what this chain was to do.
ChainDies(c) ==
  /\ chain[c] # NoChain
  /\ killed < MaxKilled
  /\ killed' = killed + 1
  /\ lost' = lost \cup Completed
  /\ Ends(c)
  /\ UNCHANGED <<status, submission, external, req>>

-----------------------------------------------------------------------------
\* Other events

\* retry_processing_submissions, by celery beat
RetryProcessing ==
  /\ retry /\ recent
  /\ OnPostSubmissionEvent("on_retry")
  /\ UNCHANGED <<status, submission, external, req, lost, killed>>

\* the admin action of that name, which also resets the attempts
AdminRetry ==
  /\ registration = "failed"
  /\ left' = TRUE
  /\ OnPostSubmissionEvent("on_retry")
  /\ UNCHANGED <<status, registration, retry, recent, external, req, lost, killed>>

\* RETRY_SUBMISSIONS_TIME_LIMIT hours have passed.
Age ==
  /\ recent
  /\ recent' = FALSE
  /\ UNCHANGED <<status, registration, left, retry, chain, external, req, lost, killed>>

-----------------------------------------------------------------------------
\* What a request does once it has begun.
RequestProceeds(r) ==
  \/ StartSucceeds(r) \/ StartFails(r)
  \/ ReturnAsk(r) \/ ReturnAskFails(r) \/ ReturnAnswer(r)
  \/ ApplyStatus(r) \/ WebhookAnswer(r)

\* The provider delivers message m.
Delivered(m) == m \in hooks /\ \E r \in Requests : WebhookStart(r, m)

\* What a chain does once it has been sent.
ChainProceeds(c) ==
  \/ RegistrationSkips(c) \/ Registers(c) \/ RegistrationFails(c)
  \/ UpdateSkips(c) \/ UpdateSucceeds(c) \/ UpdateFails(c)
  \/ FinaliseReads(c) \/ FinaliseSaves(c)

Next ==
  \/ \E p \in Payments : ProviderMoves(p)
  \/ \E r \in Requests, p \in Payments : StartPayment(r, p) \/ ReturnStart(r, p)
  \/ \E m \in hooks : Delivered(m)
  \/ \E r \in Requests : RequestProceeds(r) \/ Killed(r)
  \/ \E c \in Chains : ChainProceeds(c) \/ ChainDies(c)
  \/ RetryProcessing \/ AdminRetry \/ Age

Spec == Init /\ [][Next]_vars

\* Requests end (they may have to take turns for the slots of the chains, which are an artefact),
\* a message that the user paid is delivered (the provider repeats it, and a worker is free for
\* it now and then), celery runs the chains it was sent, beat keeps ticking, and the backend is
\* not down forever.
Fairness ==
  /\ \A r \in Requests : SF_vars(RequestProceeds(r))
  /\ \A p \in Payments : SF_vars(Delivered(<<p, "completed">>))
  /\ \A c \in Chains : WF_vars(ChainProceeds(c)) /\ SF_vars(UpdateSucceeds(c))
  /\ SF_vars(RetryProcessing)

FairSpec == Spec /\ Fairness

-----------------------------------------------------------------------------
\* Properties

TypeOK ==
  /\ status \in [Payments -> Statuses]
  /\ provider \in [Payments -> Categories]
  /\ hooks \subseteq Payments \X (Categories \ {"none"})
  /\ req \in [Requests -> {Idle} \cup Request]
  /\ chain \in [Chains -> {NoChain} \cup Chain]
  /\ registration \in RegistrationStatuses
  /\ {left, retry, recent} \subseteq BOOLEAN
  /\ lost \subseteq Payments
  /\ killed \in 0..MaxKilled

\* Nothing is completed, let alone registered, that the user did not pay: whatever the
\* order in which returns and messages about several attempts arrive, and however old the
\* copy that a request decides on.
OnlyPaidIsCompleted ==
  \A p \in Payments : status[p] \in PAYMENT_STATUS_FINAL => provider[p] \in PaidCategories

\* A completed payment does not wait in vain: the request that completed it is about to send a
\* chain for it, or a message about it is still to be delivered to a request that will, or a
\* chain is under way, or the submission is flagged for the retry.  Otherwise its attempts
\* are used up, another of its payments is registered, or what should have looked at it ended
\* too early.
CompletedIsAnnounced ==
  \A p \in Payments :
    status[p] = "completed" =>
      \/ \E r \in Requests : Announces(r) /\ req[r].p = p
      \/ \E m \in hooks : m[1] = p /\ Unhandled(m)
      \/ \E c \in Chains : chain[c] # NoChain /\ (Runs(c, "saving") => chain[c].flag)
      \/ retry
      \/ ~left \/ PaymentRegistered \/ p \in lost

\* Late and reordered messages, stale copies and chains take a payment through its life cycle
\* only: from open to completed to registered, and never back.
Lifecycle == INSTANCE PaymentLifecycle
  WITH phase <- [p \in Payments |->
                  IF status[p] \in PAYMENT_STATUS_FINAL THEN status[p] ELSE "open"]

ImplementsLifecycle == Lifecycle!Spec

\* What the user paid is noticed, even if the user never comes back and every other message
\* comes first.
PaidIsNoticed ==
  \A p \in Payments :
    provider[p] \in PaidCategories ~> status[p] \in PAYMENT_STATUS_FINAL

\* A completed payment of a registered submission is registered at the backend, however
\* often the update fails or a chain is dropped, unless its chain or return ended too early, the
\* attempts are used up, another payment is registered, or the submission gets too old.
CompletedIsRegistered ==
  HasBackend /\ ~WaitForPayment =>
    \A p \in Payments :
      (status[p] = "completed" /\ registration = "success" /\ left)
        ~> (PaymentRegistered \/ p \in lost \/ ~recent)

=============================================================================
