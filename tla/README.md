# Open Forms: the life of a submission

TLA+ modules about open-forms (`src/src/openforms`), with TLC configurations and
TLAPS proofs. Paths below are relative to `src/src/openforms`.

## The system

Open Forms lets citizens fill in forms and sends the result to a registration backend
of a municipality. A submission is one row in PostgreSQL, with payments, appointment
data, uploads and the values of the steps beside it. Requests (the user, the cosigner,
a payment provider, an administrator) and celery workers read and write that row at the
same time. Nothing serialises them but a few row locks, the check constraints of the
table and the keys of celery-once.

| component | state | operations | talks to |
|---|---|---|---|
| post-submission orchestration (`submissions/tasks`) | `needs_on_completion_retry`, `PostCompletionMetadata`, celery-once keys | `on_post_submission_event` sends a chain of 8 tasks; beat runs `retry_processing_submissions`; `finalise_completion` decides about the retry | every component below, by tasks |
| registration (`registrations/tasks.py`) | `registration_status`, `registration_attempts`, `pre_registration_completed`, `pre_registration_status` per component | `pre_registration`, component hooks, `register_submission` | backend plugin |
| payment status update (`payments/tasks.py`, `services.py`) | status of each `SubmissionPayment` | `update_submission_payment_status` | backend plugin |
| payment views (`payments/views.py`) and gateways (`payments/contrib`) | status of each `SubmissionPayment`, the provider's payment | start, return, webhook, `apply_status` | provider; sends `on_payment_complete` |
| appointments (`appointments/tasks.py`, `core.py`, `utils.py`) | `AppointmentInfo`, bookings at the plugin | book, rebook, cancel with a mailed link | appointment plugin |
| hashing (`submissions/tasks/cleanup.py`, `authentication/tasks.py`) | `auth_info.attribute_hashed` | `maybe_hash_identifying_attributes`, `hash_identifying_attributes` | - |
| e-mails (`submissions/tasks/emails.py`) | four `..._email_sent` flags | `schedule_emails`, `send_confirmation_email`, `send_email_cosigner`, `on_confirmation_email_sent` | mail queue, backend plugin |
| sessions and life cycle (`submissions/utils.py`, `tokens.py`, `views.py`, `signals.py`, `middleware.py`, `authentication/api/views.py`) | list of submissions in the session, login in the session, `suspended_on`, `completed_on`, `submission_counter` | create, suspend, resume, complete, log out, put back, the cosigner's one-time password | cache (sessions), hashing |
| cosign endpoint (`submissions/api/viewsets.py`) | `cosign_complete` | cosign | sends `on_cosign_complete` |
| status endpoint (`submissions/status.py`) | results of the tasks | puts a failed submission back in the session | session |
| data removal (`data_removal/tasks.py`) | `_is_cleaned`, the row itself | nightly deletion and anonymisation | every table of the submission |
| form activation, uploads, logic, prefill, authentication protocols | own tables | see "Not modelled" | - |

What is hard about it:

* up to four kinds of chains run for one submission at once, and their keys do not
  exclude each other, because the event is part of the key;
* some tasks save single columns, some save the whole row from a copy they read before
  they called a plugin;
* a worker may die at any point; its task is delivered again (`CELERY_TASK_ACKS_LATE`)
  or, for the hard time limit, has failed and keeps its key for an hour;
* a chain is dropped without an error when celery-once rejects one of its tasks;
* a celery-once key lives for an hour from when its task was sent, however long that task waits;
* only a retry re-raises errors, so it stops where other chains go on;
* whether there is a retry depends on registration, payment, cosigner and component
  hooks together;
* a session is a copy per request, and every request saves it whole when it ends;
* a payment is reported by the user's return and by repeated, unordered webhook messages,
  and looked at through copies; one conditional `UPDATE` keeps them apart;
* the appointment plugin and `AppointmentInfo` are written one after the other without a
  transaction, by chains, by the user and by the nightly removal.

The list of hazards with their lines is in `PROJECT.json`.

### What makes each component correct

* Orchestration: failed work is picked up until it succeeds, is given up or is too old,
  and a retry has something to do.
* Registration: nothing is sent too early; success is final; at most one successful call
  unless a worker dies; attempts are counted and bounded; what is registered was
  pre-registered.
* Payments: completed only if paid, and then for good; every completed payment reaches a
  chain; marked registered only if the backend was told.
* Hashing: never while a registration still has to send the attributes.
* Appointments: what the user sees as booked is booked, and no booking is forgotten.
* Data removal: nothing outlives its limits, and no appointment to come loses its link.
* E-mails: one of each kind, each with up-to-date contents.
* Cosign: a signature is never lost.
* Sessions: only the owner gets at the submission, and the cosigner once it is completed; its
  completer lets go of it, and an open one is never out of reach of its owner.

## Modules

* `Processing`: the core. The post-submission chain of ONE submission (other submissions
  share nothing with it: every key and every row lock is per submission).
* `RegistrationLifecycle`: what the core promises about status and attempts; `Processing`
  implements it for one chain at a time (`ImplementsLifecycle`).
* `MCProcessing`, `MCPayments`, `MCSessions`: symmetry for TLC.
* `Emails`: the e-mails about one submission, with any number of deliveries of the mail
  tasks side by side. It meets `Processing` at two places: `finalise_completion` queues
  `schedule_emails`, and the row is saved by others (the cosign view, a second completion,
  `pre_registration`, the ZGW plugin), several at once, each in a transaction of its own.
  Whether the submission is registered is `Processing`'s business and a free choice here.
* `Payments`: the payments of one submission between user, provider and Open Forms, with the
  Worldline plugin. Its chains are those of `Processing`, one step per task and only the tasks that
  decide about payments: the registration, the update of the payment status and
  `finalise_completion`, which may skip, fail or succeed as they do there. `PaymentComplete` and
  `PaymentRepeat` of `Processing` are the requests here that announce a payment.
* `PaymentLifecycle`: open, completed, registered; `Payments` implements it.
* `Sessions`: who may work on one submission: the lists in the sessions of browsers, the links
  to resume, logging out, the cosigner's one-time password, hashing, the submission limit.
  `CompleteSave` is where `Processing` begins, and `PutBack` where its status endpoint ends.
* `Appointments`: the appointment task of `Processing` in detail, with cancelling and the
  nightly removal. The other tasks of the chains are what they do to `registration_status`.
* `ProcessingProofs`, `EmailsProofs`, `PaymentsProofs`, `SessionsProofs`, `AppointmentsProofs`:
  inductive invariants and theorems.
* `ProcessingSingleProofs`: theorems about `Processing` where chains do not overlap.

### From the code to `Processing`

A chain is a slot `c \in Chains`; `pc[c]` says which task it is at, and where in the
task. A task is split where it calls something slow and where it saves:

| code | steps |
|---|---|
| `maybe_register_appointment`, `book_for_submission` | `BookAppointment` (no appointment form, booked, failed) |
| `pre_registration` | `PreRegistration` (read, early returns), `PreRegistrationInvalidOptions` / `ValidOptions`, `PreRegistrationCall` (plugin), `PreRegistrationSave` (full save) |
| `execute_component_pre_registration` | `ComponentStart`, `ComponentResult`, per component, in any order |
| group callback, PDF | `ComponentsDone`, `ProcessComponents`, `GenerateReport` |
| `register_submission` | `RegisterSubmission` (read, early returns), `RegisterMark` (in progress, counted), `RegisterCall` or `RegisterFails`, `RegisterMarkPayments`, `RegisterSave` (with the table's check constraint) |
| `update_submission_payment_status` | `UpdatePaymentStatus` (read, skip), `PaymentSelect` (row locks), `PaymentCallSucceeds` or `PaymentCallFails`, `PaymentCommit` |
| `finalise_completion` | `FinaliseCompletion` (read, decide), `FinaliseSave` |
| `maybe_hash_identifying_attributes` | `MaybeHash` |
| beat, admin, views | `Retry`, `AdminRetry`, `Complete`, `StatusPoll`, `PaymentComplete`, `PaymentRepeat`, `CosignComplete` |
| killed workers | `Crash` (delivered again, or failed at the time limit) |
| celery-once's hour | `LockExpires` (a key that nobody has any more), `KeyOutlived` (the key of a task that still waits or runs) |

`row` is the database row and `seen[c]` the copy a task holds. A partial save writes the
columns named in `update_fields` from the copy, a full save writes the whole copy. Between
a read and the first statement that takes time there is no step of others: those windows
are a few queries long. The windows that are as long as a call of a plugin are kept, and
so is the one of a slow request (`SlowRequest`): a view that read the row before tasks
wrote it, and saves every column afterwards; when it is a second request to complete the
submission, there are two chains of the same event, and the status endpoint reports on
the last (`watched`). `Return` is celery sending the next task of the
chain, with the celery-once key it may be refused; `Raise` ends the chain.

`known`, `calls`, `cosigned` and `outlived` are history: what the backend was told, what people
did, and which keys expired under a task. After that, chains of the same event may be in that task
side by side, and when one of them ends it takes the key of the other away, as celery-once does.

Abstracted: contents of the submission, references, results and tracebacks; logging;
which plugin it is (a plugin may succeed or fail at every call, and `PluginSaves` says
whether it saves the submission itself, as the ZGW plugin does); time, which is only
whether the submission is recent enough for a retry. External: celery, celery-once, the
backend and the payment provider, modelled from how the code uses them.

### From the code to `Emails`

| code | steps |
|---|---|
| `finalise_completion` (any chain) | `FinaliseCompletion`; `due` says that a chain which has yet to get there is the only one that will schedule what is to be sent |
| `schedule_emails` | `ScheduleEmails`, one step: two queries and two `delay` |
| `send_email_cosigner` | `SendEmailCosigner` (skipped, queued or failed), `RequestSave` |
| `send_confirmation_email`, both functions of that name | `CountdownEnds`, `SendConfirmationEmail` (lock, conditions, recipients, contents), `MailQueued` (mail, flags, hook) or `SendFails`, `Commit` |
| `on_confirmation_email_sent`, `update_registration_with_confirmation_email` | `OnConfirmationEmailSent`, `AttachEnds` |
| payment views | `PaymentComplete` |
| cosign view, second completion, `pre_registration`, ZGW plugin | `ReadRow` (the copy), `SaveAll` (the save takes the row lock), then the rest of the transaction: `SaverCommits` or `SaverFails` |
| chains that do not reach their last task | `ChainFails` |
| killed workers | `Crash` (rolled back, delivered again); also in `Commit`, for a worker killed after the commit |

The confirmation task is one transaction: its mail (django-yubin's queue is a table of the
same database) and its flags appear at `Commit`, while the hook it queues is a celery message
and leaves at once. `draft[t]` is the mail as far as it matters: whether it has
recipients, whether the cosigner is in cc, whether it says that the submission is paid, and
what the second query on the payments answered. The row lock is held from
`SendConfirmationEmail` to `Commit`, and by everybody else who saves the row from the save to the
end of the transaction: the cosign view, `pre_registration` in a retry (`registrations/tasks.py:98-138`),
a second completion. Only the confirmation task gives up (`nowait`), other writers wait. Payments have rows of their own, so
no lock keeps `paid` from changing.

`mails`, `copied` and `undone` are history. `undone` counts the saves that make
another mail due: the one that signs, and those of an old copy that take back a flag.

Abstracted: which address, which template, the language and the text. Each saver holds a copy of its
own (`saver`), so that a task which read the row before the view did takes the signature back.
That `schedule_emails` is queued again an hour after its key was taken is not modelled, nor is the
hard time limit, which fails a mail task for good as `SendFails` does.

### From the code to `Payments`

A request is a slot `r \in Requests`; it begins with a copy of the payment.

| code | steps |
|---|---|
| `PaymentStartView`, `start_payment` | `StartPayment` (`create_for`), then `StartSucceeds` or `StartFails` |
| `PaymentReturnView`, `handle_return` | `ReturnStart` (short circuit for a completed payment), `ReturnAsk` or `ReturnAskFails`, `ApplyStatus`, `ReturnAnswer` (reads the payment again) |
| webhook view, `handle_webhook` | `WebhookStart`, `ApplyStatus`, `WebhookAnswer` (goes by its copy) |
| `apply_status` | `MayApply`: the early return looks at the copy, the `WHERE` clause at the row |
| refused redirect, error 500, killed worker | `Killed` |
| `on_post_submission_event` | `OnPostSubmissionEvent` (sent, or rejected while another chain has the key of the first task) |
| `pre_registration`, `register_submission` | `RegistrationSkips`, `Registers`, `RegistrationFails` |
| `update_submission_payment_status`, `update_submission_payment_registration` | `UpdateSkips` (their early returns), `UpdateSucceeds`, `UpdateFails` |
| `finalise_completion` | `FinaliseReads` (`NeedsRetry`), `FinaliseSaves` |
| a failed booking, a rejected task, the hard time limit | `ChainDies` |
| beat, admin | `RetryProcessing`, `AdminRetry`, `Age` |

The provider is external: a payment goes on as in `Moves`, each move is a message that is
delivered until it is answered. Categories that map to the same status are one, but for a
refund, which comes after the money. `reversed`, which Open Forms maps to completed, counts as
paid. `lost` is history: payments completed by a return that ended before announcing them, or that
were completed when a chain died, or took back the retry flag that another had set while it was
still needed (`FinaliseSaves`).
Chains of the completion and of cosignatures do what a retry does, but re-raise nothing, and are not
listed apart. A chain registers in one step, so stale saves of the row (`stale_save`) are
`Processing`'s. Amounts, signatures and the identifiers of the provider are left out.

### From the code to `Sessions`

`stored[b]` is what the cache says of the session of browser `b`, `req[r].sess` the copy of a
request. A request begins with the checks of its view (`BeginCreate`, `BeginWork`, `BeginLogout`,
`BeginResume`, `BeginStatus`, `BeginOTP`, `BeginOther`), does its work, and ends with `Finish`: `SessionTimeoutMiddleware` calls
`set_expiry` for every request, so every session is saved. `SaveList` is an update under
`_session_lock`: the list is read again and all of the copy is saved.

| code | steps |
|---|---|
| `perform_create`, `submission_start` | `Create` |
| steps, summary, logic checks, any other request | `BeginOther`, `Finish` |
| `_suspend`, `SubmissionSuspensionSerializer` | `Suspend` (full save, hashing, link) |
| `ResumeFormMixin`, `submission_resumed` | `BeginResume`, `Resume` |
| `_complete`, `_complete_submission` | `CompleteLogout` (list and login), `CompleteSave` (full save, counter, list again) |
| `ensure_failure_can_be_managed` | `BeginStatus`, `PutBack` |
| `SubmissionLogoutView` | `BeginLogout`, `Logout` (list and login), `LogoutHash` |
| `CosignOTPFormView` | `BeginOTP`, `Verify` |
| cosign endpoint | `BeginWork`, `Cosign` |
| `cleanup_deactivated_form_session` | `Refuse`, `HashTask` |
| other submissions of the form | `OtherBegins`, `OtherCompletes` |

`auth` is the value in `auth_info` as far as a login can match it: plain, hashed, or a
hash of a hash. `completed` and `suspended` number the events, which is what the time stamps
in the tokens tell apart. The history variables say who was given the submission since its
completion (by the status endpoint or with a one-time password), whether the browser that completed
it had other requests under way then, and whether it was taken out of a session without being
completed (`cutOff`: a deactivated form, a logout, a completion cut in two, a late save).

A browser is used by one person, and a login does not overlap that browser's other requests. The
cosigner finds the submission by its reference, which it has from its completion on; the key that the
lookup leaves in the session is not modelled, so that a one-time password works without one in
the model. `Sessions` is about forms without appointments: the link to cancel one
(`VerifyCancelAppointmentLinkView`, a `ResumeFormMixin`) puts the submission in its owner's session
too, and is `OpenLink` of `Appointments`.

### From the code to `Appointments`

| code | steps |
|---|---|
| `on_post_submission_event` | `Send` (the `QueueOnce` key of the appointment task) |
| `book_for_submission`, `book` | `DeleteInfo`, `Book` or `BookFails`, `StoreInfo` (the insert may be refused) |
| `register_submission`, `finalise_completion` | `RegisterStart`, `RegisterEnd`, `Finalise` (the mail has the link) |
| `VerifyCancelAppointmentLinkView` | `OpenLink` |
| `CancelAppointmentView`, `delete_appointment_for_submission` | `CancelBegin`, `CancelAtPlugin`, `CancelStore` (a save of the instance that was read) |
| `delete_submissions` | `DeleteFind`, `DeleteDo` |
| `make_sensitive_data_anonymous`, `remove_sensitive_data` | `CleanFind`, `CleanDo` (a full save) |
| killed workers and requests | `Crash`, `CancelKilled` |

`booked` is what the plugin knows; an id is never used twice. `leftBehind` is history: bookings
that no `AppointmentInfo` names any more, because a chain deleted the info to book again, a
worker was killed or timed out, the insert was refused, or the submission was deleted. The
limits (`expired`) and the time of the appointment (`past`) pass at any moment, in any order;
which stages are deleted and which are made anonymous is a constant.

### Bounds

`Chains` (slots for chains that are live at once), `Components`, `Payments`,
`AttemptLimit`, `MaxCrashes`, `MaxResets`, `MaxDelays` (slow requests and keys that expire under their
task, together) and `CallsCap` (where the
counter of the calls to the backend stops: `MaxCrashes + 2`, one more than `RegisteredOnce` allows). Events themselves are not bounded:
a chain that ended frees its slot, and users, providers and beat go on forever. Two chains
are enough for every interleaving of two events, and the interplay the proofs
speak about (keys, row locks, saves of copies) is pairwise. With one slot, chains run one
after the other: those runs show what holds when no two chains overlap, which is the
case the code is written for. An event that cannot get a slot is not lost in the
model, it simply happens later; an event that the code drops (the key of the first task is
taken) is dropped.

`concurrent` has no second payment, no crash, one attempt and one delay (a slow request, or a key
that expires under its task): its six properties are proved for
every value of the constants, so the run is there to show that the steps are possible and to
find a wrong invariant early; with `WaitForPayment`, crashes or two payments it was run on its
own and gave nothing new. Crashes and retries fire in `sequential` and `liveness`.

In `Emails`, `Tasks`, `Requests` and `Savers` are slots again: 2 deliveries, since what they
compete for is one lock, 1 request, and a view and a task that save the row. `MaxSaves = 2` is what it takes to sign
and to overwrite the signature or a flag; `MaxTroubles = 1` is one failure or one killed worker. The theorems
need none of these bounds.

In `Payments`, two requests are what it takes for a stale copy, and one payment goes through every
pair of statuses with its retried attempts. There is one slot for chains: what two chains do to each
other's copies is `Processing`'s, and here a chain is only sent later, or rejected by its key. The
run does not wait for payments (`WaitForPayment = FALSE`): where it waits, the update is skipped and a payment is
registered together with the submission or not at all ("Also seen"); the theorems cover both.
In `payments_liveness` there is one slot for requests.
In `Sessions`, two requests (every kind with every other), the owner's browser and the cosigner's,
and `Limit = 2`, so that the limit is reached by the submission with one other, or
by the other alone; one completion and one suspension. Two completions (again after a failure) and a
second browser of the owner were run on their own, without overlapping requests: with what the
theorems say for any number, that is enough. In `Appointments`, two chains, three bookings (one that is
stored, one left behind, one under way), and one event and one killed worker or request.

## Runs that pass

| run | instance | shows |
|---|---|---|
| `concurrent` | 2 chains, 1 payment, cosigner, saving plugin, 1 slow request or expired key | `TypeOK`, `OnceTasksExclusive`, `PaymentRegisteredIsKnown`, `PaymentUpdateIsNeeded`, `SuccessWasPreRegistered`, `RegistersOnlyWhenAllowed` |
| `sequential` | 1 chain, waits for payment and cosigner, component hook, appointment, invalid options, saving plugin, 2 killed workers, time limits, 1 reset | `ImplementsLifecycle`, `SuccessIsFinal`, `RegisteredOnce`, `FailedIsRetried`, `HashedAttributesNotNeeded`, `HookSuccessIsFinal`, `RegistersOnlyWhenAllowed` |
| `liveness` | 1 chain, fair, cosigner, payment, saving plugin, 1 killed worker, 1 reset | `FailureResolves`, `RegistrationEnds`, `PaymentIsRetried`, `RetriesEnd`, `ImplementsLifecycle` |
| `emails` | 2 deliveries, 1 request, payment, cosigner, a view and a task that save the row, 2 saves, 1 failure or killed worker, fair | `TypeOK`, `MailsHaveReasons`, `CosignerCopiedOnce`, `FlagsMeanMails`, `AttachedMailExists`, `SignedIsMailed`, `CosignerIsAsked` |
| `payments` | 1 payment, 2 requests, 1 chain, 1 killed request or chain | `TypeOK`, `OnlyPaidIsCompleted`, `CompletedIsAnnounced`, `ImplementsLifecycle` |
| `payments_liveness` | 1 payment, 1 request, 1 chain, 1 killed, fair | `PaidIsNoticed`, `CompletedIsRegistered` |
| `sessions` | the owner's and the cosigner's browser, 2 requests, 1 other submission, limit 2, 1 completion, 1 suspension | `TypeOK`, `OnlyEntitledHaveIt`, `CompleterLetsGo`, `AccessNotLost`, `OvershootBounded` |
| `appointments` | 2 chains, 3 bookings, 1 later event of any kind, 1 killed, successful and errored ones deleted, incomplete ones made anonymous, fair | `TypeOK`, `InfoIsLive`, `NothingElseIsLive`, `RemovedInTheEnd` |

Each property is stated with its comment at the end of its module. `CHECK_DEADLOCK FALSE`
everywhere: a submission that is too old, deleted, or done with everything and that has
nothing queued may really stop.

### Fairness

`FairSpec`: queued tasks run (`WF` on the tasks of each chain: the workers are always
there and a killed one's task is delivered again), beat ticks (`SF` on `Retry`: beat is
never turned off, but a model slot may be taken again and again by other chains), queued
hash tasks run, and the key of a worker that was killed expires (`LockExpires`). That a key expires
under its task (`KeyOutlived`) is never forced. Users, payment providers, plugins, crashes and the passing
of time are never forced. `RecoveringSpec` adds that a payment update that is tried again
and again succeeds at some point (`PaymentIsRetried` needs it; it says nothing about a
backend that is down forever).

`FairSpec` of `Emails`: queued tasks run, countdowns end, a transaction that has saved the row
ends, and a chain that was sent for a change of the row reaches `finalise_completion`, or fails
(`ChainFails`, which is bounded like every failure; that beat sends another is what `liveness` is about). PostgreSQL grants a row lock in turn to those
that wait for it, hence `SF` on `RequestSave`. The confirmation task does not wait and gets no
such help. Payments, cosignatures, failures and crashes are never forced. Mails that fail are
not sent again by anything, which is why the two liveness properties stop at a failure, of the mail,
of the transaction or of the chain.

`FairSpec` of `Payments`: requests that began end (`SF`, because in the model they may have to wait
for the slot of a chain), the message that the user paid is delivered
(`SF`: the provider repeats it until it is answered, and a worker is free now and then, not
always), the tasks of a chain run, beat ticks, and the backend is not down forever
(`SF` on `UpdateSucceeds`). Users who never come back, failing attempts, other messages, chains
and requests that die, administrators and the age of the submission are never forced.

`FairSpec` of `Appointments`: chains end and the nightly tasks run (`WF`: beat is never turned off and
nothing disables them for good). `Sessions` has safety properties only: nothing forces a user to do anything.

## Runs that refute a statement of the repository

Each checks one property that a comment, docstring or doc states. The findings in
`PROJECT.json` quote them.

| run | property | what happens |
|---|---|---|
| `stale_save` | `SuccessIsFinal` | a full save of an old copy undoes a success |
| `completed_closed` | `CompletedIsClosed` | a request that began before the completion saves its copy of the session after it, and the completed submission is back in the session |
| `resume_link` | `ResumeLinkWorks` | suspending twice from one session hashes the hash; the link to resume refuses its owner |
| `appointment_retention` | `KeptUntilAppointment` | a submission that waits or failed is deleted before its appointment |

### Also seen

Behaviours of the code that the models have too and that no run is about.

Processing:

* the event is part of the celery-once key, so chains of two events run `register_submission`
  side by side; and the key lives for an hour from when the task was sent (`conf/base.py`), so after
  an hour in the queue two retries do. Its docstring (`registrations/tasks.py:200-203`) promises one
  attempt at a time. `OnceTasksExclusive` says what the keys do give;
* with invalid backend options a retry rolls back the record of its failed attempt
  (`registrations/tasks.py:98`): the attempts never reach the limit, and it is retried until the
  submission is too old. `FailureResolves` is checked without invalid options;
* `mark_registered` runs its query again after the call (`payments/services.py:48`): a payment
  completed in between is marked registered without having been in the update.
  `PaymentRegisteredIsKnown` says only that the backend was told of some payment;
* the stale save of `stale_save` also undoes a cosignature (`cosign_complete`) given while
  `pre_registration` calls the plugin; the submission waits for its cosigner again;
* with `wait_for_payment_to_register`, a paid submission that a retry registers keeps its
  payment `completed`, and is retried every five minutes until it is too old;
* a paid submission that waits for its cosigner counts as failed and is retried likewise;
* a submission that needed its last attempt never has its payment registered
  (`payments/tasks.py:46`): `PaymentIsRetried` excludes it;
* a component hook that failed flags the submission, and a registered but unpaid submission
  keeps that flag.

E-mails:

* a payment that completes between the rendering of the mail about the cosignature and the
  setting of its flags (`submissions/utils.py:224`) is flagged as mailed, though the mail says it is open;
* the hook to the backend is queued before the transaction of the mail commits
  (`submissions/tasks/emails.py:89`) and may give up because it does not see the mail yet;
* a confirmation task that does not get the lock assumes that another mail is being
  sent (`submissions/tasks/emails.py:54-56`). Others that save the row in a transaction have the
  lock too: the cosign view, a second completion, `pre_registration` of a retry. A chain that ends
  later sends the mail, unless the transaction or that chain fails, and the mail is lost;
* a task that read the row before the cosign view saved it takes the signature back with its full save;
* a mail that fails is rolled back and never tried again, until some other chain ends;
* `send_email_cosigner` is no once-task: two chains that end while it waits ask twice;
* a mail that was sent before the registration is never given to the backend, because the
  hook gives up and only the next mail calls it again.

Payments:

* a return that dies, or whose redirect is refused, after it completed the payment while a
  webhook held a stale copy, leaves nobody to announce it; beat, or the next event, may (`lost`);
* a chain that dies for a failed booking, a rejected task or the time limit is followed by nobody if
  the submission was not flagged before: the payment stays completed (`lost`);
* `finalise_completion` decides on a copy, and may take back the retry flag that another chain has set;
* with `wait_for_payment_to_register` the update is skipped, and a payment stays completed that
  was completed after the registration, or whose submission was registered by a chain of another
  event; so does, without that setting, one whose submission used its last attempt. `CompletedIsRegistered` excludes these;
* nothing looks at the payments that are there already when one is started: users can pay twice.

Sessions:

* a suspension that overlaps a completion saves its copy and un-completes the submission;
* the submission limit is exceeded by requests that overlap (`OvershootBounded` says by how
  many), and a submission that is completed again after a failure is counted again;
* a user whose submission was put back may be kept out by the limit that it reached itself, and so is
  the cosigner: the request that signs is refused like one that starts a submission;
* logging out before the first suspension leaves a submission that nobody can reach (`cutOff`);
* a request that loaded the session before the submission was added to it drops it again when it ends,
  and one that began before the completion puts it back;
* the hash task of a deactivated form may run after the form is active again, and a
  submission that is completed then is registered with hashed attributes.

Appointments:

* no chain cancels the booking it replaces (`appointments/core.py:110-115`): each payment, cosignature
  or retry leaves one behind;
* a cancelled appointment is booked again by a later chain, and the mailed link works again;
* cancelling while a chain books again answers 204 and cancels what is about to be replaced; its
  save may insert the info again, and then the insert of the chain fails;
* the anonymiser saves the whole row from its copy and may undo a registration status;
* nothing is cancelled at the plugin when a submission is deleted;
* completed submissions that wait for payment or cosigner are "incomplete" for the removal.

## Proofs

`ProcessingProofs` proves for every number of chains, components and payments and every
limit, from `ConstantsAssumption` alone:

* `TypeCorrect`. `TypeOK` alone is not inductive: `attempts` is written as the copy's
  attempts plus one, so a copy held by a task that is about to count must be below the limit. That
  is `AttemptsLeft`, and with the types it is `TypeInv`.
* `OnceTasksAreExclusive`. `KeysExclusive`: the key of every running task is held or has expired under
  it (`outlived`), and two chains have the same key only if it has. `OutlivedStays`: nothing but time
  makes a key expire under its task. A killed worker's key may outlive its chain, so the
  converse does not hold and is not needed.
* `KeysAreReturned`: the converse, as far as it goes. A key that no running task has is one of a
  worker that was killed for exceeding its time limit (`Releases`); returning, raising, dropping the
  rest of a chain and delivering a task again leave none behind.
* `SuccessIsPreRegistered`. A save of a copy can only bring back `success` if the copy has
  it. `SavesConsistent` says that no copy held by a task or a request is of a registered,
  not pre-registered submission, and that copies that will be saved with a new result
  are not of a registered one.
* `PaymentUpdatesAreNeeded`, `PaymentsRegisteredAreKnown`. `PaymentsConsistent`: at most
  one chain holds the row locks, it is where `payLock` says, and a chain between its call
  and its mark has told the backend.
* `OnlyAllowedRegistrations`, an action property: `PaymentsConsistent` again, and
  `SignaturesGiven`: wherever a copy says signed, somebody has cosigned.

`ProcessingSingleProofs` proves what needs chains that do not overlap. `OneChain` says that there
is one slot for a chain, `OneAtATime` that no request saves an old copy of the row and no key
expires under its task either (`MaxDelays = 0`); components, payments, attempts, crashes, time limits, resets and the
configuration are arbitrary. The run `sequential` is an instance. The hypotheses are needed:
`stale_save` refutes `SuccessIsFinal` with two chains, and with it the life cycle, which has no step
back from a success.

* `ChainIsAlone`. `Alone` is the invariant that all but the last of the others use. `CopyIsCurrent`:
  what a task has read is what the row says when it writes. `Stages`: what it tested still holds (not
  pre-registered while it pre-registers, in progress from `reg_call` on). Payments, cosignatures,
  resets and beat all send a chain, and with one slot they wait until the present one has ended,
  or find the key of its first task taken. `BookingKeyFree` says that only the first task
  makes them find it taken: after that no event is dropped, and none changes the row under a task.
* `LifecycleImplemented`: `ImplementsLifecycle`, from `Alone`: one lemma per task says which step of
  `RegistrationLifecycle` each of its steps is. `RegisteredForGood` (`SuccessIsFinal`) follows
  from the same lemmas, because no step of the life cycle leaves a success.
* `HashedNotSent` (`HashedAttributesNotNeeded`) adds `HashedAfterSuccess`.
* `CalledOnce` (`RegisteredOnce`) adds `CallsCounted`: at most one call is not paid for by a killed
  worker, and it is the one that made, or is about to make, the success.
* `FailuresAreFlagged` (`FailedIsRetried`) adds `FailureFlagged`, which is stronger than the property:
  the flag is there at every moment, not only when all tasks have ended.
* `HooksRunOnce` (`HookSuccessIsFinal`) needs `OneChain` only: `RunningNotDone`, no hook that is
  running has succeeded already. Saves of old copies do not touch the variables of the components.

`EmailsProofs` does the same as `ProcessingProofs` for `Emails`:

* `TypeCorrect`. `TypeInv` adds to the types that only a mail with recipients has a cc,
  and that a copy which is still to be saved is not yet counted in `undone`.
* `NoMailTwice` (`MailsHaveReasons`). Two invariants make it inductive. `LockInv`: one
  transaction at most, a mail task's or a saver's, has the row locked (`LockExclusive`), so what a mail
  task read is still there and the reason to send is still a reason (`LockedDrafts`,
  `PaymentsRequired`). `MailsCounted`: as long as there is a reason to send, fewer mails were
  sent than there are reasons; and one less again while a payment is late, that is,
  completed after the flags of the mail under way were set. That case is why the
  bound is not simply the number of flags.
* `OneCopyPerSignature`: `CopiesCounted`, the same argument for the cosigner's copy.
* `FlagsAreAboutMails`: `RowsMeanMails`, the property for the row and for the copy of every saver,
  which may still be saved over it.
* `AttachedMailsExist`: by `RowsMeanMails`, a row that says "sent" has a mail.

`PaymentsProofs`:

* `TypeCorrect`, and `OnlyPaidCompletes`, by `Inv`: a category in a request or message was the
  provider's at some time, and what was paid stays paid (`PaidInv`); a webhook request has its message still
  unanswered and alone (`WebhookInv`); a payment that is being started has no provider payment yet (`StartInv`).
* `CompletedAreAnnounced`: a payment becomes completed by a request that then `Announces` it, and
  whoever takes that away leaves something else: the answer a chain (`EventLive`), a crash of a webhook
  the message. Every task of a chain keeps it live or flags the submission, unless nothing is left to do
  or the payment becomes one of the lost (`ChainKeeps`).
* `Implementation`: the refinement to `PaymentLifecycle`, by `Inv`, the conditions of the `UPDATE`, and `ChainEffect`: all
  that chains do to payments is to mark the completed ones registered.

`SessionsProofs`:

* `TypeCorrect`.
* `EntitledOnly`: `EntitledAct`. A request that has the submission in its copy of the session, or can put
  it there, comes from an owner's browser, or a cosigner's if the submission was completed, and
  so does every status URL. No entitlement is ever lost (`EntitledStays`).
* `Overshoot`: `Counted`, the counter together with the requests that will still raise it
  (`InFlight` and `others`) stays within the limit plus the slots; a request begins only below the limit.
* `CompleterDone`: `LetGoInv`. A link made before the completion does not match any more
  (`LinksOpen`), and the browser that completed has the submission neither in its session
  nor in a copy that a request of it will save (`LetGo`), unless it was given it again, or had other
  requests under way at the completion. `CreatedFirst` keeps a second creation out.
* `AccessKept` (`AccessNotLost`): `AccessInv`.
  After a suspension there is a link with the present token parts (`SuspendedIsLinked`); before it,
  some session has the submission, or a request is completing it, or it was cut off
  (`HeldOrCompleting`). It does not matter how many browsers the owner has.

`AppointmentsProofs`:

* `TypeCorrect`.
* `UsersSeeLive`, `LiveIsAccounted`: together, as they need each other. `OneAppointmentTask`:
  the key of the task keeps two bookings apart; `HeldIsFresh`: nobody but its chain knows a
  booking that is not stored; `DeletedIsGone`: what a request to cancel has deleted is not live.

Each inductive invariant has one lemma per group of actions, and every theorem ends in a
temporal step over `Init`, `Next` and the implication. The theorems assume
`ConstantsAssumption` of their module, and those of `ProcessingSingleProofs` the hypothesis they
state; no bound on payments, browsers, retries or crashes plays a part.

Every safety invariant, action property and refinement that a passing run checks is proved. Only
model-checked are the liveness properties, which are out of reach of the prover (`FailureResolves`,
`RegistrationEnds`, `PaymentIsRetried`, `RetriesEnd`, `SignedIsMailed`, `CosignerIsAsked`, `PaidIsNoticed`,
`CompletedIsRegistered`, `RemovedInTheEnd`), and `ImplementsLifecycle` of the run `liveness`, whose
specification has fairness: the theorem is about `Spec`, and fairness only removes behaviours.

## Not modelled

* The Ogone (legacy) and demo payment plugins: they save the whole payment where Worldline
  has a conditional `UPDATE`. The states and requests would be those of `Payments`.
* Registration plugins, beyond what they save on the shared row: conversion of payloads.
* Authentication protocols (DigiD, eHerkenning, OIDC), which lie in libraries. What a login
  leaves in the session is in `Sessions`; employees who register for others are not.
* Form logic, formio components, prefill: evaluation inside one request, of expressions and
  configuration. What they compute is data, and a model would repeat the interpreter.
* Uploads: owned by one session and attached by one request at a time; removed by age.
* E-mail verification, and the cosigner's lookup by reference: one row, one query. What follows it,
  the one-time password, is in `Sessions`.
* The schedule of form activation (`forms/tasks.py`): two queries that set a flag which
  `Sessions` lets change at any time. Maintenance mode, staff users, and forms without login.
* Digests and other reports: they only read.
* Migrations, settings and administration pages, most of the lines of the repository: static.

## Order of the work and what is left

`Processing` with its life cycle, `Emails`, `Payments`, `Sessions` and `Appointments` were written
in this order, each with its runs and then its proofs: the registration first, then what the
user and the provider see of it, then what comes before and after; then the proofs about chains that
do not overlap. Left, and worth doing next: an abstract promise for `Emails` ("one mail of each kind")
where nothing saves an old copy, and one for `Appointments` (what is booked, and who knows of it),
each with the step-by-step refinement.
