------------------------------ MODULE Processing ------------------------------
(***************************************************************************)
(* Background processing of ONE completed submission: the chain of eight   *)
(* celery tasks that on_post_submission_event sends, run by any number of  *)
(* workers, for any number of events at the same time.                     *)
(*                                                                         *)
(* A chain is a slot c \in Chains with a program counter pc[c].  A task    *)
(* reads the submission row, works on that copy (seen[c]) and writes       *)
(* columns of it back; a read, a call of a plugin and a write are separate *)
(* steps wherever another chain can get in between.                        *)
(***************************************************************************)
EXTENDS Integers, FiniteSets

CONSTANTS
  Chains,              \* slots: bounds how many chains are live at once
  Components,          \* Formio components with a pre-registration hook
  Payments,            \* payments the user may start for the submission
  AttemptLimit,        \* GlobalConfiguration.registration_attempt_limit
  HasBackend,          \* a registration backend is configured
  IsAppointmentForm,   \* form.type is "appointment"
  PaymentRequired,     \* submission.payment_required
  WaitForPayment,      \* GlobalConfiguration.wait_for_payment_to_register
  CosignRequired,      \* the form has a (filled in) cosign component
  OptionsCanBeInvalid, \* the backend options may fail their validation
  PluginSaves,         \* the registration plugin saves the whole submission itself
  TimeLimitKills,      \* a task may exceed its hard time limit
  MaxCrashes,          \* bound on the number of killed workers
  MaxResets,           \* bound on the number of retries by an administrator
  MaxDelays            \* bound on the delays: requests with tasks running between read
                       \* and save, and tasks that take longer than their key lives

ASSUME ConstantsAssumption ==
  /\ AttemptLimit \in Nat \ {0}
  /\ MaxCrashes \in Nat
  /\ MaxResets \in Nat
  /\ MaxDelays \in Nat
  /\ {HasBackend, IsAppointmentForm, PaymentRequired, WaitForPayment,
      CosignRequired, OptionsCanBeInvalid, PluginSaves, TimeLimitKills} \subseteq BOOLEAN

VARIABLES
  row,         \* the Submission row in the database
  comp,        \* pre_registration_status of each component's variable
  payment,     \* status of each SubmissionPayment
  hashed,      \* auth_info.attribute_hashed
  booking,     \* AppointmentInfo status
  processing,  \* the on_completion chain as the status endpoint reports it
  watched,     \* PostCompletionMetadata: the live chain it reports on, if any
  finalised,   \* finalise_completion ran: the user and cosigner have their links
  recent,      \* completed_on is within RETRY_SUBMISSIONS_TIME_LIMIT
  hashTask,    \* maybe_hash_identifying_attributes is queued
  pc,          \* per chain: where it is
  event,       \* per chain: the PostSubmissionEvents value it was sent with
  seen,        \* per chain: the task's in-memory copy of the row
  work,        \* per chain: progress of the component tasks of its group
  locks,       \* keys held in the celery-once backend
  payLock,     \* chains holding the row locks on the completed payments
  requested,   \* copies of the row held by requests that are under way, per view
  cosigned,    \* history: somebody cosigned the submission
  known,       \* history: payments the registration backend was told about
  calls,       \* history: successful calls of the registration backend
  outlived,    \* history: celery-once keys that expired with their task still to end
  crashes, resets, delays

dbVars    == <<row, comp, payment, hashed, booking>>
chainVars == <<pc, event, seen, work, locks>>
userVars  == <<processing, watched, finalised, recent>>
outerVars == <<requested, cosigned, outlived, crashes, resets, delays>>
vars == <<row, comp, payment, hashed, booking, processing, watched, finalised, recent,
          hashTask, pc, event, seen, work, locks, payLock, requested, cosigned, known,
          calls, outlived, crashes, resets, delays>>

-----------------------------------------------------------------------------
\* Values

Events == {"on_completion", "on_payment_complete", "on_cosign_complete", "on_retry"}

RegistrationStatuses == {"pending", "in_progress", "success", "failed"}

Row == [status : RegistrationStatuses, \* registration_status
        attempts : 0..AttemptLimit,    \* registration_attempts
        pre : BOOLEAN,                 \* pre_registration_completed
        retry : BOOLEAN,               \* needs_on_completion_retry
        signed : BOOLEAN]              \* cosign_complete

NewRow == [status |-> "pending", attempts |-> 0, pre |-> FALSE, retry |-> FALSE,
           signed |-> FALSE]

\* The views that save a submission, every column of it.
Views == {"complete", "cosign"}

\* Program counters, per celery task.  The first of each group is "queued".
AppointmentPCs == {"appointment"}
PrePCs         == {"pre", "pre_options", "pre_call", "pre_save"}
RegisterPCs    == {"register", "reg_mark", "reg_call", "reg_pay", "reg_save"}
PaymentPCs     == {"payment", "pay_select", "pay_call", "pay_commit"}
FinalisePCs    == {"finalise", "fin_save"}
PCs == {"idle", "components", "process", "report"} \cup AppointmentPCs \cup PrePCs
         \cup RegisterPCs \cup PaymentPCs \cup FinalisePCs

\* A killed task starts over from its first statement.
TaskStart(p) ==
  CASE p \in PrePCs -> "pre"
    [] p \in RegisterPCs -> "register"
    [] p \in PaymentPCs -> "payment"
    [] p \in FinalisePCs -> "finalise"
    [] OTHER -> p

\* Mutant of OnceKey: only the appointment task is a QueueOnce task.
OnceKeyAppointmentOnly(task, e) ==
  IF task \in AppointmentPCs THEN {<<"appointment", "any">>} ELSE {}

\* celery-once: the key is the task's name and ALL of its arguments, hence the
\* event too where the task takes one.  Tasks that are not QueueOnce have no key.
OnceKey(task, e) ==
  CASE task \in AppointmentPCs -> {<<"appointment", "any">>}
    [] task \in RegisterPCs -> {<<"register", e>>}
    [] task \in PaymentPCs -> {<<"payment", e>>}
    [] OTHER -> {}

OnceKeys == {<<"appointment", "any">>} \cup ({"register", "payment"} \X Events)

Held(c) == OnceKey(pc[c], event[c])

\* The count of calls stops here, one above what RegisteredOnce allows.
CallsCap == MaxCrashes + 2
Bump(n) == IF n < CallsCap THEN n + 1 ELSE n

NothingDone == [k \in Components |-> "todo"]

-----------------------------------------------------------------------------
\* Conditions of the code

\* cosign_state.is_waiting
Waiting(r) == CosignRequired /\ ~r.signed

\* Mutant of GivenUp: one attempt too many.
GivenUpLate(r) == r.attempts > AttemptLimit

GivenUp(r) == r.attempts >= AttemptLimit

Completed == {p \in Payments : payment[p] = "completed"}
Paid == {p \in Payments : payment[p] \in {"completed", "registered"}}
HasPaid == Paid # {}
PaymentRegistered == \E p \in Payments : payment[p] = "registered"

MarkRegistered == [p \in Payments |-> IF p \in Completed THEN "registered" ELSE payment[p]]

\* Mutant of StatusFailed: the submission is not flagged.
StatusFailedUnflagged(r) == [r EXCEPT !.status = "failed"]

\* save_registration_status: failed also flags the submission for the retry.
StatusFailed(r) == [r EXCEPT !.status = "failed", !.retry = TRUE]

\* Mutant of AttemptFailed: record_attempt is not passed.
AttemptFailedUncounted(r, copy) == StatusFailed(r)

\* ... with record_attempt, counting from the copy the task holds.
AttemptFailed(r, copy) == [StatusFailed(r) EXCEPT !.attempts = copy.attempts + 1]

HasRegistrationFailure(r) ==
  \/ r.status = "failed"
  \/ PaymentRequired /\ HasPaid /\ ~PaymentRegistered

\* Mutant of HasRegistrationSuccess: a payment that is not registered is no reason to go on.
HasRegistrationSuccessUnpaid(r) == r.status = "success"

HasRegistrationSuccess(r) ==
  /\ r.status = "success"
  /\ PaymentRequired => HasPaid /\ PaymentRegistered

\* Mutants of NeedsRetry: the flag is never cleared after a success; there is no limit.
NeedsRetryAfterSuccess(r) == IF HasRegistrationFailure(r) THEN ~GivenUp(r) ELSE r.retry

NeedsRetryUnlimited(r) ==
  ~HasRegistrationSuccess(r) /\ (HasRegistrationFailure(r) \/ r.retry)

NeedsRetry(r) ==
  IF HasRegistrationSuccess(r) THEN FALSE
  ELSE IF HasRegistrationFailure(r) THEN ~GivenUp(r)
  ELSE r.retry

\* Mutants of RegistrationBlocked: a registered submission is registered again; the
\* cosigner is not waited for; an attempt in progress blocks every later one.
RegistrationBlockedAgain(r) ==
  ~r.pre \/ Waiting(r) \/ (WaitForPayment /\ PaymentRequired /\ ~HasPaid) \/ GivenUp(r)

RegistrationBlockedUnsigned(r) ==
  \/ r.status = "success" \/ ~r.pre \/ GivenUp(r)
  \/ WaitForPayment /\ PaymentRequired /\ ~HasPaid

RegistrationBlockedInProgress(r) ==
  r.status \in {"in_progress", "success"} \/ RegistrationBlockedUnsigned(r) \/ Waiting(r)

RegistrationBlocked(r) ==
  \/ r.status = "success"
  \/ ~r.pre
  \/ Waiting(r)
  \/ WaitForPayment /\ PaymentRequired /\ ~HasPaid
  \/ GivenUp(r)

PaymentUpdateSkipped(r) ==
  \/ WaitForPayment
  \/ r.status # "success"
  \/ ~PaymentRequired
  \/ PaymentRegistered
  \/ GivenUp(r)
  \/ ~HasBackend

\* Mutant of MarksPayments: the configuration is not looked at.
MarksPaymentsAlways(e) == e = "on_payment_complete"

MarksPayments(e) == WaitForPayment /\ e = "on_payment_complete"

\* Mutant of ReadyToHash: a failed registration does not keep the attributes.
ReadyToHashFailed == ~Waiting(row) /\ row.status \in {"success", "failed"}

ReadyToHash == ~Waiting(row) /\ row.status = "success"

\* Mutant of ComponentAllowed: a hook that succeeded may run again.
ComponentAllowedAgain(k) == ~GivenUp(row)

ComponentAllowed(k) == comp[k] # "success" /\ ~GivenUp(row)

-----------------------------------------------------------------------------
\* Moving along the chain (celery and celery-once)

At(c, p) == pc[c] = p

Goto(c, p, copy) ==
  /\ pc' = [pc EXCEPT ![c] = p]
  /\ seen' = [seen EXCEPT ![c] = copy]
  /\ UNCHANGED <<event, work, locks, processing, watched>>

\* The task returned: celery sends the next one of the chain.  A QueueOnce task whose
\* key is taken is rejected without an error, and the rest of the chain with it.
Return(c, next) ==
  LET key == OnceKey(next, event[c])
      accepted == key \cap locks = {}
  IN /\ pc' = [pc EXCEPT ![c] = IF accepted THEN next ELSE "idle"]
     /\ locks' = (locks \ Held(c)) \cup (IF accepted THEN key ELSE {})
     /\ seen' = [seen EXCEPT ![c] = NewRow]
     /\ work' = [work EXCEPT ![c] = NothingDone]
     /\ watched' = IF accepted THEN watched ELSE watched \ {c}
     /\ UNCHANGED <<event, processing>>

\* The chain is over: the status endpoint reports it if it looks at this chain.
Ended(c, result) ==
  /\ processing' = IF c \in watched THEN result ELSE processing
  /\ watched' = watched \ {c}

\* The task raised: the chain stops.
Raise(c) ==
  /\ pc' = [pc EXCEPT ![c] = "idle"]
  /\ locks' = locks \ Held(c)
  /\ seen' = [seen EXCEPT ![c] = NewRow]
  /\ Ended(c, "failed")
  /\ UNCHANGED <<event, work>>

\* Only a retry re-raises what a plugin raised; other events swallow it.
FailTask(c, next) == IF event[c] = "on_retry" THEN Raise(c) ELSE Return(c, next)

Send(c, e) ==
  /\ At(c, "idle")
  /\ OnceKey("appointment", e) \cap locks = {}
  /\ pc' = [pc EXCEPT ![c] = "appointment"]
  /\ event' = [event EXCEPT ![c] = e]
  /\ locks' = locks \cup OnceKey("appointment", e)
  /\ UNCHANGED <<seen, work>>

\* on_post_submission_event: the chain is sent, or dropped at its first task because
\* another chain of the submission still has that task queued or running.
OnPostSubmissionEvent(e) ==
  \/ \E c \in Chains : Send(c, e)
  \/ /\ OnceKey("appointment", e) \cap locks # {}
     /\ UNCHANGED chainVars

-----------------------------------------------------------------------------
Init ==
  /\ row = NewRow
  /\ comp = [k \in Components |-> "none"]
  /\ payment = [p \in Payments |-> "none"]
  /\ hashed = FALSE
  /\ booking = "none"
  /\ processing = "open"
  /\ watched = {}
  /\ finalised = FALSE
  /\ recent = FALSE
  /\ hashTask = FALSE
  /\ pc = [c \in Chains |-> "idle"]
  /\ event = [c \in Chains |-> "on_completion"]
  /\ seen = [c \in Chains |-> NewRow]
  /\ work = [c \in Chains |-> NothingDone]
  /\ locks = {}
  /\ payLock = {}
  /\ requested = [v \in Views |-> {}]
  /\ cosigned = FALSE
  /\ known = {}
  /\ calls = 0
  /\ outlived = {}
  /\ crashes = 0
  /\ resets = 0
  /\ delays = 0

-----------------------------------------------------------------------------
\* Events

\* Who may call a view: the user while the session has the submission, the cosigner from
\* the request for a cosignature on.
MayRequest(v) ==
  CASE v = "complete" -> processing = "open"
    [] v = "cosign" -> CosignRequired /\ finalised

\* A request reads the row, and is not answered at once.
SlowRequest(v) ==
  /\ MayRequest(v)
  /\ delays < MaxDelays
  /\ delays' = delays + 1
  /\ requested[v] = {}
  /\ requested' = [requested EXCEPT ![v] = {row}]
  /\ UNCHANGED <<dbVars, chainVars, userVars, hashTask, payLock, cosigned, known, calls,
                 outlived, crashes, resets>>

\* A view saves every column: as the row is now, or as it was when a slow request read it.
\* What the request was allowed by was tested back then.
Saves(v, copy) ==
  \/ /\ MayRequest(v)
     /\ copy = row
     /\ requested' = requested
  \/ /\ copy \in requested[v]
     /\ requested' = [requested EXCEPT ![v] = {}]

\* _complete_submission: for the first time, again after its processing failed, or twice in
\* two requests at the same time.  The status endpoint reports on the chain sent last.
Complete ==
  /\ \E copy \in {row} \cup requested["complete"] : Saves("complete", copy) /\ row' = copy
  /\ processing' = "running"
  /\ recent' = TRUE
  /\ OnPostSubmissionEvent("on_completion")
  /\ watched' = {c \in Chains : pc[c] # pc'[c]}
  /\ UNCHANGED <<comp, payment, hashed, booking, finalised, hashTask, payLock, cosigned,
                 known, calls, outlived, crashes, resets, delays>>

\* The status endpoint sees the failed chain: the submission is put back in the session.
StatusPoll ==
  /\ processing = "failed"
  /\ processing' = "open"
  /\ UNCHANGED <<dbVars, chainVars, watched, finalised, recent, hashTask, payLock,
                 known, calls, outerVars>>

\* The payment provider reports p as paid, in the return view or the webhook.
PaymentComplete(p) ==
  /\ PaymentRequired
  /\ finalised
  /\ payment[p] = "none"
  /\ payment' = [payment EXCEPT ![p] = "completed"]
  /\ OnPostSubmissionEvent("on_payment_complete")
  /\ UNCHANGED <<row, comp, userVars, hashed, booking, hashTask, payLock, known, calls,
                 outerVars>>

\* ... and reports it again: the other of the two, or a repeated webhook call.
PaymentRepeat(p) ==
  /\ payment[p] = "completed"
  /\ OnPostSubmissionEvent("on_payment_complete")
  /\ UNCHANGED <<dbVars, processing, watched, finalised, recent, hashTask, payLock,
                 known, calls, outerVars>>

\* The cosigner may do so in several sessions: only the lookup asks whether the submission
\* still waits for it.
CosignComplete ==
  /\ \E copy \in {row} \cup requested["cosign"] :
       Saves("cosign", copy) /\ row' = [copy EXCEPT !.signed = TRUE]
  /\ cosigned' = TRUE
  /\ OnPostSubmissionEvent("on_cosign_complete")
  /\ UNCHANGED <<comp, payment, hashed, booking, processing, watched, finalised,
                 recent, hashTask, payLock, known, calls, outlived, crashes, resets, delays>>

\* retry_processing_submissions, every five minutes by celery beat
Retry(c) ==
  /\ row.retry
  /\ recent
  /\ Send(c, "on_retry")
  /\ UNCHANGED <<dbVars, processing, watched, finalised, recent, hashTask, payLock,
                 known, calls, outerVars>>

\* the admin action of the same name, which also resets the attempts
AdminRetry ==
  /\ row.status = "failed"
  /\ resets < MaxResets
  /\ resets' = resets + 1
  /\ row' = [row EXCEPT !.attempts = 0]
  /\ OnPostSubmissionEvent("on_retry")
  /\ UNCHANGED <<comp, payment, userVars, hashed, booking, hashTask, payLock, requested,
                 cosigned, known, calls, outlived, crashes, delays>>

\* RETRY_SUBMISSIONS_TIME_LIMIT hours have passed.
Age ==
  /\ recent
  /\ recent' = FALSE
  /\ UNCHANGED <<dbVars, chainVars, processing, watched, finalised, hashTask,
                 payLock, known, calls, outerVars>>

-----------------------------------------------------------------------------
\* maybe_register_appointment

BookAppointment(c) ==
  /\ At(c, "appointment")
  /\ \/ /\ ~IsAppointmentForm
        /\ booking' = booking
        /\ Return(c, "pre")
     \/ /\ IsAppointmentForm
        /\ booking' = "success"
        /\ Return(c, "pre")
     \/ /\ IsAppointmentForm
        /\ booking' = "failed"
        /\ Raise(c)
  /\ UNCHANGED <<row, comp, payment, hashed, finalised, recent, hashTask, payLock,
                 known, calls, outerVars>>

-----------------------------------------------------------------------------
\* pre_registration (not a QueueOnce task)

preUnchanged == <<comp, payment, hashed, booking, finalised, recent, hashTask,
                  payLock, known, calls, outerVars>>

\* Mutant of PreRegistration: no early return when it is complete already.
PreRegistrationAgain(c) ==
  /\ At(c, "pre")
  /\ IF GivenUp(row)
       THEN Return(c, "components")
       ELSE Goto(c, IF HasBackend THEN "pre_options" ELSE "pre_save", row)
  /\ UNCHANGED <<row, preUnchanged>>

PreRegistration(c) ==
  /\ At(c, "pre")
  /\ IF row.pre \/ GivenUp(row)
       THEN Return(c, "components")
       ELSE Goto(c, IF HasBackend THEN "pre_options" ELSE "pre_save", row)
  /\ UNCHANGED <<row, preUnchanged>>

\* Invalid options: the failure is recorded inside transaction.atomic(), so re-raising
\* it on a retry rolls the record back.
PreRegistrationInvalidOptions(c) ==
  /\ At(c, "pre_options")
  /\ OptionsCanBeInvalid
  /\ row' = IF event[c] = "on_retry" THEN row ELSE AttemptFailed(row, seen[c])
  /\ FailTask(c, "components")
  /\ UNCHANGED preUnchanged

\* On a retry the temporary reference is stored with a save of every column of the copy.
PreRegistrationValidOptions(c) ==
  /\ At(c, "pre_options")
  /\ row' = IF event[c] = "on_retry" THEN seen[c] ELSE row
  /\ Goto(c, "pre_call", seen[c])
  /\ UNCHANGED preUnchanged

PreRegistrationCall(c) ==
  /\ At(c, "pre_call")
  /\ \/ /\ row' = row
        /\ Goto(c, "pre_save", seen[c])
     \/ /\ row' = AttemptFailed(row, seen[c])
        /\ FailTask(c, "components")
  /\ UNCHANGED preUnchanged

\* submission.save(): every column, as it was when the task read the row
FullSave(copy) == [copy EXCEPT !.pre = TRUE]

PreRegistrationSave(c) ==
  /\ At(c, "pre_save")
  /\ row' = FullSave(seen[c])
  /\ Return(c, "components")
  /\ UNCHANGED preUnchanged

-----------------------------------------------------------------------------
\* execute_component_pre_registration(_group) and process_component_pre_registration

compUnchanged == <<payment, hashed, booking, processing, watched, finalised, recent,
                   hashTask, payLock, known, calls, outerVars>>

ComponentStart(c, k) ==
  /\ At(c, "components")
  /\ work[c][k] = "todo"
  /\ IF ComponentAllowed(k)
       THEN /\ comp' = [comp EXCEPT ![k] = "in_progress"]
            /\ work' = [work EXCEPT ![c][k] = "busy"]
       ELSE /\ comp' = comp
            /\ work' = [work EXCEPT ![c][k] = "done"]
  /\ UNCHANGED <<row, pc, event, seen, locks, compUnchanged>>

ComponentResult(c, k) ==
  /\ At(c, "components")
  /\ work[c][k] = "busy"
  /\ \E result \in {"success", "failed"} : comp' = [comp EXCEPT ![k] = result]
  /\ work' = [work EXCEPT ![c][k] = "done"]
  /\ UNCHANGED <<row, pc, event, seen, locks, compUnchanged>>

ComponentsDone(c) ==
  /\ At(c, "components")
  /\ \A k \in Components : work[c][k] = "done"
  /\ Return(c, "process")
  /\ UNCHANGED <<dbVars, finalised, recent, hashTask, payLock, known, calls, outerVars>>

ComponentFailureFlag(r) ==
  [r EXCEPT !.retry = @ \/ \E k \in Components : comp[k] = "failed"]

ProcessComponents(c) ==
  /\ At(c, "process")
  /\ row' = ComponentFailureFlag(row)
  /\ Return(c, "report")
  /\ UNCHANGED <<comp, payment, hashed, booking, finalised, recent, hashTask,
                 payLock, known, calls, outerVars>>

\* generate_submission_report: idempotent, touches nothing the other tasks read
GenerateReport(c) ==
  /\ At(c, "report")
  /\ Return(c, "register")
  /\ UNCHANGED <<dbVars, finalised, recent, hashTask, payLock, known, calls, outerVars>>

-----------------------------------------------------------------------------
\* register_submission

regUnchanged == <<comp, hashed, booking, finalised, recent, hashTask, payLock,
                  outerVars>>

RegisterSubmission(c) ==
  /\ At(c, "register")
  /\ IF RegistrationBlocked(row)
       THEN Return(c, "payment")
       ELSE Goto(c, "reg_mark", row)
  /\ UNCHANGED <<row, payment, known, calls, regUnchanged>>

InProgress(r, copy) ==
  [r EXCEPT !.status = "in_progress", !.attempts = copy.attempts + 1]

\* The plugin works with the task's copy of the row.
PluginCopy(copy) == IF PluginSaves THEN InProgress(copy, copy) ELSE NewRow

RegisterMark(c) ==
  /\ At(c, "reg_mark")
  /\ row' = InProgress(row, seen[c])
  /\ IF HasBackend
       THEN Goto(c, "reg_call", PluginCopy(seen[c]))
       ELSE Goto(c, "reg_save", NewRow)
  /\ UNCHANGED <<payment, known, calls, regUnchanged>>

\* Plugin disabled, options invalid or the plugin raised: all end the same way.
RegisterFails(c) ==
  /\ At(c, "reg_call")
  /\ row' = StatusFailed(row)
  /\ FailTask(c, "payment")
  /\ UNCHANGED <<payment, known, calls, regUnchanged>>

RegisterCall(c) ==
  /\ At(c, "reg_call")
  /\ row' = IF PluginSaves THEN seen[c] ELSE row
  /\ calls' = Bump(calls)
  /\ known' = IF WaitForPayment THEN known \cup Paid ELSE known
  /\ Goto(c, IF MarksPayments(event[c]) THEN "reg_pay" ELSE "reg_save", NewRow)
  /\ UNCHANGED <<payment, regUnchanged>>

RegisterMarkPayments(c) ==
  /\ At(c, "reg_pay")
  /\ payment' = MarkRegistered
  /\ Goto(c, "reg_save", NewRow)
  /\ UNCHANGED <<row, known, calls, regUnchanged>>

\* Mutant of RegisterSave: there is no check constraint.
RegisterSaveUnchecked(c) ==
  /\ At(c, "reg_save")
  /\ row' = [row EXCEPT !.status = "success"]
  /\ Return(c, "payment")
  /\ UNCHANGED <<payment, known, calls, regUnchanged>>

\* The check constraint on the table refuses success without pre-registration.
RegisterSave(c) ==
  /\ At(c, "reg_save")
  /\ \/ /\ row.pre
        /\ row' = [row EXCEPT !.status = "success"]
        /\ Return(c, "payment")
     \/ /\ ~row.pre
        /\ row' = row
        /\ Raise(c)
  /\ UNCHANGED <<payment, known, calls, regUnchanged>>

-----------------------------------------------------------------------------
\* update_submission_payment_status

payUnchanged == <<comp, hashed, booking, finalised, recent, hashTask, calls,
                  outerVars>>

UpdatePaymentStatus(c) ==
  /\ At(c, "payment")
  /\ IF PaymentUpdateSkipped(row)
       THEN Return(c, "finalise")
       ELSE Goto(c, "pay_select", NewRow)
  /\ UNCHANGED <<row, payment, payLock, known, payUnchanged>>

\* Mutant of PaymentSelect: the query does not lock the rows.
PaymentSelectUnlocked(c) ==
  /\ At(c, "pay_select")
  /\ IF Completed = {} THEN Return(c, "finalise") ELSE Goto(c, "pay_call", NewRow)
  /\ UNCHANGED <<row, payment, payLock, known, payUnchanged>>

\* select_for_update on the completed payments waits for whoever holds their rows
PaymentSelect(c) ==
  /\ At(c, "pay_select")
  /\ IF Completed = {}
       THEN /\ Return(c, "finalise")
            /\ payLock' = payLock
       ELSE /\ payLock = {}
            /\ payLock' = {c}
            /\ Goto(c, "pay_call", NewRow)
  /\ UNCHANGED <<row, payment, known, payUnchanged>>

PaymentCallSucceeds(c) ==
  /\ At(c, "pay_call")
  /\ known' = known \cup Paid
  /\ Goto(c, "pay_commit", NewRow)
  /\ UNCHANGED <<row, payment, payLock, payUnchanged>>

\* mark_registered runs the query again: whatever is completed by now
PaymentCommit(c) ==
  /\ At(c, "pay_commit")
  /\ payment' = MarkRegistered
  /\ payLock' = payLock \ {c}
  /\ Return(c, "finalise")
  /\ UNCHANGED <<row, known, payUnchanged>>

PaymentCallFails(c) ==
  /\ At(c, "pay_call")
  /\ payLock' = payLock \ {c}
  /\ row' = [row EXCEPT !.retry = TRUE]
  /\ FailTask(c, "finalise")
  /\ UNCHANGED <<payment, known, payUnchanged>>

-----------------------------------------------------------------------------
\* finalise_completion and the task it sends

FinaliseCompletion(c) ==
  /\ At(c, "finalise")
  /\ Goto(c, "fin_save", [row EXCEPT !.retry = NeedsRetry(row)])
  /\ UNCHANGED <<dbVars, finalised, recent, hashTask, payLock, known, calls, outerVars>>

FinaliseSave(c) ==
  /\ At(c, "fin_save")
  /\ row' = [row EXCEPT !.retry = seen[c].retry]
  /\ hashTask' = TRUE
  /\ finalised' = TRUE
  /\ Ended(c, "done")
  /\ pc' = [pc EXCEPT ![c] = "idle"]
  /\ seen' = [seen EXCEPT ![c] = NewRow]
  /\ UNCHANGED <<comp, payment, hashed, booking, recent, event, work, locks,
                 payLock, known, calls, outerVars>>

MaybeHash ==
  /\ hashTask
  /\ hashTask' = FALSE
  /\ hashed' = (hashed \/ ReadyToHash)
  /\ UNCHANGED <<row, comp, payment, booking, processing, watched, finalised, recent,
                 chainVars, payLock, known, calls, outerVars>>

-----------------------------------------------------------------------------
\* Failures of the infrastructure

\* A worker is killed.  Its task is delivered again (it was not acknowledged yet), or,
\* killed for exceeding its hard time limit, it has failed without releasing its key.
Crash(c) ==
  /\ ~At(c, "idle")
  /\ crashes < MaxCrashes
  /\ crashes' = crashes + 1
  /\ seen' = [seen EXCEPT ![c] = NewRow]
  /\ work' = [work EXCEPT ![c] =
                [k \in Components |-> IF @[k] = "busy" THEN "todo" ELSE @[k]]]
  /\ payLock' = payLock \ {c}
  /\ \/ /\ pc' = [pc EXCEPT ![c] = TaskStart(@)]
        /\ UNCHANGED <<processing, watched>>
     \/ /\ TimeLimitKills
        /\ pc' = [pc EXCEPT ![c] = "idle"]
        /\ Ended(c, "failed")
  /\ UNCHANGED <<dbVars, finalised, recent, hashTask, event, locks, requested,
                 cosigned, known, calls, outlived, resets, delays>>

\* celery-once drops a key an hour after its task was sent: one that a killed task left,
LockExpires ==
  /\ \E key \in locks :
       /\ \A c \in Chains : key \notin Held(c)
       /\ locks' = locks \ {key}
  /\ UNCHANGED <<dbVars, processing, watched, finalised, recent, hashTask, pc, event,
                 seen, work, payLock, known, calls, outerVars>>

\* ... and the one of a task that has waited in the queue, or runs, for that long.
KeyOutlived(c) ==
  /\ Held(c) \cap locks # {}
  /\ delays < MaxDelays
  /\ delays' = delays + 1
  /\ locks' = locks \ Held(c)
  /\ outlived' = outlived \cup Held(c)
  /\ UNCHANGED <<dbVars, processing, watched, finalised, recent, hashTask, pc, event, seen,
                 work, payLock, requested, cosigned, known, calls, crashes, resets>>

-----------------------------------------------------------------------------
AppointmentTask(c) == BookAppointment(c)

PreRegistrationTask(c) ==
  \/ PreRegistration(c) \/ PreRegistrationInvalidOptions(c)
  \/ PreRegistrationValidOptions(c) \/ PreRegistrationCall(c) \/ PreRegistrationSave(c)

ComponentTasks(c) ==
  \/ \E k \in Components : ComponentStart(c, k) \/ ComponentResult(c, k)
  \/ ComponentsDone(c) \/ ProcessComponents(c) \/ GenerateReport(c)

RegisterTask(c) ==
  \/ RegisterSubmission(c) \/ RegisterMark(c) \/ RegisterFails(c) \/ RegisterCall(c)
  \/ RegisterMarkPayments(c) \/ RegisterSave(c)

PaymentTask(c) ==
  \/ UpdatePaymentStatus(c) \/ PaymentSelect(c) \/ PaymentCallSucceeds(c)
  \/ PaymentCommit(c) \/ PaymentCallFails(c)

FinaliseTask(c) == FinaliseCompletion(c) \/ FinaliseSave(c)

Task(c) ==
  \/ AppointmentTask(c) \/ PreRegistrationTask(c) \/ ComponentTasks(c)
  \/ RegisterTask(c) \/ PaymentTask(c) \/ FinaliseTask(c)

UserEvent ==
  \/ Complete \/ StatusPoll \/ CosignComplete \/ AdminRetry
  \/ \E p \in Payments : PaymentComplete(p) \/ PaymentRepeat(p)
  \/ \E v \in Views : SlowRequest(v)

Next ==
  \/ UserEvent
  \/ \E c \in Chains : Retry(c) \/ Task(c) \/ Crash(c) \/ KeyOutlived(c)
  \/ MaybeHash \/ Age \/ LockExpires

Spec == Init /\ [][Next]_vars

\* Celery runs what is queued and beat keeps ticking; nothing makes users, payment
\* providers, plugins or crashes act.  A chain slot is free again and again while
\* chains end, so beat gets its turn (strong fairness: slots are an artefact).
Fairness ==
  /\ \A c \in Chains : WF_vars(Task(c))
  /\ SF_vars(\E c \in Chains : Retry(c))
  /\ WF_vars(LockExpires)
  /\ WF_vars(MaybeHash)

FairSpec == Spec /\ Fairness

\* ... and the backend is not down forever: a payment update that is tried again and
\* again succeeds at some point.
BackendRecovers == \A c \in Chains : SF_vars(PaymentCallSucceeds(c))

RecoveringSpec == FairSpec /\ BackendRecovers

-----------------------------------------------------------------------------
(***************************************************************************)
(* Properties.                                                             *)
(***************************************************************************)

TypeOK ==
  /\ row \in Row
  /\ comp \in [Components -> {"none", "in_progress", "success", "failed"}]
  /\ payment \in [Payments -> {"none", "completed", "registered"}]
  /\ hashed \in BOOLEAN
  /\ booking \in {"none", "success", "failed"}
  /\ processing \in {"open", "running", "failed", "done"}
  /\ watched \subseteq Chains
  /\ finalised \in BOOLEAN
  /\ recent \in BOOLEAN
  /\ hashTask \in BOOLEAN
  /\ pc \in [Chains -> PCs]
  /\ event \in [Chains -> Events]
  /\ seen \in [Chains -> Row]
  /\ work \in [Chains -> [Components -> {"todo", "busy", "done"}]]
  /\ locks \subseteq OnceKeys
  /\ payLock \subseteq Chains
  /\ requested \in [Views -> SUBSET Row]
  /\ cosigned \in BOOLEAN
  /\ known \subseteq Payments
  /\ calls \in 0..CallsCap
  /\ outlived \subseteq OnceKeys
  /\ crashes \in 0..MaxCrashes
  /\ resets \in 0..MaxResets
  /\ delays \in 0..MaxDelays

-----------------------------------------------------------------------------
\* For any number of chains at the same time.

\* Two chains are in the same once-task - the booking of the appointment for any event,
\* register_submission or update_submission_payment_status for the same one - only after
\* the celery-once key of that task expired with the task still to end.
OnceTasksExclusive ==
  \A c, d \in Chains : c # d =>
    /\ At(c, "appointment") /\ At(d, "appointment") => <<"appointment", "any">> \in outlived
    /\ event[c] = event[d] =>
         /\ pc[c] \in RegisterPCs /\ pc[d] \in RegisterPCs
              => <<"register", event[c]>> \in outlived
         /\ pc[c] \in PaymentPCs /\ pc[d] \in PaymentPCs
              => <<"payment", event[c]>> \in outlived

\* No interleaving of the tasks' partial and full saves leaves a submission registered
\* whose pre-registration is not complete (the check constraint on the table, which only
\* the save of the registration result can run into).
SuccessWasPreRegistered == row.status = "success" => row.pre

\* A submission that counts as having its payment registered is one whose registration
\* backend was told about a payment, by update_payment_status or by a registration that
\* waited for it.
PaymentRegisteredIsKnown == PaymentRegistered => known # {}

\* While a chain updates the payment status at the backend, there is still a completed
\* payment to register: no other chain registers it in the meantime.
PaymentUpdateIsNeeded ==
  \A c \in Chains : pc[c] \in {"pay_call", "pay_commit"} => Completed # {}

\* The backend is never sent a submission that nobody cosigned though it needs to be or,
\* where the configuration says to wait for the payment, that nobody paid for.
RegistersOnlyWhenAllowed ==
  [][\A c \in Chains :
       RegisterCall(c) => /\ CosignRequired => cosigned
                          /\ WaitForPayment /\ PaymentRequired => HasPaid]_vars

-----------------------------------------------------------------------------
\* For one chain at a time (Cardinality(Chains) = 1).

\* "if it's already successfully registered, do not overwrite that": not by another
\* registration, and not by any other task that writes the row.
SuccessIsFinal == [][row.status = "success" => row'.status = "success"]_vars

\* The backend registers the submission once, or once more for every worker that was
\* killed between the call and the save of its result.
RegisteredOnce == calls <= 1 + crashes

\* A failed submission that has attempts left and no task under way is flagged, so
\* that beat finds it.  (The chain of an administrator's retry may be dropped: then it
\* takes another.)
FailedIsRetried ==
  (/\ row.status = "failed"
   /\ ~GivenUp(row)
   /\ resets = 0
   /\ \A c \in Chains : At(c, "idle"))
     => row.retry

\* No chain is about to send the identifying attributes to the backend after they have
\* been hashed.
HashedAttributesNotNeeded ==
  \A c \in Chains : pc[c] \in {"reg_mark", "reg_call"} => ~hashed

\* A component's hook does not run again after it succeeded.
HookSuccessIsFinal ==
  [][\A k \in Components : comp[k] = "success" => comp'[k] = "success"]_vars

\* The registration status and the attempts go through the steps of the life cycle only.
Lifecycle == INSTANCE RegistrationLifecycle
  WITH status <- row.status, attempts <- row.attempts, Limit <- AttemptLimit

ImplementsLifecycle == Lifecycle!Spec

\* A failed submission that does not wait for its cosigner is eventually attempted again
\* or given up, unless it gets too old.
FailureResolves ==
  (row.status = "failed" /\ ~Waiting(row))
     ~> (row.status # "failed" \/ ~row.retry \/ ~recent)

\* A registration in progress comes to an end, also when its worker is killed and the
\* task is delivered again, as long as that was not the last attempt.
RegistrationEnds ==
  row.status = "in_progress" ~> (row.status # "in_progress" \/ GivenUp(row))

\* The payment of a registered submission that has attempts left is eventually registered,
\* however often the update fails first, unless the submission gets too old.
PaymentIsRetried ==
  (HasPaid /\ row.status = "success" /\ ~GivenUp(row)) ~> (PaymentRegistered \/ ~recent)

\* Once the submission and its payment are registered, the retries come to an end.
RetriesEnd ==
  (row.status = "success" /\ PaymentRegistered) ~> (~row.retry \/ ~recent)

=============================================================================
