-------------------------------- MODULE Emails --------------------------------
(***************************************************************************)
(* The e-mails about ONE completed submission.  finalise_completion, at    *)
(* the end of every chain of Processing, queues schedule_emails; that task *)
(* sends the request to the cosigner and schedules the confirmation mail,  *)
(* at once or, while a payment is open, after a countdown.  Any number of  *)
(* deliveries of send_confirmation_email run side by side; the row lock    *)
(* (FOR UPDATE NOWAIT) and four flags of the row keep them apart.          *)
(***************************************************************************)
EXTENDS Integers, FiniteSets

CONSTANTS
  Tasks,             \* slots: deliveries of send_confirmation_email under way
  Requests,          \* slots: deliveries of send_email_cosigner under way
  Savers,            \* slots: requests and tasks of others that save all of the submission
  Views,             \* those of them that are for the cosign view
  Addresses,         \* sets of those who may have an e-mail address in the submitted data
  PaymentRequired,   \* submission.payment_required
  CosignRequired,    \* cosign_state.is_required
  SendsConfirmation, \* form.send_confirmation_email
  MaxSaves,          \* bound on the copies read to be saved
  MaxTroubles        \* bound on the mails, requests and chains that fail and workers killed

ASSUME ConstantsAssumption ==
  /\ {PaymentRequired, CosignRequired, SendsConfirmation} \subseteq BOOLEAN
  /\ Views \subseteq Savers
  /\ Addresses \subseteq SUBSET {"recipient", "cosigner"}
  /\ MaxSaves \in Nat
  /\ MaxTroubles \in Nat

VARIABLES
  row,        \* the columns of the Submission row that are about e-mails
  known,      \* who has such an address
  paid,       \* submission.payment_user_has_paid: a query on the payments
  due,        \* nothing is scheduled, and a chain has yet to run finalise_completion
  scheduled,  \* schedule_emails is queued (a QueueOnce task)
  pc,         \* per slot: a delivery of send_confirmation_email
  draft,      \* per slot: the mail it is about to send
  asking,     \* per slot: a delivery of send_email_cosigner
  hook,       \* on_confirmation_email_sent (a QueueOnce task)
  saver,      \* per slot: the copy of the row that a request or task saves all of
  mails,      \* confirmation mails in the mail queue (committed)
  copied,     \* history: how many of them the cosigner got
  undone,     \* history: full saves that made a mail due (see FullSave)
  saves, failures, crashes

bounds == <<saves, failures, crashes>>
outside == <<known, paid>>
history == <<copied, undone>>
vars == <<row, known, paid, due, scheduled, pc, draft, asking, hook, saver, mails,
          copied, undone, saves, failures, crashes>>

-----------------------------------------------------------------------------
\* Values

Row == [signed : BOOLEAN,           \* cosign_complete
        requested : BOOLEAN,        \* cosign_request_email_sent
        confirmed : BOOLEAN,        \* confirmation_email_sent
        cosignConfirmed : BOOLEAN,  \* cosign_confirmation_email_sent
        paymentConfirmed : BOOLEAN] \* payment_complete_confirmation_email_sent

NewRow == [signed |-> FALSE, requested |-> FALSE, confirmed |-> FALSE,
           cosignConfirmed |-> FALSE, paymentConfirmed |-> FALSE]

\* Contents of a mail, as far as the flags and the reader can tell them apart.
Draft == [mailed : BOOLEAN,   \* there is a recipient
          cosigner : BOOLEAN, \* should_cosigner_be_in_cc
          copy : BOOLEAN,     \* the cosigner is in cc
          flag : BOOLEAN]     \* payment_user_has_paid when the flags were set

NoDraft == [mailed |-> FALSE, cosigner |-> FALSE, copy |-> FALSE, flag |-> FALSE]

\* "saving": the transaction has written the row, and is still to commit.
Saver == [pc : {"idle", "read", "saving"}, copy : Row]

NoSaver == [pc |-> "idle", copy |-> NewRow]

SendPCs == {"idle", "delayed", "queued", "sending", "commit"}
AskPCs  == {"idle", "queued", "saving"}

-----------------------------------------------------------------------------
\* Conditions of the code

\* cosign_state.is_waiting
Waiting(r) == CosignRequired /\ ~r.signed

\* The early return of schedule_emails.
AllSent(r) ==
  r.confirmed /\ r.requested /\ r.cosignConfirmed /\ r.paymentConfirmed

\* Mutant of NeedsMail: nothing is sent after the cosignature.
NeedsMailUnsigned(r, p) == ~r.confirmed \/ (~r.paymentConfirmed /\ p)

\* "The following conditions must apply before an e-mail can be sent."
NeedsMail(r, p) ==
  \/ ~r.confirmed
  \/ ~r.cosignConfirmed /\ r.signed
  \/ ~r.paymentConfirmed /\ p

\* The deliveries that hold the lock on the row: at most one.
RowLock == {t \in Tasks : pc[t] \in {"sending", "commit"}}

\* Other transactions that have written the row: at most one, too.
Writers == {v \in Savers : saver[v].pc = "saving"}

\* Mutant of Locked: the nowait lock is not taken.
LockedNever == Writers # {}

\* select_for_update(nowait=True) raises; any other writer of the row waits.
Locked == RowLock # {} \/ Writers # {}

\* There is room for one more failure, or killed worker.
Fails == failures + crashes < MaxTroubles /\ failures' = failures + 1
WorkerKilled == failures + crashes < MaxTroubles /\ crashes' = crashes + 1

-----------------------------------------------------------------------------
Init ==
  /\ row = NewRow
  /\ known \in Addresses
  /\ paid = FALSE
  /\ due = TRUE
  /\ scheduled = FALSE
  /\ pc = [t \in Tasks |-> "idle"]
  /\ draft = [t \in Tasks |-> NoDraft]
  /\ asking = [s \in Requests |-> "idle"]
  /\ hook = "none"
  /\ saver = [v \in Savers |-> NoSaver]
  /\ mails = 0
  /\ copied = 0
  /\ undone = 0
  /\ saves = 0
  /\ failures = 0
  /\ crashes = 0

-----------------------------------------------------------------------------
\* schedule_emails

\* finalise_completion of any chain, a retry's for one, queues it; celery-once drops it if
\* it is there already.
FinaliseCompletion ==
  /\ due' = FALSE
  /\ scheduled' = TRUE
  /\ UNCHANGED <<row, outside, pc, draft, asking, hook, saver, mails>>
  /\ UNCHANGED <<history, bounds>>

\* Mutant of AskCosigner: the flag is read the wrong way round.
AskCosignerAgain ==
  IF Waiting(row) /\ row.requested
    THEN \E s \in Requests : asking[s] = "idle" /\ asking' = [asking EXCEPT ![s] = "queued"]
    ELSE UNCHANGED asking

\* send_email_cosigner.delay, once the cosigner has to be asked.
AskCosigner ==
  IF Waiting(row) /\ ~row.requested
    THEN \E s \in Requests : asking[s] = "idle" /\ asking' = [asking EXCEPT ![s] = "queued"]
    ELSE UNCHANGED asking

\* The first confirmation waits a while for the payment.
Countdown == ~row.confirmed /\ PaymentRequired /\ ~paid

ScheduleEmails ==
  /\ scheduled
  /\ scheduled' = FALSE
  /\ IF AllSent(row) THEN UNCHANGED <<asking, pc>>
     ELSE /\ AskCosigner
          /\ IF SendsConfirmation
               THEN \E t \in Tasks :
                      /\ pc[t] = "idle"
                      /\ pc' = [pc EXCEPT ![t] = IF Countdown THEN "delayed" ELSE "queued"]
               ELSE UNCHANGED pc
  /\ UNCHANGED <<row, outside, due, draft, hook, saver, mails>>
  /\ UNCHANGED <<history, bounds>>

-----------------------------------------------------------------------------
\* send_email_cosigner: not a transaction, the flag is saved after the mail is queued.

\* Skipped without an address; the mail itself may fail, which nothing retries.
SendEmailCosigner(s) ==
  /\ asking[s] = "queued"
  /\ \/ /\ CosignRequired /\ "cosigner" \in known
        /\ asking' = [asking EXCEPT ![s] = "saving"]
        /\ UNCHANGED failures
     \/ /\ ~(CosignRequired /\ "cosigner" \in known)
        /\ asking' = [asking EXCEPT ![s] = "idle"]
        /\ UNCHANGED failures
     \/ /\ CosignRequired /\ "cosigner" \in known
        /\ Fails
        /\ asking' = [asking EXCEPT ![s] = "idle"]
  /\ UNCHANGED <<row, outside, due, scheduled, pc, draft, hook, saver, mails>>
  /\ UNCHANGED <<history, saves, crashes>>

RequestSave(s) ==
  /\ asking[s] = "saving"
  /\ ~Locked
  /\ row' = [row EXCEPT !.requested = TRUE]
  /\ asking' = [asking EXCEPT ![s] = "idle"]
  /\ UNCHANGED <<outside, due, scheduled, pc, draft, hook, saver, mails>>
  /\ UNCHANGED <<history, bounds>>

-----------------------------------------------------------------------------
\* send_confirmation_email, one transaction: nothing of it is visible before it commits.

\* The countdown of a delivery is over.
CountdownEnds(t) ==
  /\ pc[t] = "delayed"
  /\ pc' = [pc EXCEPT ![t] = "queued"]
  /\ UNCHANGED <<row, outside, due, scheduled, draft, asking, hook, saver, mails>>
  /\ UNCHANGED <<history, bounds>>

\* Mutant of CosignerInCc: the cosigner is put in cc of every mail after the signature.
CosignerInCcAlways(r) == r.signed

\* should_cosigner_be_in_cc
CosignerInCc(r) == r.signed /\ ~r.cosignConfirmed

\* Mutant of Render: without a recipient the mail goes to the cosigner only.
RenderToCosigner(r) ==
  [mailed |-> "recipient" \in known,
   cosigner |-> CosignerInCc(r),
   copy |-> CosignerInCc(r) /\ "cosigner" \in known,
   flag |-> FALSE]

\* Recipients, cc and the context of the templates.
Render(r) ==
  IF "recipient" \in known
    THEN [mailed |-> TRUE,
          cosigner |-> CosignerInCc(r),
          copy |-> CosignerInCc(r) /\ "cosigner" \in known,
          flag |-> FALSE]
    ELSE NoDraft

\* A delivery that does not get the lock, or finds nothing to send, ends here.
SendConfirmationEmail(t) ==
  /\ pc[t] = "queued"
  /\ IF ~Locked /\ NeedsMail(row, paid)
       THEN /\ pc' = [pc EXCEPT ![t] = "sending"]
            /\ draft' = [draft EXCEPT ![t] = Render(row)]
       ELSE /\ pc' = [pc EXCEPT ![t] = "idle"]
            /\ UNCHANGED draft
  /\ UNCHANGED <<row, outside, due, scheduled, asking, hook, saver, mails>>
  /\ UNCHANGED <<history, bounds>>

\* The mail is in the queue and the flags are set, with another query on the payments;
\* then on_confirmation_email_sent.delay, which does not wait for the commit, and which
\* celery-once drops if the hook is queued or running.
MailQueued(t) ==
  /\ pc[t] = "sending"
  /\ pc' = [pc EXCEPT ![t] = "commit"]
  /\ draft' = [draft EXCEPT ![t].flag = draft[t].mailed /\ PaymentRequired /\ paid]
  /\ hook' = IF hook = "none" THEN "queued" ELSE hook
  /\ UNCHANGED <<row, outside, due, scheduled, asking, saver, mails>>
  /\ UNCHANGED <<history, bounds>>

\* Mutant of SendFails: the flag was saved, and committed, before the mail was sent.
SendFailsFlagged(t) ==
  /\ pc[t] = "sending" /\ draft[t].mailed
  /\ Fails
  /\ pc' = [pc EXCEPT ![t] = "idle"]
  /\ draft' = [draft EXCEPT ![t] = NoDraft]
  /\ row' = [row EXCEPT !.confirmed = TRUE]
  /\ UNCHANGED <<outside, due, scheduled, asking, hook, saver, mails>>
  /\ UNCHANGED <<history, saves, crashes>>

\* A template or the mail queue raises: rolled back, and nothing sends it again.
SendFails(t) ==
  /\ pc[t] = "sending" /\ draft[t].mailed
  /\ Fails
  /\ pc' = [pc EXCEPT ![t] = "idle"]
  /\ draft' = [draft EXCEPT ![t] = NoDraft]
  /\ UNCHANGED <<row, outside, due, scheduled, asking, hook, saver, mails>>
  /\ UNCHANGED <<history, saves, crashes>>

\* Without recipients, confirmation_email_sent is False again.
Flags(r, d) ==
  IF d.mailed
    THEN [r EXCEPT !.confirmed = TRUE,
                   !.cosignConfirmed = @ \/ d.cosigner,
                   !.paymentConfirmed = @ \/ d.flag]
    ELSE [r EXCEPT !.confirmed = FALSE]

\* The transaction commits.  The worker may be killed before it acknowledges the task.
Commit(t) ==
  /\ pc[t] = "commit"
  /\ row' = Flags(row, draft[t])
  /\ mails' = IF draft[t].mailed THEN mails + 1 ELSE mails
  /\ copied' = IF draft[t].copy THEN copied + 1 ELSE copied
  /\ draft' = [draft EXCEPT ![t] = NoDraft]
  /\ \/ pc' = [pc EXCEPT ![t] = "idle"] /\ UNCHANGED crashes
     \/ /\ WorkerKilled
        /\ pc' = [pc EXCEPT ![t] = "queued"]
  /\ UNCHANGED <<outside, due, scheduled, asking, hook, saver>>
  /\ UNCHANGED <<undone, saves, failures>>

-----------------------------------------------------------------------------
\* on_confirmation_email_sent: update_registration_with_confirmation_email

\* Mutant of HasMail: confirmation_email_sent is not looked at.
HasMailUnchecked == TRUE

\* The plugin's "if not submission.confirmation_email_sent".
HasMail == row.confirmed

\* Nothing happens unless the submission is registered (Processing says when it is).  The
\* last mail that is committed is the one that is converted and sent.
OnConfirmationEmailSent ==
  /\ hook = "queued"
  /\ \E registered \in BOOLEAN :
       IF registered /\ HasMail
         THEN hook' = "attaching"
         ELSE hook' = "none"
  /\ UNCHANGED <<row, outside, due, scheduled, pc, draft, asking, saver, mails>>
  /\ UNCHANGED <<history, bounds>>

\* It succeeds or fails, which only the registration result tells apart.
AttachEnds ==
  /\ hook = "attaching"
  /\ hook' = "none"
  /\ UNCHANGED <<row, outside, due, scheduled, pc, draft, asking, saver, mails>>
  /\ UNCHANGED <<history, bounds>>

-----------------------------------------------------------------------------
\* Everybody else

\* A payment completes: it has a row of its own, which the row lock does not cover.
PaymentComplete ==
  /\ PaymentRequired /\ ~paid
  /\ paid' = TRUE
  /\ due' = ~scheduled
  /\ UNCHANGED <<row, known, scheduled, pc, draft, asking, hook, saver, mails>>
  /\ UNCHANGED <<history, bounds>>

\* The cosign view, pre_registration, the ZGW plugin and a second completion read the row ...
ReadRow(v) ==
  /\ saver[v].pc = "idle" /\ saves < MaxSaves
  /\ v \in Views => CosignRequired
  /\ saves' = saves + 1
  /\ saver' = [saver EXCEPT ![v] = [pc |-> "read", copy |-> row]]
  /\ UNCHANGED <<row, outside, due, scheduled, pc, draft, asking, hook, mails>>
  /\ UNCHANGED <<history, failures, crashes>>

\* What is saved: the copy, signed by the view.
Saved(v) == [saver[v].copy EXCEPT !.signed = @ \/ v \in Views]

\* A save of n takes a flag back that says a mail was sent.
TakesBack(n) ==
  \/ row.confirmed /\ ~n.confirmed
  \/ row.cosignConfirmed /\ ~n.cosignConfirmed
  \/ row.paymentConfirmed /\ ~n.paymentConfirmed

\* Whoever saves is followed by the end of a chain: its own, or the one the view sends.
FullSave(v, n) ==
  /\ row' = n
  /\ saver' = [saver EXCEPT ![v] = NoSaver]
  /\ due' = ~scheduled
  /\ undone' = IF TakesBack(n) \/ (n.signed /\ ~row.signed) THEN undone + 1 ELSE undone
  /\ UNCHANGED <<outside, scheduled, pc, draft, asking, hook, mails>>
  /\ UNCHANGED <<copied, bounds>>

\* ... and save all of it, alone or as the first of what their transaction does.
SaveAll(v) ==
  /\ saver[v].pc = "read"
  /\ ~Locked
  /\ saver' = [saver EXCEPT ![v].pc = "saving", ![v].copy = Saved(v)]
  /\ UNCHANGED <<row, outside, due, scheduled, pc, draft, asking, hook, mails>>
  /\ UNCHANGED <<history, bounds>>

SaverCommits(v) ==
  /\ saver[v].pc = "saving"
  /\ FullSave(v, saver[v].copy)

\* What the transaction does next fails, and the request, or the task and its chain.
SaverFails(v) ==
  /\ saver[v].pc = "saving"
  /\ saver' = [saver EXCEPT ![v] = NoSaver]
  /\ Fails
  /\ UNCHANGED <<row, outside, due, scheduled, pc, draft, asking, hook, mails>>
  /\ UNCHANGED <<history, saves, crashes>>

\* A chain that was to run finalise_completion fails before that: a retry's, or any whose
\* appointment cannot be booked.
ChainFails ==
  /\ due
  /\ due' = FALSE
  /\ Fails
  /\ UNCHANGED <<row, outside, scheduled, pc, draft, asking, hook, saver, mails>>
  /\ UNCHANGED <<history, saves, crashes>>

\* A killed worker: the transaction is rolled back and the task is delivered again (that of a
\* chain reads the row once more, see ReadRow; a request that is killed is in SaverFails).
Crash ==
  /\ WorkerKilled
  /\ \/ \E t \in Tasks :
        /\ pc[t] \in {"sending", "commit"}
        /\ pc' = [pc EXCEPT ![t] = "queued"]
        /\ draft' = [draft EXCEPT ![t] = NoDraft]
        /\ UNCHANGED <<due, asking, hook, saver>>
     \/ \E s \in Requests :
        /\ asking[s] = "saving"
        /\ asking' = [asking EXCEPT ![s] = "queued"]
        /\ UNCHANGED <<due, pc, draft, hook, saver>>
     \/ /\ hook = "attaching"
        /\ hook' = "queued"
        /\ UNCHANGED <<due, pc, draft, asking, saver>>
     \/ \E v \in Savers \ Views :
        /\ saver[v].pc = "saving"
        /\ saver' = [saver EXCEPT ![v] = NoSaver]
        /\ due' = ~scheduled
        /\ UNCHANGED <<pc, draft, asking, hook>>
  /\ UNCHANGED <<row, outside, scheduled, mails>>
  /\ UNCHANGED <<history, saves, failures>>

-----------------------------------------------------------------------------
RequestStep(s) == SendEmailCosigner(s) \/ RequestSave(s)

TaskStep(t) ==
  \/ CountdownEnds(t) \/ SendConfirmationEmail(t) \/ MailQueued(t) \/ SendFails(t)
  \/ Commit(t)

SaverStep(v) == SaverCommits(v) \/ SaverFails(v)

HookStep == OnConfirmationEmailSent \/ AttachEnds

Outside ==
  \/ FinaliseCompletion \/ PaymentComplete
  \/ \E v \in Savers : ReadRow(v) \/ SaveAll(v)
  \/ ChainFails \/ Crash

Next ==
  \/ Outside \/ ScheduleEmails \/ HookStep
  \/ \E v \in Savers : SaverStep(v)
  \/ \E s \in Requests : RequestStep(s)
  \/ \E t \in Tasks : TaskStep(t)

Spec == Init /\ [][Next]_vars

\* Workers are always there, countdowns end, and PostgreSQL grants a row lock to those
\* that wait for it in turn.  Users, chains, failures and crashes are not forced.
FairSpec ==
  /\ Spec
  /\ WF_vars(due /\ FinaliseCompletion)
  /\ WF_vars(ScheduleEmails)
  /\ WF_vars(HookStep)
  /\ \A v \in Savers : WF_vars(v \in Writers /\ SaverStep(v))
  /\ \A s \in Requests : WF_vars(SendEmailCosigner(s)) /\ SF_vars(RequestSave(s))
  /\ \A t \in Tasks : WF_vars(TaskStep(t))

-----------------------------------------------------------------------------
TypeOK ==
  /\ row \in Row
  /\ known \subseteq {"recipient", "cosigner"}
  /\ paid \in BOOLEAN
  /\ due \in BOOLEAN
  /\ scheduled \in BOOLEAN
  /\ pc \in [Tasks -> SendPCs]
  /\ draft \in [Tasks -> Draft]
  /\ asking \in [Requests -> AskPCs]
  /\ hook \in {"none", "queued", "attaching"}
  /\ saver \in [Savers -> Saver]
  /\ mails \in Nat
  /\ copied \in 0..mails
  /\ undone \in Nat
  /\ saves \in 0..MaxSaves
  /\ {failures, crashes} \subseteq 0..MaxTroubles

\* Every confirmation mail has a reason of its own: the completion, the payment, or a save
\* that signed the submission or took back a flag.  However the deliveries, the countdown,
\* redelivered tasks and events interleave, no mail is sent twice ("An email was scheduled
\* with timeout. But within that timeout the payment has happened and an email was sent
\* immediately").
MailsHaveReasons == mails <= 1 + (IF paid THEN 1 ELSE 0) + undone

\* The cosigner gets the signed submission once, or once more for every save of an old
\* copy (all saves but the one that signed).
CosignerCopiedOnce == copied <= undone

\* A flag of the row means that the mail it is about was sent: no failure and no killed
\* worker leaves a flag behind without its mail, or a copy for the cosigner.
FlagsMeanMails ==
  /\ row.confirmed => mails > 0
  /\ row.cosignConfirmed /\ "cosigner" \in known => copied > 0

\* The backend is only sent a mail that exists, although its hook may run before the
\* mail is committed or after it was rolled back.
AttachedMailExists == hook = "attaching" => mails > 0

\* After the cosignature, the mail with the cosigner in cc is sent (unless an old copy overwrites
\* the signature, or a mail, a request or a chain failed): no delivery that gives up because
\* another delivery, a view or a task has the lock can have been the last that was to come.
SignedIsMailed ==
  (SendsConfirmation /\ "recipient" \in known /\ row.signed)
    ~> (row.cosignConfirmed \/ ~row.signed \/ failures > 0)

\* The cosigner is asked to sign.
CosignerIsAsked ==
  (Waiting(row) /\ "cosigner" \in known) ~> (row.requested \/ row.signed \/ failures > 0)

===============================================================================
