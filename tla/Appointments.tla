----------------------------- MODULE Appointments -----------------------------
(***************************************************************************)
(* The appointment of ONE completed submission: booked at the plugin by    *)
(* the chains of Processing (here: the appointment task in detail, and     *)
(* registration_status as the other tasks leave it), cancelled by the user *)
(* with a mailed link, and removed with the submission by the nightly      *)
(* tasks of data_removal.  All of these run side by side, without a        *)
(* transaction around them.                                                *)
(***************************************************************************)
EXTENDS Naturals, FiniteSets

CONSTANTS
  Chains,       \* slots: chains that are live at once
  Deletes,      \* stages with removal method delete_permanently; the others are anonymised
  MaxBookings,  \* bound on the bookings made at the plugin
  MaxEvents,    \* bound on the chains that are sent after the completion
  MaxKilled     \* bound on the workers and requests that are killed

Stages == {"successfully_completed", "incomplete", "errored"}

ASSUME ConstantsAssumption ==
  /\ Deletes \subseteq Stages
  /\ {MaxBookings, MaxEvents, MaxKilled} \subseteq Nat

VARIABLES
  exists,        \* the submission is in the database, and its Appointment
  registration,  \* submission.registration_status
  cleaned,       \* submission._is_cleaned
  info,          \* AppointmentInfo: its status ("none": no row) and appointment_id
  booked,        \* appointments at the plugin
  made,          \* bookings made: the next appointment_id is made + 1
  chain,         \* per slot: where the chain is, its event and the appointment it booked
  linkMailed,    \* the confirmation e-mail has the link to cancel
  inSession,     \* the link was opened: the submission is in the user's session
  cancel,        \* the request to cancel under way, with the info it read
  past,          \* the time of the appointment has passed
  expired,       \* the removal limits that have passed
  removal,       \* the nightly task under way, with the copy it read
  events, killed,
  leftBehind,    \* history: appointments that no AppointmentInfo row names any more
  cut            \* history: a request was killed between the plugin and the database

submissionVars == <<exists, registration, cleaned>>
nightVars == <<past, expired, removal>>
userVars  == <<linkMailed, inSession, cancel, cut>>
pluginVars == <<booked, made>>
vars == <<exists, registration, cleaned, info, booked, made, chain, linkMailed, inSession,
          cancel, past, expired, removal, events, killed, leftBehind, cut>>

-----------------------------------------------------------------------------
\* Values

InfoStatuses == {"success", "failed", "cancelled"}

Info == [status : InfoStatuses \cup {"none"}, id : 0..MaxBookings]

NoInfo == [status |-> "none", id |-> 0]

RegistrationStatuses == {"pending", "in_progress", "success", "failed"}

\* The fourth limit is for all submissions.
Limits == Stages \cup {"all"}

AppointmentPCs == {"appointment", "book", "store"}

ChainState == [pc    : {"idle", "register", "registering", "final"} \cup AppointmentPCs,
               event : {"on_completion", "on_retry", "other"},
               id    : 0..MaxBookings]

Idle == [pc |-> "idle", event |-> "on_completion", id |-> 0]

Removal == [pc : {"idle", "deleting", "cleaning"}, copy : RegistrationStatuses]

NoRemoval == [pc |-> "idle", copy |-> "pending"]

Cancel == [pc : {"idle", "checked", "deleted"}, id : 0..MaxBookings]

NoCancel == [pc |-> "idle", id |-> 0]

\* Mutant of Stage: a registration that was picked up is not incomplete.
StagePendingOnly ==
  CASE registration = "success" -> "successfully_completed"
    [] registration = "pending" -> "incomplete"
    [] registration = "failed"  -> "errored"
    [] OTHER -> "other"

\* SubmissionQuerySet.annotate_stage
Stage ==
  CASE registration = "success" -> "successfully_completed"
    [] registration \in {"pending", "in_progress"} -> "incomplete"
    [] registration = "failed" -> "errored"

At(c, pc) == chain[c].pc = pc

-----------------------------------------------------------------------------
\* The submission was just completed: the first chain is sent.
Init ==
  /\ exists = TRUE
  /\ registration = "pending"
  /\ cleaned = FALSE
  /\ info = NoInfo
  /\ booked = {}
  /\ made = 0
  /\ \E c \in Chains :
       chain = [d \in Chains |-> IF d = c THEN [Idle EXCEPT !.pc = "appointment"] ELSE Idle]
  /\ linkMailed = FALSE
  /\ inSession = FALSE
  /\ cancel = NoCancel
  /\ past = FALSE
  /\ expired = {}
  /\ removal = NoRemoval
  /\ events = 0
  /\ killed = 0
  /\ leftBehind = {}
  /\ cut = FALSE

-----------------------------------------------------------------------------
\* Chains

\* on_post_submission_event: a retry (of beat, for the flag that nearly every task may have set,
\* or of an administrator), a payment, a cosigner.  It is dropped while the appointment task of
\* another chain has the key of celery-once, but no task has it for more than an hour: in the
\* queue, at the plugin or in between.
Send(c, event) ==
  /\ At(c, "idle")
  /\ exists
  /\ events < MaxEvents
  /\ events' = events + 1
  /\ chain' = [chain EXCEPT ![c] = [pc |-> "appointment", event |-> event, id |-> 0]]
  /\ UNCHANGED <<submissionVars, info, pluginVars, userVars, nightVars, killed, leftBehind>>

\* book_for_submission up to the call of the plugin: the previous info is deleted.  The task
\* fails if the submission is gone.
DeleteInfo(c) ==
  /\ At(c, "appointment")
  /\ IF exists
       THEN /\ info' = NoInfo
            /\ leftBehind' = IF info.status = "success" THEN leftBehind \cup {info.id} ELSE leftBehind
            /\ chain' = [chain EXCEPT ![c].pc = "book"]
       ELSE /\ chain' = [chain EXCEPT ![c] = Idle]
            /\ UNCHANGED <<info, leftBehind>>
  /\ UNCHANGED <<submissionVars, pluginVars, userVars, nightVars, events, killed>>

\* The row can be inserted: it is one to one with the submission.
CanInsertInfo == exists /\ info.status = "none"

\* Mutant of PluginBooks: an appointment_id is used again.
PluginBooksAgain ==
  /\ made < MaxBookings
  /\ booked' = booked \cup {made + 1}
  /\ made' = made

PluginBooks ==
  /\ made < MaxBookings
  /\ made' = made + 1
  /\ booked' = booked \cup {made'}

Book(c) ==
  /\ At(c, "book")
  /\ PluginBooks
  /\ chain' = [chain EXCEPT ![c].pc = "store", ![c].id = made']
  /\ UNCHANGED <<submissionVars, info, userVars, nightVars, events, killed, leftBehind>>

\* AppointmentCreateFailed; after a timeout the plugin may have booked all the same.
BookFails(c) ==
  /\ At(c, "book")
  /\ \/ UNCHANGED <<pluginVars, leftBehind>>
     \/ PluginBooks /\ leftBehind' = leftBehind \cup {made'}
  /\ info' = IF CanInsertInfo THEN [status |-> "failed", id |-> 0] ELSE info
  /\ chain' = [chain EXCEPT ![c] = Idle]
  /\ UNCHANGED <<submissionVars, userVars, nightVars, events, killed>>

\* AppointmentInfo.objects.create: an IntegrityError ends the chain.
StoreInfo(c) ==
  /\ At(c, "store")
  /\ IF CanInsertInfo
       THEN /\ info' = [status |-> "success", id |-> chain[c].id]
            /\ chain' = [chain EXCEPT ![c].pc = "register", ![c].id = 0]
            /\ UNCHANGED leftBehind
       ELSE /\ chain' = [chain EXCEPT ![c] = Idle]
            /\ leftBehind' = leftBehind \cup {chain[c].id}
            /\ UNCHANGED info
  /\ UNCHANGED <<submissionVars, pluginVars, userVars, nightVars, events, killed>>

\* The tasks up to register_submission: it has to wait, was done before, or starts.
RegisterStart(c) ==
  /\ At(c, "register")
  /\ IF ~exists
       THEN chain' = [chain EXCEPT ![c] = Idle] /\ UNCHANGED registration
       ELSE \/ /\ chain' = [chain EXCEPT ![c].pc = "final"]
               /\ UNCHANGED registration
            \/ /\ registration # "success"
               /\ registration' = "in_progress"
               /\ chain' = [chain EXCEPT ![c].pc = "registering"]
  /\ UNCHANGED <<exists, cleaned, info, pluginVars, userVars, nightVars, events, killed,
                 leftBehind>>

\* save_registration_status.  A failed retry, and a submission that is gone, end the chain.
RegisterEnd(c) ==
  /\ At(c, "registering")
  /\ \E result \in {"success", "failed"} :
       IF exists
         THEN /\ registration' = result
              /\ chain' = [chain EXCEPT ![c] =
                   IF result = "failed" /\ @.event = "on_retry" THEN Idle
                                                                 ELSE [@ EXCEPT !.pc = "final"]]
         ELSE chain' = [chain EXCEPT ![c] = Idle] /\ UNCHANGED registration
  /\ UNCHANGED <<exists, cleaned, info, pluginVars, userVars, nightVars, events, killed,
                 leftBehind>>

\* finalise_completion and the e-mail it schedules.
Finalise(c) ==
  /\ At(c, "final")
  /\ chain' = [chain EXCEPT ![c] = Idle]
  /\ linkMailed' = (linkMailed \/ (exists /\ info.status = "success"))
  /\ UNCHANGED <<submissionVars, info, pluginVars, inSession, cancel, cut, nightVars, events,
                 killed, leftBehind>>

\* A worker is killed: its task is delivered again, or, if it was killed for exceeding its hard
\* time limit, the chain ends (celery-once drops the key of the task after an hour).
Crash(c) ==
  /\ chain[c].pc \in {"book", "store", "registering"}
  /\ killed < MaxKilled
  /\ killed' = killed + 1
  /\ leftBehind' = IF At(c, "store") THEN leftBehind \cup {chain[c].id} ELSE leftBehind
  /\ \/ chain' = [chain EXCEPT ![c] = Idle]
     \/ chain' = [chain EXCEPT ![c].id = 0,
                               ![c].pc = IF @ = "registering" THEN "register" ELSE "appointment"]
  /\ UNCHANGED <<submissionVars, info, pluginVars, userVars, nightVars, events>>

-----------------------------------------------------------------------------
\* The user

\* VerifyCancelAppointmentLinkView: the token has the status and the start time, which is the
\* same for every booking; it is no good once that time has passed.
OpenLink ==
  /\ linkMailed
  /\ exists
  /\ info.status = "success"
  /\ ~past
  /\ inSession' = TRUE
  /\ UNCHANGED <<submissionVars, info, pluginVars, chain, linkMailed, cancel, cut, nightVars,
                 events, killed, leftBehind>>

\* CancelAppointmentView, up to the call of the plugin.  Without info there is nothing to
\* cancel; the status of the info and the time are not looked at.
CancelBegin ==
  /\ cancel = NoCancel
  /\ inSession
  /\ exists
  /\ info.status # "none"
  /\ cancel' = [pc |-> "checked", id |-> info.id]
  /\ UNCHANGED <<submissionVars, info, pluginVars, chain, linkMailed, inSession, cut,
                 nightVars, events, killed, leftBehind>>

\* plugin.delete_appointment, or AppointmentDeleteFailed.
CancelAtPlugin ==
  /\ cancel.pc = "checked"
  /\ \/ /\ cancel.id \in booked
        /\ booked' = booked \ {cancel.id}
        /\ cancel' = [cancel EXCEPT !.pc = "deleted"]
     \/ cancel' = NoCancel /\ UNCHANGED booked
  /\ UNCHANGED <<submissionVars, info, made, chain, linkMailed, inSession, cut, nightVars,
                 events, killed, leftBehind>>

\* Mutant of CancelStore: the status is only stored for an appointment to come.
CancelStoreToCome ==
  /\ cancel.pc = "deleted"
  /\ cancel' = NoCancel
  /\ info' = IF info.id = cancel.id /\ ~past THEN [info EXCEPT !.status = "cancelled"] ELSE info
  /\ UNCHANGED <<submissionVars, pluginVars, chain, linkMailed, inSession, cut, nightVars,
                 events, killed, leftBehind>>

\* Mutant of CancelStore: whatever info there is now is cancelled.
CancelStoreAny ==
  /\ cancel.pc = "deleted"
  /\ cancel' = NoCancel
  /\ info' = IF info.status # "none" THEN [info EXCEPT !.status = "cancelled"] ELSE info
  /\ UNCHANGED <<submissionVars, pluginVars, chain, linkMailed, inSession, cut, nightVars,
                 events, killed, leftBehind>>

\* AppointmentInfo.cancel: a save of the instance that was read.  If its row was deleted it is
\* inserted again, unless there is another one by now.
CancelStore ==
  /\ cancel.pc = "deleted"
  /\ cancel' = NoCancel
  /\ info' = IF CanInsertInfo \/ info.id = cancel.id
               THEN [status |-> "cancelled", id |-> cancel.id] ELSE info
  /\ UNCHANGED <<submissionVars, pluginVars, chain, linkMailed, inSession, cut, nightVars,
                 events, killed, leftBehind>>

\* The request is killed.
CancelKilled ==
  /\ cancel # NoCancel
  /\ killed < MaxKilled
  /\ killed' = killed + 1
  /\ cancel' = NoCancel
  /\ cut' = (cut \/ cancel.pc = "deleted")
  /\ UNCHANGED <<submissionVars, info, pluginVars, chain, linkMailed, inSession, nightVars,
                 events, leftBehind>>

-----------------------------------------------------------------------------
\* Time and the nights

\* The time of the appointment comes.
AppointmentPasses ==
  /\ ~past
  /\ past' = TRUE
  /\ UNCHANGED <<submissionVars, info, pluginVars, chain, userVars, expired, removal,
                 events, killed, leftBehind>>

\* The submission gets older than one of the limits.
LimitPasses(limit) ==
  /\ limit \notin expired
  /\ expired' = expired \cup {limit}
  /\ UNCHANGED <<submissionVars, info, pluginVars, chain, userVars, past, removal,
                 events, killed, leftBehind>>

\* delete_submissions: future_appointments_filter is for successful and for all submissions.
ToDelete ==
  \/ Stage \in expired \cap Deletes /\ (registration = "success" => past)
  \/ "all" \in expired /\ past

\* The nightly task finds the submission.
DeleteFind ==
  /\ removal = NoRemoval
  /\ exists
  /\ ToDelete
  /\ removal' = [pc |-> "deleting", copy |-> registration]
  /\ UNCHANGED <<submissionVars, info, pluginVars, chain, userVars, past, expired,
                 events, killed, leftBehind>>

\* It deletes what it found, with all that depends on it.  Nothing is cancelled at the plugin.
DeleteDo ==
  /\ removal.pc = "deleting"
  /\ exists' = FALSE
  /\ info' = NoInfo
  /\ leftBehind' = IF info.status = "success" THEN leftBehind \cup {info.id} ELSE leftBehind
  /\ removal' = NoRemoval
  /\ UNCHANGED <<registration, cleaned, pluginVars, chain, userVars, past, expired,
                 events, killed>>

\* make_sensitive_data_anonymous finds the submission and reads it.
CleanFind ==
  /\ removal = NoRemoval
  /\ exists /\ ~cleaned
  /\ Stage \in expired \ Deletes
  /\ removal' = [pc |-> "cleaning", copy |-> registration]
  /\ UNCHANGED <<submissionVars, info, pluginVars, chain, userVars, past, expired,
                 events, killed, leftBehind>>

\* remove_sensitive_data: a full save of the copy that was read.
CleanDo ==
  /\ removal.pc = "cleaning"
  /\ cleaned' = TRUE
  /\ registration' = removal.copy
  /\ removal' = NoRemoval
  /\ UNCHANGED <<exists, info, pluginVars, chain, userVars, past, expired, events,
                 killed, leftBehind>>

-----------------------------------------------------------------------------
ChainStep(c) ==
  \/ DeleteInfo(c) \/ Book(c) \/ BookFails(c) \/ StoreInfo(c)
  \/ RegisterStart(c) \/ RegisterEnd(c) \/ Finalise(c)

Night == DeleteFind \/ DeleteDo \/ CleanFind \/ CleanDo

Next ==
  \/ \E c \in Chains :
       \/ \E event \in {"on_retry", "other"} : Send(c, event)
       \/ ChainStep(c) \/ Crash(c)
  \/ OpenLink \/ CancelBegin \/ CancelAtPlugin \/ CancelStore \/ CancelKilled
  \/ AppointmentPasses
  \/ \E limit \in Limits : LimitPasses(limit)
  \/ Night

Spec == Init /\ [][Next]_vars

\* Chains end, and the nightly tasks run every night.
Fairness ==
  /\ \A c \in Chains : WF_vars(ChainStep(c))
  /\ WF_vars(Night)

FairSpec == Spec /\ Fairness

-----------------------------------------------------------------------------
\* Properties

TypeOK ==
  /\ {exists, cleaned, linkMailed, inSession, past, cut} \subseteq BOOLEAN
  /\ registration \in RegistrationStatuses
  /\ info \in Info
  /\ made \in 0..MaxBookings
  /\ booked \subseteq 1..made
  /\ chain \in [Chains -> ChainState]
  /\ cancel \in Cancel
  /\ expired \subseteq Limits
  /\ removal \in Removal
  /\ events \in 0..MaxEvents
  /\ killed \in 0..MaxKilled
  /\ leftBehind \subseteq 0..MaxBookings

\* Users see an appointment that is there: whatever chains and requests to cancel interleave,
\* the info says success for a live appointment, unless it is being cancelled or a request to
\* do so was killed half-way.
InfoIsLive ==
  info.status = "success" =>
    info.id \in booked \/ (cancel.pc = "deleted" /\ cancel.id = info.id) \/ cut

\* Every live appointment is one the info names, one a chain is about to store, or one that was
\* left behind by a later chain, a killed worker or the removal of the submission.
NothingElseIsLive ==
  \A id \in booked \ leftBehind :
    \/ info = [status |-> "success", id |-> id]
    \/ \E c \in Chains : At(c, "store") /\ chain[c].id = id

\* A submission whose limits have passed, and its appointment too, is deleted or made anonymous,
\* wherever its processing got stuck.
RemovedInTheEnd ==
  (Stages \subseteq expired /\ past) ~> (~exists \/ cleaned)

\* "we want to keep the submissions which have an appointment connected and it's still valid.
\* This keeps the cancel endpoint available until the expiry date."
KeptUntilAppointment ==
  [][exists /\ info.status = "success" /\ ~past => exists']_vars

=============================================================================
