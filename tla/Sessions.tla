------------------------------- MODULE Sessions -------------------------------
(***************************************************************************)
(* Who may work on ONE submission of a form with login: the lists of       *)
(* submissions in the sessions of browsers, the links to resume, those who *)
(* cosign, and the submission limit of the form.  A browser is used by one *)
(* person.  Requests run side by side, of any kind; each loads             *)
(* the session when it begins.  SessionTimeoutMiddleware modifies every    *)
(* session, so each also saves its copy when it ends (Finish), over what   *)
(* others did meanwhile.  Only the updates of the list in the middle of a  *)
(* request are done on fresh data, under a lock (_session_lock).           *)
(***************************************************************************)
EXTENDS Naturals, FiniteSets

CONSTANTS
  Browsers,
  Owners,           \* browsers used by the person who starts the submission
  Cosigners,        \* those of who has to cosign and gets the codes by mail: none, or a few
  Requests,         \* slots: requests about the submission that are under way
  Others,           \* slots: requests that complete other submissions of the form
  Limit,            \* form.submission_limit
  MaxCompletions,   \* bound on the times the submission is completed
  MaxSuspensions    \* bound on the times it is suspended

ASSUME ConstantsAssumption ==
  /\ Owners \cup Cosigners \subseteq Browsers
  /\ Owners \cap Cosigners = {}
  /\ IsFiniteSet(Requests)
  /\ IsFiniteSet(Others)
  /\ Limit \in Nat \ {0}
  /\ {MaxCompletions, MaxSuspensions} \subseteq Nat

VARIABLES
  stored,      \* per browser: what its session in the cache says
  req,         \* per slot: the request under way, with its copies
  others,      \* slots of Others that passed the check of the limit
  row,         \* of the submission; completed_on and suspended_on: 0, or which time it was
  auth,        \* the value in auth_info
  active,      \* form.active
  counter,     \* form.submission_counter
  links,       \* links to resume that were mailed
  statusUrl,   \* per browser: the status URL it got, 0 if none
  hashTasks,   \* hash_identifying_attributes, queued for a deactivated form
  completer,   \* history: the browser that completed the submission, unless suspended since
  putBack,     \* history: browsers that the status endpoint or a one-time password gave it since
  overlapped,  \* history: that browser, if it had other requests under way when it completed it
  cutOff,      \* history: it was taken out of a session without being completed (AccessNotLost)
  completions, suspensions

formVars == <<active, counter, others>>
history  == <<completer, putBack, overlapped, cutOff>>
bounds   == <<completions, suspensions>>
vars == <<stored, req, others, row, auth, active, counter, links, statusUrl, hashTasks,
          completer, putBack, overlapped, cutOff, completions, suspensions>>

-----------------------------------------------------------------------------
\* Values

Session == [has : BOOLEAN,     \* the submission is in SUBMISSIONS_SESSION_KEY
            login : BOOLEAN]   \* FORM_AUTH_SESSION_KEY is there

Row == [created : BOOLEAN, completed : Nat, suspended : Nat,
        signed : BOOLEAN]  \* cosign_complete

Kinds == {"create", "suspend", "complete", "resume", "status", "logout", "otp", "cosign",
          "other"}

Idle == [pc |-> "idle"]

Request == [pc   : {"begun", "refused", "removed", "done"},
            kind : Kinds,
            b    : Browsers,
            sess : Session,  \* the request's copy of the session
            copy : Row]      \* and of the submission, if it works with one

NewRow == [created |-> FALSE, completed |-> 0, suspended |-> 0, signed |-> FALSE]

AuthValues == {"none", "plain", "hashed", "mangled"}

\* Mutant of Hash: what is hashed is removed.
HashRemoves(value) == "removed"

\* hash_identifying_attributes; a hash of a hash matches nobody.
Hash(value) == IF value = "plain" THEN "hashed" ELSE "mangled"

\* check_form_status, Form.is_available
LimitReached == counter >= Limit

\* Mutant of Available: the limit is forgotten.
AvailableActive == active

\* Form.is_available, for users that are not staff
Available == active /\ ~LimitReached

\* SubmissionResumeTokenGenerator, SubmissionStatusTokenGenerator
TokenParts == <<row.completed, row.suspended>>

\* Mutant of MaySee: whoever has logged in may go on.
MaySeeLoggedIn(b) == stored[b].login /\ auth \in {"plain", "hashed"}

\* check_user_is_submission_initiator
MaySee(b) == stored[b].login /\ b \in Owners /\ auth \in {"plain", "hashed"}

\* cosign_state.is_waiting
Waiting(copy) == Cosigners # {} /\ ~copy.signed

Live(r) == req[r] # Idle

At(r, kind, pc) == Live(r) /\ req[r].kind = kind /\ req[r].pc = pc

\* A request for b is under way.
Busy(b) == \E r \in Requests : Live(r) /\ req[r].b = b

-----------------------------------------------------------------------------
Init ==
  /\ stored = [b \in Browsers |-> [has |-> FALSE, login |-> FALSE]]
  /\ req = [r \in Requests |-> Idle]
  /\ others = {}
  /\ row = NewRow
  /\ auth = "none"
  /\ active = TRUE
  /\ counter = 0
  /\ links = {}
  /\ statusUrl = [b \in Browsers |-> <<0, 0>>]
  /\ hashTasks = FALSE
  /\ completer = {}
  /\ putBack = {}
  /\ overlapped = {}
  /\ cutOff = FALSE
  /\ completions = 0
  /\ suspensions = 0

-----------------------------------------------------------------------------
\* The form, other submissions, other sites

Login(b) ==
  /\ ~Busy(b)
  /\ stored' = [stored EXCEPT ![b].login = TRUE]
  /\ UNCHANGED <<req, formVars, row, auth, links, statusUrl, hashTasks, history, bounds>>

\* Administrators and tasks activate and deactivate the form.
ToggleForm ==
  /\ active' = ~active
  /\ UNCHANGED <<stored, req, others, row, auth, counter, links, statusUrl, hashTasks,
                 history, bounds>>

OtherBegins(o) ==
  /\ o \notin others
  /\ Available
  /\ others' = others \cup {o}
  /\ UNCHANGED <<stored, req, row, auth, active, counter, links, statusUrl, hashTasks,
                 history, bounds>>

OtherCompletes(o) ==
  /\ o \in others
  /\ others' = others \ {o}
  /\ counter' = counter + 1
  /\ UNCHANGED <<stored, req, row, auth, active, links, statusUrl, hashTasks, history,
                 bounds>>

-----------------------------------------------------------------------------
\* Requests begin

Begin(r, b, kind, pc, sess, copy) ==
  /\ ~Live(r)
  /\ req' = [req EXCEPT ![r] = [pc |-> pc, kind |-> kind, b |-> b, sess |-> sess, copy |-> copy]]
  /\ UNCHANGED <<stored, formVars, row, auth, links, statusUrl, hashTasks, history, bounds>>

\* SubmissionViewSet.perform_create; one submission is enough.
BeginCreate(r, b) ==
  /\ ~row.created
  /\ \A s \in Requests : ~At(s, "create", "begun")
  /\ stored[b].login /\ b \in Owners
  /\ Available
  /\ Begin(r, b, "create", "begun", stored[b], NewRow)

\* ActiveSubmissionPermission.  The URL of the submission is known from the response of the
\* request that creates it.
Owns(b) ==
  /\ row.created
  /\ \A s \in Requests : ~At(s, "create", "done")
  /\ stored[b].has

\* Requests that change the submission: check_form_status stops them if the limit is reached,
\* with an error page.  Only a submission that is not completed can be suspended, and only
\* one that is can be cosigned, by somebody who has logged in and did not start it.
BeginWork(r, b, kind) ==
  /\ Owns(b)
  /\ active => ~LimitReached
  /\ kind = "suspend" => row.completed = 0
  /\ kind = "cosign" => row.completed > 0 /\ stored[b].login /\ ~MaySee(b)
  /\ Begin(r, b, kind, IF active THEN "begun" ELSE "refused", stored[b], row)

\* SubmissionLogoutView: for any form, whether or not it is available.
BeginLogout(r, b) ==
  /\ Owns(b)
  /\ Begin(r, b, "logout", "begun", stored[b], row)

\* ResumeFormMixin.get_redirect_url
BeginResume(r, b) ==
  /\ row.created
  /\ TokenParts \in links
  /\ Available
  /\ MaySee(b)
  /\ Begin(r, b, "resume", "begun", stored[b], NewRow)

\* The status endpoint; the processing has failed.
BeginStatus(r, b) ==
  /\ row.completed > 0
  /\ statusUrl[b] = TokenParts
  /\ Begin(r, b, "status", "begun", stored[b], NewRow)

\* CosignOTPFormView.  Whoever has logged in, except who started the submission, gets there with
\* the reference it has since it was completed; the one-time password is mailed to the cosigner.
BeginOTP(r, b) ==
  /\ completions > 0
  /\ stored[b].login /\ ~MaySee(b)
  /\ Waiting(row)
  /\ b \in Cosigners
  /\ Begin(r, b, "otp", "begun", stored[b], NewRow)

\* Whatever leaves the list and the submission as they are: steps, summary, logic checks, what
\* is refused for the limit, and requests about anything else.
BeginOther(r, b) == Begin(r, b, "other", "done", stored[b], NewRow)

-----------------------------------------------------------------------------
\* What requests do

\* The request's copy of the session, with the submission put in its list or taken out.
With(r, has) == [req[r].sess EXCEPT !.has = has]

\* FORM_AUTH_SESSION_KEY is deleted.
LoggedOut(session) == [session EXCEPT !.login = FALSE]

\* append_to_session_list and remove_from_session_list save the request's copy with a list that
\* is fresh.
SaveList(r, saved) == stored' = [stored EXCEPT ![req[r].b] = saved]

\* The request has done its work: all it still does is to save the copy of the session that it
\* keeps, like any other.  (Only who creates a submission has to wait for its URL.)
Ends(r, kept) ==
  req' = [req EXCEPT ![r] =
            [pc |-> "done", kind |-> IF req[r].kind = "create" THEN "create" ELSE "other",
             b |-> req[r].b, sess |-> kept, copy |-> NewRow]]

\* submission_start stores the authentication details and takes them out of the session.
Create(r) ==
  /\ At(r, "create", "begun")
  /\ row' = [row EXCEPT !.created = TRUE]
  /\ auth' = "plain"
  /\ SaveList(r, LoggedOut(With(r, TRUE)))
  /\ Ends(r, LoggedOut(With(r, TRUE)))
  /\ UNCHANGED <<formVars, links, statusUrl, hashTasks, history, bounds>>

\* cleanup_deactivated_form_session
Refuse(r) ==
  /\ Live(r) /\ req[r].pc = "refused"
  /\ SaveList(r, With(r, FALSE))
  /\ Ends(r, With(r, FALSE))
  /\ hashTasks' = TRUE
  /\ cutOff' = TRUE
  /\ UNCHANGED <<formVars, row, auth, links, statusUrl, completer, putBack, overlapped,
                 bounds>>

\* The queued task.
HashTask ==
  /\ hashTasks
  /\ hashTasks' = FALSE
  /\ auth' = Hash(auth)
  /\ UNCHANGED <<stored, req, formVars, row, links, statusUrl, history, bounds>>

\* Mutant of Suspend: it lets go of the submission, and the link is made before it is suspended.
SuspendEarlyLink(r) ==
  /\ At(r, "suspend", "begun")
  /\ suspensions < MaxSuspensions
  /\ suspensions' = suspensions + 1
  /\ row' = [req[r].copy EXCEPT !.suspended = suspensions']
  /\ auth' = Hash(auth)
  /\ links' = links \cup {TokenParts}
  /\ SaveList(r, With(r, FALSE))
  /\ Ends(r, With(r, FALSE))
  /\ completer' = {}
  /\ UNCHANGED <<formVars, statusUrl, hashTasks, putBack, overlapped, cutOff, completions>>

\* SubmissionSuspensionSerializer.update: a full save of the copy.  The list is left alone.
Suspend(r) ==
  /\ At(r, "suspend", "begun")
  /\ suspensions < MaxSuspensions
  /\ suspensions' = suspensions + 1
  /\ row' = [req[r].copy EXCEPT !.suspended = suspensions']
  /\ auth' = Hash(auth)
  /\ links' = links \cup {<<row'.completed, row'.suspended>>}
  /\ Ends(r, req[r].sess)
  /\ completer' = {}
  /\ UNCHANGED <<stored, formVars, statusUrl, hashTasks, putBack, overlapped, cutOff,
                 completions>>

\* submission_resumed stores the details of the login again, unhashed.
Resume(r) ==
  /\ At(r, "resume", "begun")
  /\ SaveList(r, With(r, TRUE))
  /\ Ends(r, LoggedOut(With(r, TRUE)))
  /\ auth' = "plain"
  /\ UNCHANGED <<formVars, row, links, statusUrl, hashTasks, history, bounds>>

\* ensure_failure_can_be_managed
PutBack(r) ==
  /\ At(r, "status", "begun")
  /\ SaveList(r, With(r, TRUE))
  /\ Ends(r, With(r, TRUE))
  /\ putBack' = putBack \cup {req[r].b}
  /\ UNCHANGED <<formVars, row, auth, links, statusUrl, hashTasks, completer, overlapped,
                 cutOff, bounds>>

\* CosignOTPFormView.form_valid
Verify(r) ==
  /\ At(r, "otp", "begun")
  /\ SaveList(r, With(r, TRUE))
  /\ Ends(r, With(r, TRUE))
  /\ putBack' = putBack \cup {req[r].b}
  /\ UNCHANGED <<formVars, row, auth, links, statusUrl, hashTasks, completer, overlapped,
                 cutOff, bounds>>

\* The cosign endpoint: a full save of the copy, the login and the list, and the commit.
Cosign(r) ==
  /\ At(r, "cosign", "begun")
  /\ row' = [req[r].copy EXCEPT !.signed = TRUE]
  /\ SaveList(r, LoggedOut(With(r, FALSE)))
  /\ Ends(r, LoggedOut(With(r, FALSE)))
  /\ UNCHANGED <<formVars, auth, links, statusUrl, hashTasks, history, bounds>>

\* logout_submission, for SubmissionLogoutView ...
Logout(r) ==
  /\ At(r, "logout", "begun")
  /\ SaveList(r, With(r, FALSE))
  /\ req' = [req EXCEPT ![r].sess = LoggedOut(With(r, FALSE)), ![r].pc = "removed"]
  /\ cutOff' = TRUE
  /\ UNCHANGED <<formVars, row, auth, links, statusUrl, hashTasks, completer, putBack,
                 overlapped, bounds>>

\* ... which hashes what is not hashed yet, unless the copy says that it is still needed: that
\* the submission waits for the cosigner, or (registered is its is_registered) for its backend.
LogoutHash(r) ==
  /\ At(r, "logout", "removed")
  /\ \E registered \in BOOLEAN :
       auth' = IF /\ auth = "plain"
                  /\ \/ req[r].copy.completed = 0
                     \/ registered /\ ~Waiting(req[r].copy)
                 THEN Hash(auth) ELSE auth
  /\ Ends(r, req[r].sess)
  /\ UNCHANGED <<stored, formVars, row, links, statusUrl, hashTasks, history, bounds>>

\* _complete_submission up to the save: logout_submission.
CompleteLogout(r) ==
  /\ At(r, "complete", "begun")
  /\ SaveList(r, With(r, FALSE))
  /\ req' = [req EXCEPT ![r].sess = LoggedOut(With(r, FALSE)), ![r].pc = "removed"]
  /\ UNCHANGED <<formVars, row, auth, links, statusUrl, hashTasks, history, bounds>>

\* Mutant of CompleteSave: the submission is taken out of the session by the signal only.
CompleteSaveKeeps(r) ==
  /\ At(r, "complete", "removed")
  /\ completions < MaxCompletions
  /\ completions' = completions + 1
  /\ row' = [req[r].copy EXCEPT !.completed = completions']
  /\ counter' = counter + 1
  /\ SaveList(r, With(r, TRUE))
  /\ Ends(r, With(r, TRUE))
  /\ statusUrl' = [statusUrl EXCEPT ![req[r].b] = <<row'.completed, row'.suspended>>]
  /\ completer' = {req[r].b}
  /\ putBack' = putBack \ {req[r].b}
  /\ overlapped' = {b \in {req[r].b} : \E s \in Requests \ {r} : Live(s) /\ req[s].b = b}
  /\ UNCHANGED <<active, others, auth, links, hashTasks, cutOff, suspensions>>

\* A full save of the copy, the counter of the form, the list once more; then the commit.
CompleteSave(r) ==
  /\ At(r, "complete", "removed")
  /\ completions < MaxCompletions
  /\ completions' = completions + 1
  /\ row' = [req[r].copy EXCEPT !.completed = completions']
  /\ counter' = counter + 1
  /\ SaveList(r, With(r, FALSE))
  /\ Ends(r, With(r, FALSE))
  /\ statusUrl' = [statusUrl EXCEPT ![req[r].b] = <<row'.completed, row'.suspended>>]
  /\ completer' = {req[r].b}
  /\ putBack' = putBack \ {req[r].b}
  /\ overlapped' = {b \in {req[r].b} : \E s \in Requests \ {r} : Live(s) /\ req[s].b = b}
  /\ UNCHANGED <<active, others, auth, links, hashTasks, cutOff, suspensions>>

\* The middleware saves the copy of the session.
Finish(r) ==
  /\ Live(r) /\ req[r].pc = "done"
  /\ stored' = [stored EXCEPT ![req[r].b] = req[r].sess]
  /\ req' = [req EXCEPT ![r] = Idle]
  /\ cutOff' = (cutOff \/ (stored[req[r].b].has /\ ~req[r].sess.has))
  /\ UNCHANGED <<formVars, row, auth, links, statusUrl, hashTasks, completer, putBack,
                 overlapped, bounds>>

\* A request is killed, or ends in an error 500: its transaction is rolled back and its copy
\* of the session is not saved, but updates of the list stay.  (Not before the URL is known.)
Killed(r) ==
  /\ Live(r) /\ ~At(r, "create", "done")
  /\ req' = [req EXCEPT ![r] = Idle]
  /\ cutOff' = (cutOff \/ At(r, "complete", "removed"))
  /\ UNCHANGED <<stored, formVars, row, auth, links, statusUrl, hashTasks, completer,
                 putBack, overlapped, bounds>>

-----------------------------------------------------------------------------
RequestBegins(r) ==
  \E b \in Browsers :
    \/ BeginCreate(r, b)
    \/ \E kind \in {"suspend", "complete", "cosign"} : BeginWork(r, b, kind)
    \/ BeginLogout(r, b)
    \/ BeginResume(r, b)
    \/ BeginStatus(r, b)
    \/ BeginOTP(r, b)
    \/ BeginOther(r, b)

RequestGoesOn(r) ==
  \/ Create(r) \/ Refuse(r) \/ Suspend(r) \/ Resume(r) \/ PutBack(r) \/ Verify(r)
  \/ Cosign(r) \/ Logout(r) \/ LogoutHash(r) \/ CompleteLogout(r) \/ CompleteSave(r)
  \/ Finish(r) \/ Killed(r)

Next ==
  \/ \E b \in Browsers : Login(b)
  \/ ToggleForm
  \/ \E o \in Others : OtherBegins(o) \/ OtherCompletes(o)
  \/ \E r \in Requests : RequestBegins(r) \/ RequestGoesOn(r)
  \/ HashTask

Spec == Init /\ [][Next]_vars

-----------------------------------------------------------------------------
\* Properties

TypeOK ==
  /\ stored \in [Browsers -> Session]
  /\ req \in [Requests -> {Idle} \cup Request]
  /\ others \subseteq Others
  /\ row \in Row
  /\ auth \in AuthValues
  /\ {active, hashTasks, cutOff} \subseteq BOOLEAN
  /\ counter \in Nat
  /\ links \subseteq Nat \X Nat
  /\ statusUrl \in [Browsers -> Nat \X Nat]
  /\ completer \cup putBack \cup overlapped \subseteq Browsers
  /\ completions \in 0..MaxCompletions
  /\ suspensions \in 0..MaxSuspensions

\* The submission is in the sessions of its owner only and, once it was completed, of those who
\* have to cosign it: whoever else logs in, has a link or the reference, however often it is
\* suspended, hashed, completed or put back, and whatever copies of sessions are saved.
OnlyEntitledHaveIt ==
  \A b \in Browsers : stored[b].has => b \in Owners \/ (b \in Cosigners /\ completions > 0)

Quiet == \A r \in Requests : ~Live(r)

\* The browser that completes the submission does not have it any more, whatever requests begin
\* and whatever copies of sessions are saved later, unless it was given it again, or had other
\* requests under way when it completed it.
CompleterLetsGo ==
  \A b \in completer : stored[b].has => b \in putBack \cup overlapped

\* A submission that is not completed can be finished by its owner, with the link that is valid
\* from the first suspension on, whatever happens later, and before that from a session.  There
\* it stays, also if requests overlap, unless the form was deactivated under a request, a
\* request to complete it died half-way, the user logged out, or a request ended that had
\* loaded the session before the submission was in it.
AccessNotLost ==
  row.created /\ row.completed = 0 /\ Quiet =>
    \/ TokenParts \in links
    \/ row.suspended = 0 /\ (cutOff \/ \E b \in Owners : stored[b].has)

\* The submissions limit is checked when a request begins and counted when it ends: it is
\* exceeded by the requests that overlap, but by no more.
OvershootBounded ==
  counter < Limit + Cardinality(Requests) + Cardinality(Others)

\* "Once a submission is completed, [...] it's no longer possible to change or read the
\* submission data", unless the status endpoint gave it back.
CompletedIsClosed ==
  row.completed > 0 /\ Quiet => \A b \in Browsers \ putBack : ~stored[b].has

\* "and send the end-user a URL to resume the submission": a link that is still valid lets
\* the owner in.
ResumeLinkWorks ==
  TokenParts \in links => auth \in {"plain", "hashed"}

=============================================================================
