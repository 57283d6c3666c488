--------------------------- MODULE ProcessingProofs ---------------------------
(***************************************************************************)
(* Theorems about Processing, for any number of chains, components and     *)
(* payments, any attempt limit and any configuration.                      *)
(***************************************************************************)
EXTENDS Processing, TLAPS

-----------------------------------------------------------------------------
\* Types.  A task that counts an attempt from its copy of the row needs a copy that was
\* read while attempts were left.

AttemptsLeft ==
  \A c \in Chains : pc[c] \in {"pre_options", "pre_call", "reg_mark"} =>
                      seen[c].attempts < AttemptLimit

ChainsTypeOK ==
  /\ pc \in [Chains -> PCs]
  /\ event \in [Chains -> Events]
  /\ seen \in [Chains -> Row]
  /\ work \in [Chains -> [Components -> {"todo", "busy", "done"}]]
  /\ locks \subseteq OnceKeys
  /\ processing \in {"open", "running", "failed", "done"}
  /\ watched \subseteq Chains
  /\ AttemptsLeft

DataTypeOK ==
  /\ row \in Row
  /\ comp \in [Components -> {"none", "in_progress", "success", "failed"}]
  /\ payment \in [Payments -> {"none", "completed", "registered"}]
  /\ hashed \in BOOLEAN
  /\ booking \in {"none", "success", "failed"}
  /\ finalised \in BOOLEAN
  /\ recent \in BOOLEAN
  /\ hashTask \in BOOLEAN
  /\ payLock \subseteq Chains
  /\ requested \in [Views -> SUBSET Row]
  /\ cosigned \in BOOLEAN
  /\ known \subseteq Payments
  /\ calls \in 0..CallsCap
  /\ outlived \subseteq OnceKeys
  /\ crashes \in 0..MaxCrashes
  /\ resets \in 0..MaxResets
  /\ delays \in 0..MaxDelays

TypeInv == ChainsTypeOK /\ DataTypeOK

\* The keys of a task are keys of the backend.
LEMMA OnceKeyType ==
  ASSUME NEW task, NEW e \in Events
  PROVE  OnceKey(task, e) \subseteq OnceKeys
BY DEF OnceKey, OnceKeys, AppointmentPCs, RegisterPCs, PaymentPCs

\* The way along the chain keeps the types.
LEMMA GotoType ==
  ASSUME ChainsTypeOK, NEW c \in Chains, NEW p \in PCs, NEW copy \in Row,
         p \in {"pre_options", "pre_call", "reg_mark"} => copy.attempts < AttemptLimit,
         Goto(c, p, copy)
  PROVE  ChainsTypeOK'
BY DEF ChainsTypeOK, AttemptsLeft, Goto

\* The row of a new submission.
LEMMA NewRowType == NewRow \in Row
BY ConstantsAssumption DEF NewRow, Row, RegistrationStatuses

NextPCs == PCs \ {"pre_options", "pre_call", "reg_mark"}

\* A task that returns keeps the types.
LEMMA ReturnType ==
  ASSUME ChainsTypeOK, NEW c \in Chains, NEW next \in NextPCs, Return(c, next)
  PROVE  ChainsTypeOK'
<1>1. NewRow \in Row BY NewRowType
<1>2. NothingDone \in [Components -> {"todo", "busy", "done"}] BY DEF NothingDone
<1>3. next \in PCs /\ "idle" \in PCs BY DEF NextPCs, PCs
<1>4. OnceKey(next, event[c]) \subseteq OnceKeys
  BY OnceKeyType DEF ChainsTypeOK
<1>5. /\ pc' \in [Chains -> PCs]
      /\ event' \in [Chains -> Events]
      /\ seen' \in [Chains -> Row]
      /\ work' \in [Chains -> [Components -> {"todo", "busy", "done"}]]
      /\ locks' \subseteq OnceKeys
      /\ processing' \in {"open", "running", "failed", "done"}
      /\ watched' \subseteq Chains
  BY <1>1, <1>2, <1>3, <1>4 DEF ChainsTypeOK, Return
<1>6. AttemptsLeft'
  BY DEF ChainsTypeOK, AttemptsLeft, Return, NextPCs
<1> QED BY <1>5, <1>6 DEF ChainsTypeOK

\* A task that raises keeps the types.
LEMMA RaiseType ==
  ASSUME ChainsTypeOK, NEW c \in Chains, Raise(c)
  PROVE  ChainsTypeOK'
BY NewRowType DEF ChainsTypeOK, AttemptsLeft, Raise, Ended, PCs

\* A task that fails keeps the types.
LEMMA FailTaskType ==
  ASSUME ChainsTypeOK, NEW c \in Chains, NEW next \in NextPCs, FailTask(c, next)
  PROVE  ChainsTypeOK'
BY RaiseType, ReturnType DEF FailTask

\* A chain that is sent keeps the types.
LEMMA SendType ==
  ASSUME ChainsTypeOK, NEW c \in Chains, NEW e \in Events, Send(c, e),
         processing' \in {"open", "running", "failed", "done"}, watched' \subseteq Chains
  PROVE  ChainsTypeOK'
<1>1. OnceKey("appointment", e) \subseteq OnceKeys BY OnceKeyType
<1> QED BY <1>1 DEF ChainsTypeOK, AttemptsLeft, Send, PCs, AppointmentPCs

\* An event keeps the types, whether or not its chain is dropped.
LEMMA EventType ==
  ASSUME ChainsTypeOK, NEW e \in Events, OnPostSubmissionEvent(e),
         processing' \in {"open", "running", "failed", "done"}, watched' \subseteq Chains
  PROVE  ChainsTypeOK'
<1>1. CASE \E c \in Chains : Send(c, e) BY <1>1, SendType
<1>2. CASE UNCHANGED chainVars BY <1>2 DEF chainVars, ChainsTypeOK, AttemptsLeft
<1> QED BY <1>1, <1>2 DEF OnPostSubmissionEvent

\* The initial state has the types.
LEMMA TypeInit == Init => TypeInv
<1> SUFFICES ASSUME Init PROVE TypeInv
  OBVIOUS
<1>1. ChainsTypeOK
  BY NewRowType DEF Init, ChainsTypeOK, AttemptsLeft, NothingDone, PCs, Events
<1>2. requested \in [Views -> SUBSET Row] BY DEF Init
<1>3. booking \in {"none", "success", "failed"} BY DEF Init
<1>4. 0 \in 0..CallsCap /\ 0 \in 0..MaxCrashes /\ 0 \in 0..MaxResets /\ 0 \in 0..MaxDelays
  BY ConstantsAssumption DEF CallsCap
<1>5. /\ comp \in [Components -> {"none", "in_progress", "success", "failed"}]
      /\ payment \in [Payments -> {"none", "completed", "registered"}]
  BY DEF Init
<1> QED BY <1>1, <1>2, <1>3, <1>4, <1>5, NewRowType DEF Init, TypeInv, DataTypeOK

\* The assignments of the tasks keep a row a row.
LEMMA RowUpdates ==
  ASSUME NEW r \in Row
  PROVE  /\ r.attempts \in Nat
         /\ StatusFailed(r) \in Row
         /\ \A b \in BOOLEAN : [r EXCEPT !.retry = b] \in Row
         /\ FullSave(r) \in Row
         /\ [r EXCEPT !.status = "success"] \in Row
         /\ [r EXCEPT !.attempts = 0] \in Row
         /\ [r EXCEPT !.signed = TRUE] \in Row
         /\ ~GivenUp(r) => r.attempts < AttemptLimit
<1> USE ConstantsAssumption DEF Row
<1>1. r.attempts \in Nat OBVIOUS
<1>0. 0 \in 0..AttemptLimit OBVIOUS
<1>7. [r EXCEPT !.attempts = 0] \in Row BY <1>0
<1>2. StatusFailed(r) \in Row BY DEF StatusFailed, RegistrationStatuses
<1>3. \A b \in BOOLEAN : [r EXCEPT !.retry = b] \in Row OBVIOUS
<1>4. FullSave(r) \in Row BY DEF FullSave
<1>5. [r EXCEPT !.status = "success"] \in Row BY DEF RegistrationStatuses
<1>8. [r EXCEPT !.signed = TRUE] \in Row OBVIOUS
<1>6. ~GivenUp(r) => r.attempts < AttemptLimit BY <1>1 DEF GivenUp
<1> QED BY <1>1, <1>2, <1>3, <1>4, <1>5, <1>6, <1>7, <1>8

\* Counting an attempt on a copy that is below the limit gives a row of the right type.
LEMMA AttemptUpdates ==
  ASSUME NEW r \in Row, NEW copy \in Row, copy.attempts < AttemptLimit
  PROVE  AttemptFailed(r, copy) \in Row /\ InProgress(r, copy) \in Row
<1>1. copy.attempts + 1 \in 0..AttemptLimit BY ConstantsAssumption DEF Row
<1>2. AttemptFailed(r, copy) \in Row
  <2>1. StatusFailed(r) \in Row BY RowUpdates
  <2>2. \A q \in Row : [q EXCEPT !.attempts = copy.attempts + 1] \in Row BY <1>1 DEF Row
  <2> QED BY <2>1, <2>2 DEF AttemptFailed
<1>3. InProgress(r, copy) \in Row BY <1>1 DEF InProgress, Row, RegistrationStatuses
<1> QED BY <1>2, <1>3

\* Every step keeps the types.
LEMMA TypeStep == TypeInv /\ [Next]_vars => TypeInv'
<1> SUFFICES ASSUME TypeInv, [Next]_vars
             PROVE  TypeInv'
  OBVIOUS
<1> USE DEF TypeInv
<1>u. CASE UserEvent
  <2>0. ASSUME NEW v \in Views
        PROVE  /\ {row} \cup requested[v] \subseteq Row
               /\ [requested EXCEPT ![v] = {}] \in [Views -> SUBSET Row]
               /\ [requested EXCEPT ![v] = {row}] \in [Views -> SUBSET Row]
               /\ \A copy : Saves(v, copy) => requested' \in [Views -> SUBSET Row]
    BY DEF DataTypeOK, Saves
  <2>1. CASE Complete
    <3>1. ChainsTypeOK' BY <2>1, EventType DEF Complete, Events
    <3>2. row' \in Row /\ requested' \in [Views -> SUBSET Row]
      BY <2>0, <2>1 DEF Complete, Views
    <3> QED BY <2>1, <3>1, <3>2 DEF Complete, DataTypeOK
  <2>2. CASE StatusPoll
    BY <2>2 DEF StatusPoll, DataTypeOK, ChainsTypeOK, AttemptsLeft, dbVars, chainVars,
                outerVars
  <2>7. ASSUME NEW v \in Views, SlowRequest(v) PROVE TypeInv'
    <3>1. requested' \in [Views -> SUBSET Row] BY <2>0, <2>7 DEF SlowRequest
    <3>2. delays' \in 0..MaxDelays
      BY <2>7, ConstantsAssumption DEF SlowRequest, DataTypeOK
    <3> QED BY <2>7, <3>1, <3>2 DEF SlowRequest, DataTypeOK, ChainsTypeOK, AttemptsLeft, dbVars,
                              chainVars, userVars
  <2>3. CASE CosignComplete
    <3>1. ChainsTypeOK'
      BY <2>3, EventType DEF CosignComplete, Events, ChainsTypeOK
    <3>2. row' \in Row /\ requested' \in [Views -> SUBSET Row]
      BY <2>0, <2>3, RowUpdates DEF CosignComplete, Views
    <3> QED BY <2>3, <3>1, <3>2 DEF CosignComplete, DataTypeOK
  <2>4. CASE AdminRetry
    <3>1. ChainsTypeOK'
      BY <2>4, EventType DEF AdminRetry, Events, ChainsTypeOK, userVars
    <3>2. row' \in Row BY <2>4, RowUpdates DEF AdminRetry, DataTypeOK
    <3>3. resets' \in 0..MaxResets
      BY <2>4, ConstantsAssumption DEF AdminRetry, DataTypeOK
    <3> QED BY <2>4, <3>1, <3>2, <3>3 DEF AdminRetry, DataTypeOK, userVars
  <2>5. ASSUME NEW p \in Payments, PaymentComplete(p)
        PROVE  TypeInv'
    <3>1. ChainsTypeOK'
      BY <2>5, EventType DEF PaymentComplete, Events, ChainsTypeOK, userVars
    <3> QED BY <2>5, <3>1 DEF PaymentComplete, DataTypeOK, userVars, outerVars
  <2>6. ASSUME NEW p \in Payments, PaymentRepeat(p)
        PROVE  TypeInv'
    <3>1. ChainsTypeOK'
      BY <2>6, EventType DEF PaymentRepeat, Events, ChainsTypeOK
    <3> QED BY <2>6, <3>1 DEF PaymentRepeat, DataTypeOK, dbVars, outerVars
  <2> QED BY <1>u, <2>1, <2>2, <2>3, <2>4, <2>5, <2>6, <2>7 DEF UserEvent
<1>r. ASSUME NEW c \in Chains, Retry(c)
      PROVE  TypeInv'
  <2>1. ChainsTypeOK'
    BY <1>r, SendType DEF Retry, Events, ChainsTypeOK
  <2> QED BY <1>r, <2>1 DEF Retry, DataTypeOK, dbVars, outerVars
<1>a. ASSUME NEW c \in Chains, AppointmentTask(c)
      PROVE  TypeInv'
  <2>1. ChainsTypeOK'
    BY <1>a, ReturnType, RaiseType DEF AppointmentTask, BookAppointment, NextPCs, PCs, PrePCs
  <2>2. booking' \in {"none", "success", "failed"}
    BY <1>a DEF AppointmentTask, BookAppointment, DataTypeOK
  <2> QED BY <1>a, <2>1, <2>2 DEF AppointmentTask, BookAppointment, DataTypeOK, outerVars
<1>p. ASSUME NEW c \in Chains, PreRegistrationTask(c)
      PROVE  TypeInv'
  <2> USE DEF NextPCs, PCs, PrePCs
  <2>1. CASE PreRegistration(c)
    <3>0. ~GivenUp(row) => row.attempts < AttemptLimit BY RowUpdates DEF DataTypeOK
    <3>1. ChainsTypeOK'
      BY <2>1, <3>0, ReturnType, GotoType DEF PreRegistration, DataTypeOK
    <3> QED BY <2>1, <3>1 DEF PreRegistration, DataTypeOK, preUnchanged, outerVars
  <2>2. CASE PreRegistrationInvalidOptions(c)
    <3>1. ChainsTypeOK' BY <2>2, FailTaskType DEF PreRegistrationInvalidOptions
    <3>2. row' \in Row
      BY <2>2, AttemptUpdates
         DEF PreRegistrationInvalidOptions, DataTypeOK, ChainsTypeOK, AttemptsLeft, At
    <3> QED BY <2>2, <3>1, <3>2
            DEF PreRegistrationInvalidOptions, DataTypeOK, preUnchanged, outerVars
  <2>3. CASE PreRegistrationValidOptions(c)
    <3>1. seen[c] \in Row /\ seen[c].attempts < AttemptLimit
      BY <2>3 DEF PreRegistrationValidOptions, ChainsTypeOK, AttemptsLeft, At
    <3>2. ChainsTypeOK' BY <2>3, <3>1, GotoType DEF PreRegistrationValidOptions
    <3> QED BY <2>3, <3>1, <3>2
            DEF PreRegistrationValidOptions, DataTypeOK, preUnchanged, outerVars
  <2>4. CASE PreRegistrationCall(c)
    <3>1. seen[c] \in Row /\ seen[c].attempts < AttemptLimit
      BY <2>4 DEF PreRegistrationCall, ChainsTypeOK, AttemptsLeft, At
    <3>2. ChainsTypeOK'
      BY <2>4, <3>1, GotoType, FailTaskType DEF PreRegistrationCall
    <3>3. row' \in Row BY <2>4, <3>1, AttemptUpdates DEF PreRegistrationCall, DataTypeOK
    <3> QED BY <2>4, <3>2, <3>3 DEF PreRegistrationCall, DataTypeOK, preUnchanged, outerVars
  <2>5. CASE PreRegistrationSave(c)
    <3>1. ChainsTypeOK' BY <2>5, ReturnType DEF PreRegistrationSave
    <3>2. row' \in Row BY <2>5, RowUpdates DEF PreRegistrationSave, ChainsTypeOK
    <3> QED BY <2>5, <3>1, <3>2 DEF PreRegistrationSave, DataTypeOK, preUnchanged, outerVars
  <2> QED BY <1>p, <2>1, <2>2, <2>3, <2>4, <2>5 DEF PreRegistrationTask
<1>k. ASSUME NEW c \in Chains, ComponentTasks(c)
      PROVE  TypeInv'
  <2>1. ASSUME NEW k \in Components, ComponentStart(c, k) PROVE TypeInv'
    <3>0. ASSUME NEW w \in {"busy", "done"}
          PROVE  [work EXCEPT ![c][k] = w] \in [Chains -> [Components -> {"todo", "busy", "done"}]]
      BY DEF ChainsTypeOK
    <3>1. work' \in [Chains -> [Components -> {"todo", "busy", "done"}]]
      BY <2>1, <3>0 DEF ComponentStart
    <3>2. comp' \in [Components -> {"none", "in_progress", "success", "failed"}]
      BY <2>1 DEF ComponentStart, DataTypeOK
    <3>3. UNCHANGED <<row, payment, hashed, booking, processing, watched, finalised, recent,
                      hashTask, pc, event, seen, locks, payLock, requested, cosigned, known,
                      calls, outlived, crashes, resets, delays>>
      BY <2>1 DEF ComponentStart, compUnchanged, outerVars
    <3> QED BY <3>1, <3>2, <3>3 DEF ChainsTypeOK, AttemptsLeft, DataTypeOK
  <2>2. ASSUME NEW k \in Components, ComponentResult(c, k) PROVE TypeInv'
    BY <2>2 DEF ComponentResult, ChainsTypeOK, AttemptsLeft, DataTypeOK, compUnchanged,
                outerVars
  <2>3. CASE ComponentsDone(c)
    BY <2>3, ReturnType DEF ComponentsDone, DataTypeOK, NextPCs, PCs, dbVars, outerVars
  <2>4. CASE ProcessComponents(c)
    <3>1. ChainsTypeOK' BY <2>4, ReturnType DEF ProcessComponents, NextPCs, PCs
    <3>2. row' \in Row
      BY <2>4, RowUpdates DEF ProcessComponents, ComponentFailureFlag, DataTypeOK, Row
    <3> QED BY <2>4, <3>1, <3>2 DEF ProcessComponents, DataTypeOK, outerVars
  <2>5. CASE GenerateReport(c)
    BY <2>5, ReturnType DEF GenerateReport, DataTypeOK, NextPCs, PCs, RegisterPCs, dbVars,
                            outerVars
  <2> QED BY <1>k, <2>1, <2>2, <2>3, <2>4, <2>5 DEF ComponentTasks
<1>g. ASSUME NEW c \in Chains, RegisterTask(c)
      PROVE  TypeInv'
  <2> USE DEF NextPCs, PCs, RegisterPCs, PaymentPCs
  <2>0. NewRow \in Row BY NewRowType
  <2>1. CASE RegisterSubmission(c)
    <3>0. ~GivenUp(row) => row.attempts < AttemptLimit BY RowUpdates DEF DataTypeOK
    <3>1. ChainsTypeOK'
      BY <2>1, <3>0, ReturnType, GotoType
         DEF RegisterSubmission, RegistrationBlocked, DataTypeOK
    <3> QED BY <2>1, <3>1 DEF RegisterSubmission, DataTypeOK, regUnchanged, outerVars
  <2>2. CASE RegisterMark(c)
    <3>0. PluginCopy(seen[c]) \in Row
      BY <2>0, <2>2, AttemptUpdates
         DEF RegisterMark, PluginCopy, ChainsTypeOK, AttemptsLeft, At
    <3>1. ChainsTypeOK' BY <2>0, <2>2, <3>0, GotoType DEF RegisterMark
    <3>2. row' \in Row
      BY <2>2, AttemptUpdates DEF RegisterMark, DataTypeOK, ChainsTypeOK, AttemptsLeft, At
    <3> QED BY <2>2, <3>1, <3>2 DEF RegisterMark, DataTypeOK, regUnchanged, outerVars
  <2>3. CASE RegisterFails(c)
    BY <2>3, FailTaskType, RowUpdates DEF RegisterFails, DataTypeOK, regUnchanged, outerVars
  <2>4. CASE RegisterCall(c)
    <3>1. ChainsTypeOK' BY <2>0, <2>4, GotoType DEF RegisterCall
    <3>2. calls' \in 0..CallsCap
      BY <2>4, ConstantsAssumption DEF RegisterCall, DataTypeOK, Bump, CallsCap
    <3>3. known' \subseteq Payments BY <2>4 DEF RegisterCall, DataTypeOK, Paid
    <3>4. row' \in Row BY <2>4 DEF RegisterCall, DataTypeOK, ChainsTypeOK
    <3> QED BY <2>4, <3>1, <3>2, <3>3, <3>4
            DEF RegisterCall, DataTypeOK, regUnchanged, outerVars
  <2>5. CASE RegisterMarkPayments(c)
    <3>1. ChainsTypeOK' BY <2>0, <2>5, GotoType DEF RegisterMarkPayments
    <3> QED BY <2>5, <3>1
            DEF RegisterMarkPayments, DataTypeOK, MarkRegistered, regUnchanged, outerVars
  <2>6. CASE RegisterSave(c)
    BY <2>6, ReturnType, RaiseType, RowUpdates
       DEF RegisterSave, DataTypeOK, regUnchanged, outerVars
  <2> QED BY <1>g, <2>1, <2>2, <2>3, <2>4, <2>5, <2>6 DEF RegisterTask
<1>m. ASSUME NEW c \in Chains, PaymentTask(c)
      PROVE  TypeInv'
  <2> USE DEF NextPCs, PCs, PaymentPCs, FinalisePCs
  <2>0. NewRow \in Row BY NewRowType
  <2>1. CASE UpdatePaymentStatus(c)
    BY <2>0, <2>1, ReturnType, GotoType
       DEF UpdatePaymentStatus, DataTypeOK, payUnchanged, outerVars
  <2>2. CASE PaymentSelect(c)
    BY <2>0, <2>2, ReturnType, GotoType DEF PaymentSelect, DataTypeOK, payUnchanged, outerVars
  <2>3. CASE PaymentCallSucceeds(c)
    BY <2>0, <2>3, GotoType
       DEF PaymentCallSucceeds, DataTypeOK, Paid, payUnchanged, outerVars
  <2>4. CASE PaymentCommit(c)
    BY <2>4, ReturnType
       DEF PaymentCommit, DataTypeOK, MarkRegistered, payUnchanged, outerVars
  <2>5. CASE PaymentCallFails(c)
    BY <2>5, FailTaskType, RowUpdates
       DEF PaymentCallFails, DataTypeOK, payUnchanged, outerVars
  <2> QED BY <1>m, <2>1, <2>2, <2>3, <2>4, <2>5 DEF PaymentTask
<1>f. ASSUME NEW c \in Chains, FinaliseTask(c)
      PROVE  TypeInv'
  <2>1. CASE FinaliseCompletion(c)
    <3>1. NeedsRetry(row) \in BOOLEAN
      BY DEF DataTypeOK, Row, NeedsRetry, HasRegistrationFailure, GivenUp
    <3>2. ChainsTypeOK'
      BY <2>1, <3>1, GotoType, RowUpdates
         DEF FinaliseCompletion, DataTypeOK, PCs, FinalisePCs
    <3> QED BY <2>1, <3>2 DEF FinaliseCompletion, DataTypeOK, dbVars, outerVars
  <2>2. CASE FinaliseSave(c)
    <3>1. seen[c].retry \in BOOLEAN BY DEF ChainsTypeOK, Row
    <3>2. row' \in Row BY <2>2, <3>1, RowUpdates DEF FinaliseSave, DataTypeOK
    <3>3. ChainsTypeOK'
      BY <2>2, NewRowType DEF FinaliseSave, Ended, ChainsTypeOK, AttemptsLeft, PCs
    <3> QED BY <2>2, <3>2, <3>3 DEF FinaliseSave, DataTypeOK, outerVars
  <2> QED BY <1>f, <2>1, <2>2 DEF FinaliseTask
<1>c. ASSUME NEW c \in Chains, Crash(c)
      PROVE  TypeInv'
  <2>1. TaskStart(pc[c]) \in NextPCs
    BY DEF ChainsTypeOK, TaskStart, NextPCs, PCs, PrePCs, RegisterPCs, PaymentPCs, FinalisePCs
  <2>2. ChainsTypeOK'
    BY <1>c, <2>1, NewRowType DEF Crash, Ended, ChainsTypeOK, AttemptsLeft, NextPCs, PCs, dbVars
  <2>3. crashes' \in 0..MaxCrashes
    BY <1>c, ConstantsAssumption DEF Crash, DataTypeOK
  <2> QED BY <1>c, <2>2, <2>3 DEF Crash, DataTypeOK, dbVars
<1>h. CASE MaybeHash
  BY <1>h DEF MaybeHash, ChainsTypeOK, AttemptsLeft, DataTypeOK, ReadyToHash, chainVars,
              outerVars
<1>o. CASE Age
  BY <1>o DEF Age, ChainsTypeOK, AttemptsLeft, DataTypeOK, dbVars, chainVars, outerVars
<1>l. CASE LockExpires
  BY <1>l DEF LockExpires, ChainsTypeOK, AttemptsLeft, DataTypeOK, dbVars, outerVars
<1>e. ASSUME NEW c \in Chains, KeyOutlived(c) PROVE TypeInv'
  <2>1. Held(c) \subseteq OnceKeys BY OnceKeyType DEF Held, ChainsTypeOK
  <2>2. delays' \in 0..MaxDelays
    BY <1>e, ConstantsAssumption DEF KeyOutlived, DataTypeOK
  <2> QED BY <1>e, <2>1, <2>2 DEF KeyOutlived, ChainsTypeOK, AttemptsLeft, DataTypeOK, dbVars
<1>s. CASE UNCHANGED vars
  BY <1>s DEF vars, ChainsTypeOK, AttemptsLeft, DataTypeOK
<1> QED
  BY <1>u, <1>r, <1>a, <1>p, <1>k, <1>g, <1>m, <1>f, <1>c, <1>h, <1>o, <1>l, <1>e, <1>s
     DEF Next, Task

\* The state always has its type: no interleaving of the tasks' counted attempts takes the
\* counter past the limit.
THEOREM TypeCorrect == Spec => []TypeOK
<1>1. TypeInv => TypeOK BY DEF TypeInv, ChainsTypeOK, DataTypeOK, TypeOK
<1> QED BY <1>1, TypeInit, TypeStep, PTL DEF Spec

\* The types, and that a copy about to be counted has an attempt left.
THEOREM TypeInvariant == Spec => []TypeInv
BY TypeInit, TypeStep, PTL DEF Spec

-----------------------------------------------------------------------------
\* The celery-once keys.  A chain whose task has a key holds it, and nobody else does,
\* until the key is gone before the task is.

KeysExclusive ==
  /\ \A c \in Chains : Held(c) \subseteq locks \cup outlived
  /\ \A c, d \in Chains : c # d => Held(c) \cap Held(d) \subseteq outlived

\* Time alone makes a key expire under its task: every other step leaves those that did.
LEMMA OutlivedStays ==
  ASSUME [Next]_vars, ~\E c \in Chains : KeyOutlived(c)
  PROVE  outlived' = outlived
BY DEF Next, UserEvent, Complete, StatusPoll, CosignComplete, AdminRetry, PaymentComplete,
       PaymentRepeat, SlowRequest, Retry, Task, AppointmentTask, BookAppointment,
       PreRegistrationTask, PreRegistration, PreRegistrationInvalidOptions,
       PreRegistrationValidOptions, PreRegistrationCall, PreRegistrationSave, ComponentTasks,
       ComponentStart, ComponentResult, ComponentsDone, ProcessComponents, GenerateReport,
       RegisterTask, RegisterSubmission, RegisterMark, RegisterFails, RegisterCall,
       RegisterMarkPayments, RegisterSave, PaymentTask, UpdatePaymentStatus, PaymentSelect,
       PaymentCallSucceeds, PaymentCommit, PaymentCallFails, FinaliseTask,
       FinaliseCompletion, FinaliseSave, Crash, MaybeHash, Age, LockExpires, outerVars,
       preUnchanged, compUnchanged, regUnchanged, payUnchanged, vars

\* The key of a task names its event, but for the booking, which has one key for all.
LEMMA OnceKeyIs ==
  ASSUME NEW task, NEW e
  PROVE  /\ task \in AppointmentPCs => OnceKey(task, e) = {<<"appointment", "any">>}
         /\ task \in RegisterPCs => OnceKey(task, e) = {<<"register", e>>}
         /\ task \in PaymentPCs => OnceKey(task, e) = {<<"payment", e>>}
         /\ task \notin AppointmentPCs \cup RegisterPCs \cup PaymentPCs
              => OnceKey(task, e) = {}
<1>1. ASSUME task \in AppointmentPCs PROVE OnceKey(task, e) = {<<"appointment", "any">>}
  BY <1>1 DEF OnceKey, AppointmentPCs, RegisterPCs, PaymentPCs
<1>2. ASSUME task \in RegisterPCs PROVE OnceKey(task, e) = {<<"register", e>>}
  BY <1>2 DEF OnceKey, AppointmentPCs, RegisterPCs, PaymentPCs
<1>3. ASSUME task \in PaymentPCs PROVE OnceKey(task, e) = {<<"payment", e>>}
  BY <1>3 DEF OnceKey, AppointmentPCs, RegisterPCs, PaymentPCs
<1>4. ASSUME task \notin AppointmentPCs \cup RegisterPCs \cup PaymentPCs
      PROVE  OnceKey(task, e) = {}
  BY <1>4 DEF OnceKey
<1> QED BY <1>1, <1>2, <1>3, <1>4

\* A chain moves and swaps its key for one that is free: whatever the move, nobody else's
\* key is touched.
LEMMA KeysMove ==
  ASSUME ChainsTypeOK, KeysExclusive, NEW c \in Chains, NEW p, NEW e,
         pc' = [pc EXCEPT ![c] = p],
         event' = [event EXCEPT ![c] = e],
         outlived' = outlived,
         OnceKey(p, e) \cap locks \subseteq Held(c),
         OnceKey(p, e) \subseteq locks' \cup outlived,
         locks \ Held(c) \subseteq locks'
  PROVE  KeysExclusive'
<1>1. Held(c)' = OnceKey(p, e) BY DEF ChainsTypeOK, Held
<1>2. \A d \in Chains : d # c => Held(d)' = Held(d) BY DEF ChainsTypeOK, Held
<1> QED BY <1>1, <1>2 DEF KeysExclusive

\* A chain that moves on within its task keeps its key.
LEMMA GotoKeys ==
  ASSUME ChainsTypeOK, KeysExclusive, NEW c \in Chains, NEW p, NEW copy,
         Goto(c, p, copy), OnceKey(p, event[c]) = Held(c),
         outlived' = outlived
  PROVE  KeysExclusive'
<1>1. event' = [event EXCEPT ![c] = event[c]] BY DEF Goto, ChainsTypeOK
<1> QED BY <1>1, KeysMove DEF Goto, KeysExclusive

\* A chain that is not there holds no key.
LEMMA IdleHasNoKey ==
  ASSUME NEW e
  PROVE  OnceKey("idle", e) = {}
BY OnceKeyIs DEF AppointmentPCs, RegisterPCs, PaymentPCs

\* Celery sends the next task only if its key is free.
LEMMA ReturnKeys ==
  ASSUME ChainsTypeOK, KeysExclusive, NEW c \in Chains, NEW next, Return(c, next),
         outlived' = outlived
  PROVE  KeysExclusive'
<1>1. event' = [event EXCEPT ![c] = event[c]] BY DEF Return, ChainsTypeOK
<1>2. CASE OnceKey(next, event[c]) \cap locks = {}
  BY <1>1, <1>2, KeysMove DEF Return
<1>3. CASE OnceKey(next, event[c]) \cap locks # {}
  BY <1>1, <1>3, KeysMove, IdleHasNoKey DEF Return
<1> QED BY <1>2, <1>3

\* A task that raises gives back its key.
LEMMA RaiseKeys ==
  ASSUME ChainsTypeOK, KeysExclusive, NEW c \in Chains, Raise(c),
         outlived' = outlived
  PROVE  KeysExclusive'
<1>1. event' = [event EXCEPT ![c] = event[c]] BY DEF Raise, ChainsTypeOK
<1> QED BY <1>1, KeysMove, IdleHasNoKey DEF Raise

\* A task that fails keeps the keys exclusive.
LEMMA FailTaskKeys ==
  ASSUME ChainsTypeOK, KeysExclusive, NEW c \in Chains, NEW next, FailTask(c, next),
         outlived' = outlived
  PROVE  KeysExclusive'
BY ReturnKeys, RaiseKeys DEF FailTask

\* A chain is sent only if the key of its first task is free.
LEMMA SendKeys ==
  ASSUME ChainsTypeOK, KeysExclusive, NEW c \in Chains, NEW e, Send(c, e),
         outlived' = outlived
  PROVE  KeysExclusive'
<1>1. Held(c) = {} BY IdleHasNoKey DEF Send, At, Held
<1> QED BY <1>1, KeysMove DEF Send

\* An event keeps the keys exclusive, whether or not its chain is dropped.
LEMMA EventKeys ==
  ASSUME ChainsTypeOK, KeysExclusive, NEW e, OnPostSubmissionEvent(e),
         outlived' = outlived
  PROVE  KeysExclusive'
BY SendKeys DEF OnPostSubmissionEvent, chainVars, KeysExclusive, Held

\* At first no key is held twice.
LEMMA KeysInit == Init => KeysExclusive
BY IdleHasNoKey DEF Init, KeysExclusive, Held

\* A task that is delivered again has the key it had.
LEMMA RestartKeepsKey ==
  ASSUME NEW c, pc[c] \in PCs
  PROVE  OnceKey(TaskStart(pc[c]), event[c]) = Held(c)
<1>2. CASE pc[c] \in PrePCs \cup FinalisePCs
  BY <1>2, OnceKeyIs
       DEF Held, TaskStart, PrePCs, FinalisePCs, AppointmentPCs, RegisterPCs, PaymentPCs
<1>3. CASE pc[c] \in RegisterPCs
  BY <1>3, OnceKeyIs DEF Held, TaskStart, PrePCs, RegisterPCs, PaymentPCs, FinalisePCs
<1>4. CASE pc[c] \in PaymentPCs
  BY <1>4, OnceKeyIs DEF Held, TaskStart, PrePCs, RegisterPCs, PaymentPCs, FinalisePCs
<1>5. CASE pc[c] \notin PrePCs \cup FinalisePCs \cup RegisterPCs \cup PaymentPCs
  BY <1>5 DEF Held, TaskStart
<1> QED BY <1>2, <1>3, <1>4, <1>5

\* Every step keeps the keys exclusive.
LEMMA KeysStep == TypeInv /\ KeysExclusive /\ [Next]_vars => KeysExclusive'
<1> SUFFICES ASSUME TypeInv, ChainsTypeOK, KeysExclusive, [Next]_vars
             PROVE  KeysExclusive'
  BY DEF TypeInv
<1>e. ASSUME NEW c \in Chains, KeyOutlived(c) PROVE KeysExclusive'
  <2>1. \A d \in Chains : Held(d)' = Held(d) BY <1>e DEF KeyOutlived, Held
  <2> QED BY <1>e, <2>1 DEF KeyOutlived, KeysExclusive
<1> SUFFICES ASSUME outlived' = outlived, ~\E c \in Chains : KeyOutlived(c)
             PROVE  KeysExclusive'
  BY <1>e, OutlivedStays
<1>0. ASSUME UNCHANGED <<pc, event, locks>> PROVE KeysExclusive'
  BY <1>0 DEF KeysExclusive, Held
<1>u. CASE UserEvent
  BY <1>u, <1>0, EventKeys
     DEF UserEvent, Complete, StatusPoll, CosignComplete, AdminRetry, PaymentComplete,
         PaymentRepeat, SlowRequest, chainVars
<1>r. ASSUME NEW c \in Chains, Retry(c) PROVE KeysExclusive'
  BY <1>r, SendKeys DEF Retry
<1>a. ASSUME NEW c \in Chains, AppointmentTask(c) PROVE KeysExclusive'
  BY <1>a, ReturnKeys, RaiseKeys DEF AppointmentTask, BookAppointment
<1>p. ASSUME NEW c \in Chains, PreRegistrationTask(c) PROVE KeysExclusive'
  <2>1. ASSUME NEW p \in PrePCs, NEW copy, pc[c] \in PrePCs, Goto(c, p, copy)
        PROVE  KeysExclusive'
    <3>1. OnceKey(p, event[c]) = {} /\ Held(c) = {}
      BY <2>1, OnceKeyIs DEF Held, PrePCs, AppointmentPCs, RegisterPCs, PaymentPCs
    <3> QED BY <2>1, <3>1, GotoKeys
  <2> QED
    BY <1>p, <2>1, ReturnKeys, FailTaskKeys
       DEF PreRegistrationTask, PreRegistration, PreRegistrationInvalidOptions,
           PreRegistrationValidOptions, PreRegistrationCall, PreRegistrationSave, PrePCs, At
<1>k. ASSUME NEW c \in Chains, ComponentTasks(c) PROVE KeysExclusive'
  BY <1>k, <1>0, ReturnKeys
     DEF ComponentTasks, ComponentStart, ComponentResult, ComponentsDone, ProcessComponents,
         GenerateReport
<1>g. ASSUME NEW c \in Chains, RegisterTask(c) PROVE KeysExclusive'
  <2>1. ASSUME NEW p \in RegisterPCs, NEW copy, pc[c] \in RegisterPCs, Goto(c, p, copy)
        PROVE  KeysExclusive'
    <3>1. OnceKey(p, event[c]) = Held(c) BY <2>1, OnceKeyIs DEF Held
    <3> QED BY <2>1, <3>1, GotoKeys
  <2> QED
    BY <1>g, <2>1, ReturnKeys, FailTaskKeys, RaiseKeys
       DEF RegisterTask, RegisterSubmission, RegisterMark, RegisterFails, RegisterCall,
           RegisterMarkPayments, RegisterSave, RegisterPCs, At
<1>m. ASSUME NEW c \in Chains, PaymentTask(c) PROVE KeysExclusive'
  <2>1. ASSUME NEW p \in PaymentPCs, NEW copy, pc[c] \in PaymentPCs, Goto(c, p, copy)
        PROVE  KeysExclusive'
    <3>1. OnceKey(p, event[c]) = Held(c) BY <2>1, OnceKeyIs DEF Held
    <3> QED BY <2>1, <3>1, GotoKeys
  <2> QED
    BY <1>m, <2>1, ReturnKeys, FailTaskKeys
       DEF PaymentTask, UpdatePaymentStatus, PaymentSelect, PaymentCallSucceeds,
           PaymentCommit, PaymentCallFails, PaymentPCs, At
<1>f. ASSUME NEW c \in Chains, FinaliseTask(c) PROVE KeysExclusive'
  <2>1. CASE FinaliseCompletion(c)
    <3>1. OnceKey("fin_save", event[c]) = {} /\ Held(c) = {}
      BY <2>1, OnceKeyIs
         DEF FinaliseCompletion, At, Held, AppointmentPCs, RegisterPCs, PaymentPCs
    <3> QED BY <2>1, <3>1, GotoKeys DEF FinaliseCompletion
  <2>2. CASE FinaliseSave(c)
    <3>1. event' = [event EXCEPT ![c] = event[c]] BY <2>2 DEF FinaliseSave, ChainsTypeOK
    <3> QED BY <2>2, <3>1, KeysMove, IdleHasNoKey DEF FinaliseSave
  <2> QED BY <1>f, <2>1, <2>2 DEF FinaliseTask
<1>c. ASSUME NEW c \in Chains, Crash(c) PROVE KeysExclusive'
  <2>1. event' = [event EXCEPT ![c] = event[c]] /\ locks' = locks
    BY <1>c DEF Crash, ChainsTypeOK
  <2>2. OnceKey(TaskStart(pc[c]), event[c]) = Held(c)
    BY RestartKeepsKey DEF ChainsTypeOK
  <2>3. CASE pc' = [pc EXCEPT ![c] = TaskStart(@)]
    BY <2>1, <2>2, <2>3, KeysMove DEF KeysExclusive
  <2>4. CASE pc' = [pc EXCEPT ![c] = "idle"]
    BY <2>1, <2>4, KeysMove, IdleHasNoKey
  <2> QED BY <1>c, <2>3, <2>4 DEF Crash
<1>h. CASE MaybeHash \/ Age BY <1>h, <1>0 DEF MaybeHash, Age, chainVars
<1>l. CASE LockExpires BY <1>l DEF LockExpires, KeysExclusive, Held
<1>s. CASE UNCHANGED vars BY <1>s, <1>0 DEF vars
<1> QED
  BY <1>u, <1>r, <1>a, <1>p, <1>k, <1>g, <1>m, <1>f, <1>c, <1>h, <1>l, <1>s DEF Next, Task

\* As long as the key of a once-task has not expired with the task still queued or running,
\* no two chains sent for the same event are in it, nor two chains of any event in the
\* booking of the appointment, for any number of chains.
THEOREM OnceTasksAreExclusive == Spec => []OnceTasksExclusive
<1>1. KeysExclusive => OnceTasksExclusive
  <2> SUFFICES ASSUME KeysExclusive, NEW c \in Chains, NEW d \in Chains, c # d
               PROVE  /\ At(c, "appointment") /\ At(d, "appointment")
                           => <<"appointment", "any">> \in outlived
                      /\ event[c] = event[d] =>
                           /\ pc[c] \in RegisterPCs /\ pc[d] \in RegisterPCs
                                => <<"register", event[c]>> \in outlived
                           /\ pc[c] \in PaymentPCs /\ pc[d] \in PaymentPCs
                                => <<"payment", event[c]>> \in outlived
    BY DEF OnceTasksExclusive
  <2>1. Held(c) \cap Held(d) \subseteq outlived BY DEF KeysExclusive
  <2>2. ASSUME At(c, "appointment"), At(d, "appointment")
        PROVE  <<"appointment", "any">> \in outlived
    BY <2>1, <2>2, OnceKeyIs DEF Held, At, AppointmentPCs
  <2>3. ASSUME event[c] = event[d], pc[c] \in RegisterPCs, pc[d] \in RegisterPCs
        PROVE  <<"register", event[c]>> \in outlived
    BY <2>1, <2>3, OnceKeyIs DEF Held
  <2>4. ASSUME event[c] = event[d], pc[c] \in PaymentPCs, pc[d] \in PaymentPCs
        PROVE  <<"payment", event[c]>> \in outlived
    BY <2>1, <2>4, OnceKeyIs DEF Held
  <2> QED BY <2>2, <2>3, <2>4
<1> QED BY <1>1, TypeInit, TypeStep, KeysInit, KeysStep, PTL DEF Spec

\* The converse: without a killed worker whose task is not delivered again, every key that
\* is taken is the key of a running task.
Releases ==
  \/ TimeLimitKills /\ crashes > 0
  \/ \A key \in locks : \E c \in Chains : key \in Held(c)

\* A chain that moves leaves no key behind but the one it moves to.
LEMMA ReleasesMove ==
  ASSUME ChainsTypeOK, Releases, NEW c \in Chains, NEW p, NEW e,
         pc' = [pc EXCEPT ![c] = p],
         event' = [event EXCEPT ![c] = e],
         locks' \subseteq (locks \ Held(c)) \cup OnceKey(p, e),
         crashes' = crashes
  PROVE  Releases'
<1>1. Held(c)' = OnceKey(p, e) BY DEF ChainsTypeOK, Held
<1>2. \A d \in Chains : d # c => Held(d)' = Held(d) BY DEF ChainsTypeOK, Held
<1>3. CASE TimeLimitKills /\ crashes > 0 BY <1>3 DEF Releases
<1>4. CASE \A key \in locks : \E d \in Chains : key \in Held(d)
  <2> SUFFICES ASSUME NEW key \in locks' PROVE \E d \in Chains : key \in Held(d)'
    BY DEF Releases
  <2>1. CASE key \in OnceKey(p, e) BY <1>1, <2>1
  <2>2. CASE key \in locks \ Held(c)
    <3>1. PICK d \in Chains : key \in Held(d) BY <1>4, <2>2
    <3> QED BY <1>2, <2>2, <3>1
  <2> QED BY <2>1, <2>2
<1> QED BY <1>3, <1>4 DEF Releases

\* Nor does a chain that goes on within its task, ...
LEMMA GotoReleases ==
  ASSUME ChainsTypeOK, Releases, NEW c \in Chains, NEW p, NEW copy,
         Goto(c, p, copy), OnceKey(p, event[c]) = Held(c), crashes' = crashes
  PROVE  Releases'
<1>1. event' = [event EXCEPT ![c] = event[c]] BY DEF Goto, ChainsTypeOK
<1>2. locks' \subseteq (locks \ Held(c)) \cup OnceKey(p, event[c]) BY DEF Goto
<1>3. pc' = [pc EXCEPT ![c] = p] BY DEF Goto
<1> QED BY <1>1, <1>2, <1>3, ReleasesMove

\* ... whose task returns, ...
LEMMA ReturnReleases ==
  ASSUME ChainsTypeOK, Releases, NEW c \in Chains, NEW next, Return(c, next),
         crashes' = crashes
  PROVE  Releases'
<1>1. event' = [event EXCEPT ![c] = event[c]] BY DEF Return, ChainsTypeOK
<1>2. CASE OnceKey(next, event[c]) \cap locks = {}
  BY <1>1, <1>2, ReleasesMove DEF Return
<1>3. CASE OnceKey(next, event[c]) \cap locks # {}
  BY <1>1, <1>3, ReleasesMove DEF Return
<1> QED BY <1>2, <1>3

\* ... whose task raises, ...
LEMMA RaiseReleases ==
  ASSUME ChainsTypeOK, Releases, NEW c \in Chains, Raise(c), crashes' = crashes
  PROVE  Releases'
<1>1. event' = [event EXCEPT ![c] = event[c]] BY DEF Raise, ChainsTypeOK
<1> QED BY <1>1, ReleasesMove DEF Raise

\* ... or whose task fails.
LEMMA FailTaskReleases ==
  ASSUME ChainsTypeOK, Releases, NEW c \in Chains, NEW next, FailTask(c, next),
         crashes' = crashes
  PROVE  Releases'
BY ReturnReleases, RaiseReleases DEF FailTask

\* A chain that is sent takes the key of its first task only.
LEMMA SendReleases ==
  ASSUME ChainsTypeOK, Releases, NEW c \in Chains, NEW e, Send(c, e), crashes' = crashes
  PROVE  Releases'
<1>1. Held(c) = {} BY IdleHasNoKey DEF Send, At, Held
<1> QED BY <1>1, ReleasesMove DEF Send

\* An event takes no other key.
LEMMA EventReleases ==
  ASSUME ChainsTypeOK, Releases, NEW e, OnPostSubmissionEvent(e), crashes' = crashes
  PROVE  Releases'
BY SendReleases DEF OnPostSubmissionEvent, chainVars, Releases, Held

\* No step leaves a key behind, but a worker killed for good.
LEMMA ReleasesStep == TypeInv /\ Releases /\ [Next]_vars => Releases'
<1> SUFFICES ASSUME TypeInv, ChainsTypeOK, Releases, [Next]_vars
             PROVE  Releases'
  BY DEF TypeInv
<1>0. ASSUME UNCHANGED <<pc, event, locks, crashes>> PROVE Releases'
  BY <1>0 DEF Releases, Held
<1>u. CASE UserEvent
  BY <1>u, <1>0, EventReleases
     DEF UserEvent, Complete, StatusPoll, CosignComplete, AdminRetry, PaymentComplete,
         PaymentRepeat, SlowRequest, chainVars, outerVars
<1>r. ASSUME NEW c \in Chains, Retry(c) PROVE Releases'
  BY <1>r, SendReleases DEF Retry, outerVars
<1>a. ASSUME NEW c \in Chains, AppointmentTask(c) PROVE Releases'
  BY <1>a, ReturnReleases, RaiseReleases DEF AppointmentTask, BookAppointment, outerVars
<1>p. ASSUME NEW c \in Chains, PreRegistrationTask(c) PROVE Releases'
  <2>1. ASSUME NEW p \in PrePCs, NEW copy, pc[c] \in PrePCs, Goto(c, p, copy),
               crashes' = crashes
        PROVE  Releases'
    <3>1. OnceKey(p, event[c]) = {} /\ Held(c) = {}
      BY <2>1, OnceKeyIs DEF Held, PrePCs, AppointmentPCs, RegisterPCs, PaymentPCs
    <3> QED BY <2>1, <3>1, GotoReleases
  <2> QED
    BY <1>p, <2>1, ReturnReleases, FailTaskReleases
       DEF PreRegistrationTask, PreRegistration, PreRegistrationInvalidOptions,
           PreRegistrationValidOptions, PreRegistrationCall, PreRegistrationSave, PrePCs, At,
           preUnchanged, outerVars
<1>k. ASSUME NEW c \in Chains, ComponentTasks(c) PROVE Releases'
  BY <1>k, <1>0, ReturnReleases
     DEF ComponentTasks, ComponentStart, ComponentResult, ComponentsDone, ProcessComponents,
         GenerateReport, compUnchanged, outerVars
<1>g. ASSUME NEW c \in Chains, RegisterTask(c) PROVE Releases'
  <2>1. ASSUME NEW p \in RegisterPCs, NEW copy, pc[c] \in RegisterPCs, Goto(c, p, copy),
               crashes' = crashes
        PROVE  Releases'
    <3>1. OnceKey(p, event[c]) = Held(c) BY <2>1, OnceKeyIs DEF Held
    <3> QED BY <2>1, <3>1, GotoReleases
  <2> QED
    BY <1>g, <2>1, ReturnReleases, FailTaskReleases, RaiseReleases
       DEF RegisterTask, RegisterSubmission, RegisterMark, RegisterFails, RegisterCall,
           RegisterMarkPayments, RegisterSave, RegisterPCs, At, regUnchanged,
           outerVars
<1>m. ASSUME NEW c \in Chains, PaymentTask(c) PROVE Releases'
  <2>1. ASSUME NEW p \in PaymentPCs, NEW copy, pc[c] \in PaymentPCs, Goto(c, p, copy),
               crashes' = crashes
        PROVE  Releases'
    <3>1. OnceKey(p, event[c]) = Held(c) BY <2>1, OnceKeyIs DEF Held
    <3> QED BY <2>1, <3>1, GotoReleases
  <2> QED
    BY <1>m, <2>1, ReturnReleases, FailTaskReleases
       DEF PaymentTask, UpdatePaymentStatus, PaymentSelect, PaymentCallSucceeds,
           PaymentCommit, PaymentCallFails, PaymentPCs, At, payUnchanged,
           outerVars
<1>f. ASSUME NEW c \in Chains, FinaliseTask(c) PROVE Releases'
  <2>1. CASE FinaliseCompletion(c)
    <3>1. OnceKey("fin_save", event[c]) = {} /\ Held(c) = {}
      BY <2>1, OnceKeyIs
         DEF FinaliseCompletion, At, Held, AppointmentPCs, RegisterPCs, PaymentPCs
    <3> QED BY <2>1, <3>1, GotoReleases DEF FinaliseCompletion, outerVars
  <2>2. CASE FinaliseSave(c)
    <3>1. event' = [event EXCEPT ![c] = event[c]] BY <2>2 DEF FinaliseSave, ChainsTypeOK
    <3>2. Held(c) = {} /\ locks' = locks /\ crashes' = crashes
      BY <2>2, OnceKeyIs
         DEF FinaliseSave, At, Held, AppointmentPCs, RegisterPCs, PaymentPCs, outerVars
    <3> QED BY <2>2, <3>1, <3>2, ReleasesMove DEF FinaliseSave
  <2> QED BY <1>f, <2>1, <2>2 DEF FinaliseTask
<1>c. ASSUME NEW c \in Chains, Crash(c) PROVE Releases'
  <2>1. event' = event /\ locks' = locks /\ crashes' > 0
    BY <1>c DEF Crash, TypeInv, DataTypeOK
  <2>2. CASE TimeLimitKills BY <2>1, <2>2 DEF Releases
  <2>3. CASE ~TimeLimitKills
    <3>1. pc' = [pc EXCEPT ![c] = TaskStart(pc[c])] BY <1>c, <2>3 DEF Crash
    <3>2. Held(c)' = OnceKey(TaskStart(pc[c]), event[c])
      BY <2>1, <3>1 DEF Held, ChainsTypeOK
    <3>3. \A d \in Chains : d # c => Held(d)' = Held(d)
      BY <2>1, <3>1 DEF Held, ChainsTypeOK
    <3> QED BY <2>1, <2>3, <3>2, <3>3, RestartKeepsKey DEF Releases, ChainsTypeOK
  <2> QED BY <2>2, <2>3
<1>h. CASE MaybeHash \/ Age BY <1>h, <1>0 DEF MaybeHash, Age, chainVars, outerVars
<1>l. CASE LockExpires
  BY <1>l DEF LockExpires, Releases, Held, outerVars
<1>e. ASSUME NEW c \in Chains, KeyOutlived(c) PROVE Releases'
  BY <1>e DEF KeyOutlived, Releases, Held
<1>s. CASE UNCHANGED vars BY <1>s, <1>0 DEF vars, chainVars, outerVars
<1> QED
  BY <1>u, <1>r, <1>a, <1>p, <1>k, <1>g, <1>m, <1>f, <1>c, <1>h, <1>l, <1>e, <1>s
     DEF Next, Task

\* No once-task is ever refused for a key that nobody has, unless a worker was killed for
\* exceeding its time limit: only then do events wait for a key to expire.
THEOREM KeysAreReturned == Spec => []Releases
<1>1. Init => Releases BY DEF Init, Releases
<1> QED BY <1>1, TypeInit, TypeStep, ReleasesStep, PTL DEF Spec

-----------------------------------------------------------------------------
\* What requests hold, and who cosigned.

\* A request that is under way holds what it held, or the row it has just read.
LEMMA RequestedStep ==
  ASSUME TypeInv, [Next]_vars, NEW v \in Views
  PROVE  requested'[v] \subseteq requested[v] \cup {row}
<1>1. CASE Complete \/ CosignComplete \/ \E w \in Views : SlowRequest(w)
  BY <1>1 DEF Complete, CosignComplete, Saves, SlowRequest, TypeInv, DataTypeOK
<1>2. CASE requested' = requested BY <1>2
<1>3. requested' = requested \/ Complete \/ CosignComplete \/ \E w \in Views : SlowRequest(w)
  BY DEF Next, UserEvent, StatusPoll, AdminRetry, PaymentComplete, PaymentRepeat, Retry, Task,
         AppointmentTask, BookAppointment, PreRegistrationTask, PreRegistration,
         PreRegistrationInvalidOptions, PreRegistrationValidOptions, PreRegistrationCall,
         PreRegistrationSave, preUnchanged, ComponentTasks, ComponentStart, ComponentResult,
         compUnchanged, ComponentsDone, ProcessComponents, GenerateReport, RegisterTask,
         RegisterSubmission, RegisterMark, RegisterFails, RegisterCall, RegisterMarkPayments,
         RegisterSave, regUnchanged, PaymentTask, UpdatePaymentStatus, PaymentSelect,
         PaymentCallSucceeds, PaymentCommit, PaymentCallFails, payUnchanged, FinaliseTask,
         FinaliseCompletion, FinaliseSave, Crash, MaybeHash, Age, LockExpires, KeyOutlived,
         outerVars, vars
<1> QED BY <1>1, <1>2, <1>3

\* Neither the row nor a copy of it is signed before somebody signed.
SignaturesGiven ==
  /\ row.signed => cosigned
  /\ \A c \in Chains : seen[c].signed => cosigned
  /\ \A v \in Views : \A copy \in requested[v] : copy.signed => cosigned

\* At first nothing is signed.
LEMMA SignaturesInit == Init => SignaturesGiven
BY DEF Init, SignaturesGiven, NewRow

\* An event leaves the copies of the chains alone.
LEMMA EventSeen ==
  ASSUME NEW e, OnPostSubmissionEvent(e)
  PROVE  seen' = seen
BY DEF OnPostSubmissionEvent, Send, chainVars

\* A chain goes on with a copy that is signed only if somebody signed.
LEMMA TaskSigned ==
  ASSUME ChainsTypeOK, SignaturesGiven, NEW c \in Chains, NEW p, NEW copy,
         (Goto(c, p, copy) /\ (copy.signed => cosigned)) \/ Return(c, p) \/ Raise(c)
           \/ FailTask(c, p)
  PROVE  \A d \in Chains : seen'[d].signed => cosigned
<1>1. ASSUME NEW r, r.signed => cosigned, seen' = [seen EXCEPT ![c] = r]
      PROVE  \A d \in Chains : seen'[d].signed => cosigned
  BY <1>1 DEF ChainsTypeOK, SignaturesGiven
<1>2. NewRow.signed => cosigned BY DEF NewRow
<1> QED BY <1>1, <1>2 DEF Goto, Return, Raise, FailTask

\* Every step keeps signatures, in the row and in copies, to what somebody has signed.
LEMMA SignaturesStep == TypeInv /\ SignaturesGiven /\ [Next]_vars => SignaturesGiven'
<1> SUFFICES ASSUME TypeInv, SignaturesGiven, [Next]_vars
             PROVE  SignaturesGiven'
  OBVIOUS
<1>t. ChainsTypeOK /\ row \in Row /\ cosigned \in BOOLEAN BY DEF TypeInv, DataTypeOK
<1>q. \A v \in Views : requested'[v] \subseteq requested[v] \cup {row} BY RequestedStep
<1>0. ASSUME UNCHANGED <<row, seen, cosigned>> PROVE SignaturesGiven'
  BY <1>0, <1>q DEF SignaturesGiven
<1>1. ASSUME cosigned' = cosigned,
             \A d \in Chains : seen'[d].signed => cosigned,
             row'.signed => cosigned
      PROVE  SignaturesGiven'
  BY <1>1, <1>q DEF SignaturesGiven
<1>n. NewRow.signed => cosigned BY DEF NewRow
<1>v. /\ row.signed => cosigned
      /\ \A c \in Chains : seen[c].signed => cosigned
      /\ \A c \in Chains : seen[c] \in Row
  BY <1>t DEF SignaturesGiven, ChainsTypeOK
<1>u. CASE UserEvent
  <2>1. CASE Complete
    <3>1. row' \in {row} \cup requested["complete"] /\ cosigned' = cosigned
      BY <2>1 DEF Complete
    <3>2. seen' = seen BY <2>1, EventSeen DEF Complete
    <3> QED BY <3>1, <3>2, <1>q DEF SignaturesGiven, Views
  <2>2. CASE CosignComplete
    <3>1. cosigned' BY <2>2 DEF CosignComplete
    <3> QED BY <3>1 DEF SignaturesGiven
  <2>3. CASE AdminRetry
    <3>1. row'.signed = row.signed /\ cosigned' = cosigned
      BY <2>3, <1>t DEF AdminRetry, Row
    <3>2. seen' = seen BY <2>3, EventSeen DEF AdminRetry
    <3> QED BY <3>1, <3>2, <1>q DEF SignaturesGiven
  <2>4. CASE StatusPoll BY <2>4, <1>0 DEF StatusPoll, dbVars, chainVars, outerVars
  <2>5. ASSUME NEW p \in Payments, PaymentComplete(p) \/ PaymentRepeat(p)
        PROVE  SignaturesGiven'
    BY <2>5, <1>0, EventSeen DEF PaymentComplete, PaymentRepeat, dbVars, outerVars
  <2>6. ASSUME NEW v \in Views, SlowRequest(v) PROVE SignaturesGiven'
    BY <2>6, <1>0 DEF SlowRequest, dbVars, chainVars
  <2> QED BY <1>u, <2>1, <2>2, <2>3, <2>4, <2>5, <2>6 DEF UserEvent
<1>r. ASSUME NEW c \in Chains, Retry(c) PROVE SignaturesGiven'
  BY <1>r, <1>0 DEF Retry, Send, dbVars, outerVars
<1>a. ASSUME NEW c \in Chains, AppointmentTask(c) PROVE SignaturesGiven'
  <2>1. \A d \in Chains : seen'[d].signed => cosigned
    BY <1>a, <1>t, TaskSigned DEF AppointmentTask, BookAppointment
  <2> QED BY <1>a, <1>1, <1>v, <2>1 DEF AppointmentTask, BookAppointment, outerVars
<1>p. ASSUME NEW c \in Chains, PreRegistrationTask(c) PROVE SignaturesGiven'
  <2>0. cosigned' = cosigned
    BY <1>p
       DEF PreRegistrationTask, PreRegistration, PreRegistrationInvalidOptions,
           PreRegistrationValidOptions, PreRegistrationCall, PreRegistrationSave, preUnchanged,
           outerVars
  <2>1. \A d \in Chains : seen'[d].signed => cosigned
    BY <1>p, <1>t, <1>v, TaskSigned
       DEF PreRegistrationTask, PreRegistration, PreRegistrationInvalidOptions,
           PreRegistrationValidOptions, PreRegistrationCall, PreRegistrationSave
  <2>2. row'.signed = row.signed \/ row'.signed = seen[c].signed
    BY <1>p, <1>t, <1>v
       DEF PreRegistrationTask, PreRegistration, PreRegistrationInvalidOptions,
           PreRegistrationValidOptions, PreRegistrationCall, PreRegistrationSave,
           AttemptFailed, StatusFailed, FullSave, Row
  <2> QED BY <1>1, <1>v, <2>0, <2>1, <2>2
<1>k. ASSUME NEW c \in Chains, ComponentTasks(c) PROVE SignaturesGiven'
  <2>1. CASE \E k \in Components : ComponentStart(c, k) \/ ComponentResult(c, k)
    BY <2>1, <1>0 DEF ComponentStart, ComponentResult, compUnchanged, outerVars
  <2>2. CASE ComponentsDone(c) \/ ProcessComponents(c) \/ GenerateReport(c)
    <3>1. \A d \in Chains : seen'[d].signed => cosigned
      BY <2>2, <1>t, TaskSigned DEF ComponentsDone, ProcessComponents, GenerateReport
    <3>2. row'.signed = row.signed
      BY <2>2, <1>t
         DEF ComponentsDone, ProcessComponents, ComponentFailureFlag, GenerateReport, dbVars,
             Row
    <3> QED BY <2>2, <1>1, <1>v, <3>1, <3>2
            DEF ComponentsDone, ProcessComponents, GenerateReport, outerVars
  <2> QED BY <1>k, <2>1, <2>2 DEF ComponentTasks
<1>g. ASSUME NEW c \in Chains, RegisterTask(c) PROVE SignaturesGiven'
  <2>0. cosigned' = cosigned
    BY <1>g
       DEF RegisterTask, RegisterSubmission, RegisterMark, RegisterFails, RegisterCall,
           RegisterMarkPayments, RegisterSave, regUnchanged, outerVars
  <2>1. \A d \in Chains : seen'[d].signed => cosigned
    <3>1. PluginCopy(seen[c]).signed => cosigned
      BY <1>n, <1>v DEF PluginCopy, InProgress, Row
    <3> QED
      BY <1>g, <1>n, <1>t, <1>v, <3>1, TaskSigned
         DEF RegisterTask, RegisterSubmission, RegisterMark, RegisterFails, RegisterCall,
             RegisterMarkPayments, RegisterSave
  <2>2. row'.signed = row.signed \/ row'.signed = seen[c].signed
    BY <1>g, <1>t, <1>v
       DEF RegisterTask, RegisterSubmission, RegisterMark, RegisterFails, RegisterCall,
           RegisterMarkPayments, RegisterSave, InProgress, StatusFailed, Row
  <2> QED BY <1>1, <1>v, <2>0, <2>1, <2>2
<1>m. ASSUME NEW c \in Chains, PaymentTask(c) PROVE SignaturesGiven'
  <2>1. \A d \in Chains : seen'[d].signed => cosigned
    BY <1>m, <1>n, <1>t, TaskSigned
       DEF PaymentTask, UpdatePaymentStatus, PaymentSelect, PaymentCallSucceeds,
           PaymentCommit, PaymentCallFails
  <2>2. row'.signed = row.signed /\ cosigned' = cosigned
    BY <1>m, <1>t
       DEF PaymentTask, UpdatePaymentStatus, PaymentSelect, PaymentCallSucceeds,
           PaymentCommit, PaymentCallFails, payUnchanged, outerVars, Row
  <2> QED BY <1>1, <1>v, <2>1, <2>2
<1>f. ASSUME NEW c \in Chains, FinaliseTask(c) PROVE SignaturesGiven'
  <2>1. CASE FinaliseCompletion(c)
    <3>1. [row EXCEPT !.retry = NeedsRetry(row)].signed => cosigned BY <1>t, <1>v DEF Row
    <3>2. \A d \in Chains : seen'[d].signed => cosigned
      BY <2>1, <1>t, <3>1, TaskSigned DEF FinaliseCompletion
    <3> QED BY <2>1, <1>1, <1>v, <3>2 DEF FinaliseCompletion, dbVars, outerVars
  <2>2. CASE FinaliseSave(c)
    <3>1. \A d \in Chains : seen'[d].signed => cosigned
      BY <2>2, <1>t, <1>n, <1>v DEF FinaliseSave, ChainsTypeOK
    <3>2. row'.signed = row.signed BY <2>2, <1>t DEF FinaliseSave, Row
    <3> QED BY <2>2, <1>1, <1>v, <3>1, <3>2 DEF FinaliseSave, outerVars
  <2> QED BY <1>f, <2>1, <2>2 DEF FinaliseTask
<1>c. ASSUME NEW c \in Chains, Crash(c) PROVE SignaturesGiven'
  <2>1. \A d \in Chains : seen'[d].signed => cosigned
    BY <1>c, <1>t, <1>n, <1>v DEF Crash, ChainsTypeOK
  <2> QED BY <1>c, <1>1, <1>v, <2>1 DEF Crash, dbVars
<1>h. CASE MaybeHash \/ Age \/ LockExpires \/ \E x \in Chains : KeyOutlived(x)
  BY <1>h, <1>0 DEF MaybeHash, Age, LockExpires, KeyOutlived, chainVars, dbVars, outerVars
<1>s. CASE UNCHANGED vars BY <1>s, <1>0 DEF vars
<1> QED
  BY <1>u, <1>r, <1>a, <1>p, <1>k, <1>g, <1>m, <1>f, <1>c, <1>h, <1>s DEF Next, Task

-----------------------------------------------------------------------------
\* The partial and full saves of the row.  A task that will write its whole copy back read
\* it before the pre-registration was complete, hence before any registration.

CopyPCs == {"pre_options", "pre_call", "pre_save", "reg_call"}

CopyNotRegistered ==
  \A c \in Chains : pc[c] \in CopyPCs => seen[c].status # "success"

\* What a slow request read was consistent.
RequestedPreRegistered ==
  \A v \in Views : \A copy \in requested[v] : copy.status = "success" => copy.pre

SavesConsistent == SuccessWasPreRegistered /\ CopyNotRegistered /\ RequestedPreRegistered

\* A chain that leaves these steps, or goes on with a copy that is not registered.
LEMMA CopyMove ==
  ASSUME ChainsTypeOK, CopyNotRegistered, NEW c \in Chains, NEW p, NEW copy,
         pc' = [pc EXCEPT ![c] = p], seen' = [seen EXCEPT ![c] = copy],
         p \in CopyPCs => copy.status # "success"
  PROVE  CopyNotRegistered'
BY DEF ChainsTypeOK, CopyNotRegistered

\* The end of a task leaves no copy of a registered submission that is still to be saved.
LEMMA ReturnCopy ==
  ASSUME ChainsTypeOK, CopyNotRegistered, NEW c \in Chains, NEW next, next \notin CopyPCs,
         Return(c, next) \/ FailTask(c, next) \/ Raise(c)
  PROVE  CopyNotRegistered'
<1>1. CASE Return(c, next)
  <2>1. CASE OnceKey(next, event[c]) \cap locks = {}
    BY <1>1, <2>1, CopyMove DEF Return, CopyPCs
  <2>2. CASE OnceKey(next, event[c]) \cap locks # {}
    BY <1>1, <2>2, CopyMove DEF Return, CopyPCs
  <2> QED BY <2>1, <2>2
<1>2. CASE Raise(c) BY <1>2, CopyMove DEF Raise, CopyPCs
<1> QED BY <1>1, <1>2 DEF FailTask

\* A chain that is sent holds no copy to be saved.
LEMMA SendCopy ==
  ASSUME ChainsTypeOK, CopyNotRegistered, NEW e, OnPostSubmissionEvent(e)
                                                 \/ \E c \in Chains : Send(c, e)
  PROVE  CopyNotRegistered'
<1>1. ASSUME NEW c \in Chains, Send(c, e) PROVE CopyNotRegistered'
  <2>1. seen' = [seen EXCEPT ![c] = seen[c]] BY <1>1 DEF Send, ChainsTypeOK
  <2> QED BY <1>1, <2>1, CopyMove DEF Send, CopyPCs
<1>2. CASE UNCHANGED chainVars BY <1>2 DEF chainVars, CopyNotRegistered
<1> QED BY <1>1, <1>2 DEF OnPostSubmissionEvent

\* At first nothing is registered.
LEMMA SavesInit == Init => SavesConsistent
BY DEF Init, SavesConsistent, SuccessWasPreRegistered, CopyNotRegistered, CopyPCs,
       RequestedPreRegistered, NewRow

\* Every step keeps the row, and every copy that may be saved, pre-registered if registered.
LEMMA SavesStep == TypeInv /\ SavesConsistent /\ [Next]_vars => SavesConsistent'
<1> SUFFICES ASSUME TypeInv, SavesConsistent, [Next]_vars
             PROVE  SavesConsistent'
  OBVIOUS
<1> USE DEF SavesConsistent, SuccessWasPreRegistered
<1>t. ChainsTypeOK /\ row \in Row BY DEF TypeInv, DataTypeOK
<1>q. RequestedPreRegistered'
  BY RequestedStep DEF RequestedPreRegistered
<1>0. ASSUME row' = row, UNCHANGED <<pc, seen>> PROVE SavesConsistent'
  BY <1>0, <1>q DEF CopyNotRegistered
<1>u. CASE UserEvent
  <2>1. CopyNotRegistered'
    BY <1>u, <1>t, SendCopy
       DEF UserEvent, Complete, StatusPoll, CosignComplete, AdminRetry, PaymentComplete,
           PaymentRepeat, SlowRequest, chainVars, CopyNotRegistered
  <2>3. \A v \in Views : \A copy \in ({row} \cup requested[v]) :
            copy \in Row /\ (copy.status = "success" => copy.pre)
    BY <1>t DEF RequestedPreRegistered, TypeInv, DataTypeOK
  <2>4. \E r \in Row : /\ r.status = "success" => r.pre
                       /\ row'.status = r.status /\ row'.pre = r.pre
    <3>1. CASE Complete BY <2>3, <3>1 DEF Complete, Views
    <3>2. CASE CosignComplete BY <2>3, <3>2 DEF CosignComplete, Views, Row
    <3> QED
      BY <1>u, <1>t, <3>1, <3>2
         DEF UserEvent, StatusPoll, AdminRetry, PaymentComplete, PaymentRepeat, SlowRequest,
             dbVars, Row
  <2>2. row'.status = "success" => row'.pre BY <2>4
  <2> QED BY <1>q, <2>1, <2>2
<1>r. ASSUME NEW c \in Chains, Retry(c) PROVE SavesConsistent'
  BY <1>r, <1>q, <1>t, SendCopy DEF Retry, dbVars
<1>a. ASSUME NEW c \in Chains, AppointmentTask(c) PROVE SavesConsistent'
  BY <1>a, <1>q, <1>t, ReturnCopy DEF AppointmentTask, BookAppointment, CopyPCs
<1>p. ASSUME NEW c \in Chains, PreRegistrationTask(c) PROVE SavesConsistent'
  <2>1. CASE PreRegistration(c)
    <3>1. CopyNotRegistered'
      BY <2>1, <1>t, ReturnCopy, CopyMove DEF PreRegistration, Goto, CopyPCs
    <3> QED BY <1>q, <2>1, <3>1 DEF PreRegistration
  <2>2. CASE PreRegistrationInvalidOptions(c)
    <3>1. CopyNotRegistered'
      BY <2>2, <1>t, ReturnCopy DEF PreRegistrationInvalidOptions, CopyPCs
    <3>2. row' = row \/ row'.status = "failed"
      BY <2>2, <1>t DEF PreRegistrationInvalidOptions, AttemptFailed, StatusFailed, Row
    <3> QED BY <1>q, <3>1, <3>2
  <2>3. CASE PreRegistrationValidOptions(c)
    <3>1. seen[c].status # "success"
      BY <2>3 DEF PreRegistrationValidOptions, CopyNotRegistered, CopyPCs, At
    <3>2. CopyNotRegistered'
      BY <2>3, <3>1, <1>t, CopyMove DEF PreRegistrationValidOptions, Goto
    <3> QED BY <1>q, <2>3, <3>1, <3>2 DEF PreRegistrationValidOptions
  <2>4. CASE PreRegistrationCall(c)
    <3>1. seen[c].status # "success"
      BY <2>4 DEF PreRegistrationCall, CopyNotRegistered, CopyPCs, At
    <3>2. CopyNotRegistered'
      BY <2>4, <3>1, <1>t, CopyMove, ReturnCopy DEF PreRegistrationCall, Goto, CopyPCs
    <3>3. row' = row \/ row'.status = "failed"
      BY <2>4, <1>t DEF PreRegistrationCall, AttemptFailed, StatusFailed, Row
    <3> QED BY <1>q, <3>2, <3>3
  <2>5. CASE PreRegistrationSave(c)
    <3>1. CopyNotRegistered' BY <2>5, <1>t, ReturnCopy DEF PreRegistrationSave, CopyPCs
    <3>2. row'.pre BY <2>5, <1>t DEF PreRegistrationSave, FullSave, ChainsTypeOK, Row
    <3> QED BY <1>q, <3>1, <3>2
  <2> QED BY <1>p, <2>1, <2>2, <2>3, <2>4, <2>5 DEF PreRegistrationTask
<1>k. ASSUME NEW c \in Chains, ComponentTasks(c) PROVE SavesConsistent'
  <2>1. CopyNotRegistered'
    BY <1>k, <1>t, ReturnCopy
       DEF ComponentTasks, ComponentStart, ComponentResult, ComponentsDone,
           ProcessComponents, GenerateReport, CopyPCs, CopyNotRegistered
  <2>2. row'.status = row.status /\ row'.pre = row.pre
    BY <1>k, <1>t
       DEF ComponentTasks, ComponentStart, ComponentResult, ComponentsDone,
           ProcessComponents, ComponentFailureFlag, GenerateReport, dbVars, Row
  <2> QED BY <1>q, <2>1, <2>2
<1>g. ASSUME NEW c \in Chains, RegisterTask(c) PROVE SavesConsistent'
  <2>0. ASSUME NEW copy \in Row PROVE PluginCopy(copy).status # "success"
    BY DEF PluginCopy, InProgress, NewRow, Row
  <2>1. CopyNotRegistered'
    <3>1. seen[c] \in Row BY <1>t DEF ChainsTypeOK
    <3> QED
      BY <1>g, <1>t, <2>0, <3>1, CopyMove, ReturnCopy
         DEF RegisterTask, RegisterSubmission, RegisterMark, RegisterFails, RegisterCall,
             RegisterMarkPayments, RegisterSave, Goto, CopyPCs
  <2>2. CASE RegisterCall(c)
    <3>1. row' = row \/ row'.status # "success"
      BY <2>2 DEF RegisterCall, At, CopyNotRegistered, CopyPCs
    <3> QED BY <1>q, <2>1, <3>1
  <2>3. CASE ~RegisterCall(c)
    <3>1. row' = row \/ row'.status # "success" \/ row'.pre
      BY <1>g, <1>t, <2>3
         DEF RegisterTask, RegisterSubmission, RegisterMark, RegisterFails,
             RegisterMarkPayments, RegisterSave, InProgress, StatusFailed, Row
    <3> QED BY <1>q, <2>1, <3>1
  <2> QED BY <2>2, <2>3
<1>m. ASSUME NEW c \in Chains, PaymentTask(c) PROVE SavesConsistent'
  <2>1. CopyNotRegistered'
    BY <1>m, <1>t, CopyMove, ReturnCopy
       DEF PaymentTask, UpdatePaymentStatus, PaymentSelect, PaymentCallSucceeds,
           PaymentCommit, PaymentCallFails, Goto, CopyPCs
  <2>2. row'.status = row.status /\ row'.pre = row.pre
    BY <1>m, <1>t
       DEF PaymentTask, UpdatePaymentStatus, PaymentSelect, PaymentCallSucceeds,
           PaymentCommit, PaymentCallFails, Row
  <2> QED BY <1>q, <2>1, <2>2
<1>f. ASSUME NEW c \in Chains, FinaliseTask(c) PROVE SavesConsistent'
  BY <1>f, <1>q, <1>t, CopyMove
     DEF FinaliseTask, FinaliseCompletion, FinaliseSave, Goto, dbVars, Row, CopyPCs
<1>c. ASSUME NEW c \in Chains, Crash(c) PROVE SavesConsistent'
  <2>1. TaskStart(pc[c]) \notin CopyPCs
    BY DEF TaskStart, CopyPCs, PrePCs, RegisterPCs, PaymentPCs, FinalisePCs
  <2> QED BY <1>c, <1>q, <1>t, <2>1, CopyMove DEF Crash, dbVars, CopyPCs
<1>h. CASE MaybeHash \/ Age \/ LockExpires \/ \E x \in Chains : KeyOutlived(x)
  BY <1>h, <1>0 DEF MaybeHash, Age, LockExpires, KeyOutlived, chainVars, dbVars
<1>s. CASE UNCHANGED vars BY <1>s, <1>0 DEF vars
<1> QED
  BY <1>u, <1>r, <1>a, <1>p, <1>k, <1>g, <1>m, <1>f, <1>c, <1>h, <1>s DEF Next, Task

\* No interleaving of partial and full saves leaves a submission registered without its
\* pre-registration being complete.
THEOREM SuccessIsPreRegistered == Spec => []SuccessWasPreRegistered
<1>1. SavesConsistent => SuccessWasPreRegistered BY DEF SavesConsistent
<1> QED BY <1>1, TypeInit, TypeStep, SavesInit, SavesStep, PTL DEF Spec

-----------------------------------------------------------------------------
\* Payments.  The row locks belong to the one chain that is between its select and its
\* commit; what was checked before a registration stays true until the backend is called.

MayRegister ==
  (CosignRequired => cosigned) /\ (WaitForPayment /\ PaymentRequired => HasPaid)

PayPCs == {"reg_mark", "reg_call", "reg_pay", "pay_select", "pay_call", "pay_commit"}

PaymentsConsistent ==
  /\ \A c \in Chains : c \in payLock <=> pc[c] \in {"pay_call", "pay_commit"}
  /\ \A c, d \in payLock : c = d
  /\ payLock # {} => Completed # {}
  /\ \A c \in Chains : pc[c] \in {"pay_select", "pay_call", "pay_commit"} => ~WaitForPayment
  /\ \A c \in Chains : pc[c] = "reg_pay" => WaitForPayment
  /\ \A c \in Chains : pc[c] \in {"reg_pay", "pay_commit"} => known # {}
  /\ PaymentRegistered => known # {}
  /\ HasPaid => PaymentRequired
  /\ \A c \in Chains : event[c] = "on_payment_complete" => HasPaid
  /\ \A c \in Chains : pc[c] \in {"reg_mark", "reg_call"} => MayRegister

\* A chain that moves to any other step, and no longer holds the row locks.
LEMMA PaymentMove ==
  ASSUME TypeInv, PaymentsConsistent, NEW c \in Chains, NEW p, NEW e,
         pc' = [pc EXCEPT ![c] = p], p \notin PayPCs,
         event' = [event EXCEPT ![c] = e], e = "on_payment_complete" => HasPaid,
         payLock' = payLock \ {c},
         UNCHANGED <<payment, known, cosigned>>
  PROVE  PaymentsConsistent'
<1>1. /\ Completed' = Completed /\ PaymentRegistered' = PaymentRegistered
      /\ HasPaid' = HasPaid /\ MayRegister' = MayRegister
  BY DEF Completed, PaymentRegistered, HasPaid, Paid, MayRegister
<1>2. /\ \A d \in Chains : d # c => pc'[d] = pc[d] /\ event'[d] = event[d]
      /\ pc'[c] = p /\ event'[c] = e
  BY DEF TypeInv, ChainsTypeOK
<1> QED BY <1>1, <1>2 DEF PaymentsConsistent, PayPCs

\* The task returned or raised.
LEMMA PaymentReturn ==
  ASSUME TypeInv, PaymentsConsistent, NEW c \in Chains, NEW next, next \notin PayPCs,
         Return(c, next) \/ Raise(c) \/ FailTask(c, next),
         payLock' = payLock \ {c},
         UNCHANGED <<payment, known, cosigned>>
  PROVE  PaymentsConsistent'
<1>0. event = [event EXCEPT ![c] = event[c]] BY DEF TypeInv, ChainsTypeOK
<1>1. event[c] = "on_payment_complete" => HasPaid BY DEF PaymentsConsistent
<1>2. CASE Return(c, next)
  <2>1. CASE OnceKey(next, event[c]) \cap locks = {}
    BY <1>0, <1>1, <1>2, <2>1, PaymentMove DEF Return
  <2>2. CASE OnceKey(next, event[c]) \cap locks # {}
    BY <1>0, <1>1, <1>2, <2>2, PaymentMove DEF Return, PayPCs
  <2> QED BY <2>1, <2>2
<1>3. CASE Raise(c) BY <1>0, <1>1, <1>3, PaymentMove DEF Raise, PayPCs
<1> QED BY <1>2, <1>3 DEF FailTask

\* A chain that is not at the backend holds no row locks.
LEMMA NoLocks ==
  ASSUME PaymentsConsistent, NEW c \in Chains, pc[c] \notin {"pay_call", "pay_commit"}
  PROVE  payLock \ {c} = payLock
BY DEF PaymentsConsistent

\* The events that change neither the payments nor who waits.
LEMMA PaymentSend ==
  ASSUME TypeInv, PaymentsConsistent, NEW e \in Events, e = "on_payment_complete" => HasPaid,
         OnPostSubmissionEvent(e) \/ \E c \in Chains : Send(c, e),
         UNCHANGED <<payment, known, cosigned, payLock>>
  PROVE  PaymentsConsistent'
<1>1. ASSUME NEW c \in Chains, Send(c, e) PROVE PaymentsConsistent'
  <2>1. pc[c] \notin {"pay_call", "pay_commit"} BY <1>1 DEF Send, At
  <2>2. payLock' = payLock \ {c} BY <2>1, NoLocks
  <2>3. pc' = [pc EXCEPT ![c] = "appointment"] /\ event' = [event EXCEPT ![c] = e]
    BY <1>1 DEF Send
  <2> QED BY <2>2, <2>3, PaymentMove DEF PayPCs
<1>2. CASE UNCHANGED chainVars
  BY <1>2 DEF chainVars, PaymentsConsistent, Completed, PaymentRegistered, HasPaid, Paid,
              MayRegister
<1> QED BY <1>1, <1>2 DEF OnPostSubmissionEvent

\* At first no payment is locked or registered.
LEMMA PaymentsInit == Init => PaymentsConsistent
BY DEF Init, PaymentsConsistent, Completed, PaymentRegistered, HasPaid, Paid

\* An event moves at most one chain, from idle to its first task.
LEMMA SendMoves ==
  ASSUME ChainsTypeOK, NEW e, OnPostSubmissionEvent(e)
  PROVE  \A c \in Chains :
            \/ pc'[c] = pc[c] /\ event'[c] = event[c]
            \/ pc[c] = "idle" /\ pc'[c] = "appointment" /\ event'[c] = e
<1>1. ASSUME NEW d \in Chains, Send(d, e), NEW c \in Chains
      PROVE  \/ pc'[c] = pc[c] /\ event'[c] = event[c]
             \/ pc[c] = "idle" /\ pc'[c] = "appointment" /\ event'[c] = e
  BY <1>1 DEF Send, At, ChainsTypeOK
<1>2. CASE UNCHANGED chainVars BY <1>2 DEF chainVars
<1> QED BY <1>1, <1>2 DEF OnPostSubmissionEvent

\* A payment completes, which may send a chain for it.
LEMMA PaymentCompletes ==
  ASSUME TypeInv, PaymentsConsistent, NEW p \in Payments, PaymentComplete(p)
  PROVE  PaymentsConsistent'
<1>1. HasPaid' /\ PaymentRequired
  BY DEF PaymentComplete, TypeInv, DataTypeOK, HasPaid, Paid
<1>2. Completed # {} => Completed' # {}
  BY DEF PaymentComplete, TypeInv, DataTypeOK, Completed
<1>3. PaymentRegistered' = PaymentRegistered
  BY DEF PaymentComplete, TypeInv, DataTypeOK, PaymentRegistered
<1>4. MayRegister => MayRegister' BY <1>1 DEF PaymentComplete, MayRegister, outerVars
<1>5. \A c \in Chains : pc'[c] = pc[c] \/ (pc[c] = "idle" /\ pc'[c] = "appointment")
  <2>1. OnPostSubmissionEvent("on_payment_complete") BY DEF PaymentComplete
  <2> QED BY <2>1, SendMoves DEF TypeInv
<1>6. UNCHANGED <<payLock, known>> BY DEF PaymentComplete
<1> QED BY <1>1, <1>2, <1>3, <1>4, <1>5, <1>6 DEF PaymentsConsistent

\* Every step keeps the locks on the payments exclusive, and what is registered known.
LEMMA PaymentsStep ==
  TypeInv /\ SignaturesGiven /\ PaymentsConsistent /\ [Next]_vars => PaymentsConsistent'
<1> SUFFICES ASSUME TypeInv, SignaturesGiven, PaymentsConsistent, [Next]_vars
             PROVE  PaymentsConsistent'
  OBVIOUS
<1>t. ChainsTypeOK /\ payment \in [Payments -> {"none", "completed", "registered"}]
  BY DEF TypeInv, DataTypeOK
<1>0. ASSUME UNCHANGED <<payment, cosigned, known, payLock, pc, event>>
      PROVE  PaymentsConsistent'
  BY <1>0 DEF PaymentsConsistent, Completed, PaymentRegistered, HasPaid, Paid, MayRegister
<1>u. CASE UserEvent
  <2>1. CASE Complete \/ AdminRetry
    BY <2>1, PaymentSend DEF Complete, AdminRetry, Events, dbVars, userVars, outerVars
  <2>2. CASE StatusPoll BY <2>2, <1>0 DEF StatusPoll, dbVars, chainVars, outerVars
  <2>3. CASE CosignComplete
    <3>1. MayRegister => MayRegister'
      BY <2>3 DEF CosignComplete, MayRegister, HasPaid, Paid
    <3>2. \A c \in Chains :
            /\ pc'[c] = pc[c] \/ (pc[c] = "idle" /\ pc'[c] = "appointment")
            /\ event'[c] \in {event[c], "on_cosign_complete"}
      <4>1. OnPostSubmissionEvent("on_cosign_complete") BY <2>3 DEF CosignComplete
      <4> QED BY <4>1, <1>t, SendMoves
    <3>3. /\ UNCHANGED <<payLock, known>> /\ Completed' = Completed /\ HasPaid' = HasPaid
          /\ PaymentRegistered' = PaymentRegistered
      BY <2>3 DEF CosignComplete, Completed, HasPaid, Paid, PaymentRegistered
    <3> QED BY <3>1, <3>2, <3>3 DEF PaymentsConsistent
  <2>4. ASSUME NEW p \in Payments, PaymentComplete(p) PROVE PaymentsConsistent'
    BY <2>4, PaymentCompletes
  <2>5. ASSUME NEW p \in Payments, PaymentRepeat(p) PROVE PaymentsConsistent'
    <3>1. HasPaid BY <2>5 DEF PaymentRepeat, HasPaid, Paid
    <3> QED BY <2>5, <3>1, PaymentSend DEF PaymentRepeat, Events, dbVars, outerVars
  <2>6. ASSUME NEW v \in Views, SlowRequest(v) PROVE PaymentsConsistent'
    BY <2>6, <1>0 DEF SlowRequest, dbVars, chainVars
  <2> QED BY <1>u, <2>1, <2>2, <2>3, <2>4, <2>5, <2>6 DEF UserEvent
<1>r. ASSUME NEW c \in Chains, Retry(c) PROVE PaymentsConsistent'
  BY <1>r, PaymentSend DEF Retry, Events, dbVars, outerVars
<1>a. ASSUME NEW c \in Chains, AppointmentTask(c) PROVE PaymentsConsistent'
  BY <1>a, NoLocks, PaymentReturn
     DEF AppointmentTask, BookAppointment, outerVars, At, PayPCs
<1>n. ASSUME NEW c \in Chains, NEW p, NEW copy, p \notin PayPCs, Goto(c, p, copy),
             pc[c] \notin {"pay_call", "pay_commit"},
             UNCHANGED <<payment, known, cosigned, payLock>>
      PROVE  PaymentsConsistent'
  <2>1. event' = [event EXCEPT ![c] = event[c]] BY <1>n, <1>t DEF Goto, ChainsTypeOK
  <2>2. event[c] = "on_payment_complete" => HasPaid BY DEF PaymentsConsistent
  <2> QED BY <1>n, <2>1, <2>2, NoLocks, PaymentMove DEF Goto
<1>p. ASSUME NEW c \in Chains, PreRegistrationTask(c) PROVE PaymentsConsistent'
  BY <1>p, <1>n, NoLocks, PaymentReturn
     DEF PreRegistrationTask, PreRegistration, PreRegistrationInvalidOptions,
         PreRegistrationValidOptions, PreRegistrationCall, PreRegistrationSave, preUnchanged,
         outerVars,
         At, PayPCs
<1>k. ASSUME NEW c \in Chains, ComponentTasks(c) PROVE PaymentsConsistent'
  BY <1>k, <1>0, NoLocks, PaymentReturn
     DEF ComponentTasks, ComponentStart, ComponentResult, compUnchanged, ComponentsDone,
         ProcessComponents, GenerateReport, dbVars, outerVars, At, PayPCs
<1>g. ASSUME NEW c \in Chains, RegisterTask(c) PROVE PaymentsConsistent'
  <2>0. \A d \in Chains : d # c => pc'[d] = pc[d] /\ event'[d] = event[d]
    BY <1>g, <1>t
       DEF RegisterTask, RegisterSubmission, RegisterMark, RegisterFails, RegisterCall,
           RegisterMarkPayments, RegisterSave, Goto, Return, Raise, FailTask, ChainsTypeOK
  <2>1. CASE RegisterSubmission(c)
    <3>1. CASE RegistrationBlocked(row)
      BY <2>1, <3>1, NoLocks, PaymentReturn
         DEF RegisterSubmission, regUnchanged, outerVars, At, PayPCs
    <3>2. CASE ~RegistrationBlocked(row)
      <4>1. MayRegister
        BY <3>2 DEF RegistrationBlocked, Waiting, SignaturesGiven, MayRegister
      <4>2. /\ pc[c] = "register" /\ pc'[c] = "reg_mark" /\ event'[c] = event[c]
            /\ UNCHANGED <<payment, cosigned, known, payLock>>
        BY <2>1, <3>2, <1>t
           DEF RegisterSubmission, Goto, regUnchanged, outerVars, At, ChainsTypeOK
      <4> QED BY <2>0, <4>1, <4>2
              DEF PaymentsConsistent, Completed, PaymentRegistered, HasPaid, Paid, MayRegister
    <3> QED BY <3>1, <3>2
  <2>2. CASE RegisterMark(c)
    <3>1. /\ pc[c] = "reg_mark" /\ pc'[c] \in {"reg_call", "reg_save"} /\ event'[c] = event[c]
          /\ UNCHANGED <<payment, cosigned, known, payLock>>
      BY <2>2, <1>t DEF RegisterMark, Goto, regUnchanged, outerVars, At, ChainsTypeOK
    <3> QED BY <2>0, <3>1
            DEF PaymentsConsistent, Completed, PaymentRegistered, HasPaid, Paid, MayRegister
  <2>3. CASE RegisterFails(c)
    BY <2>3, NoLocks, PaymentReturn DEF RegisterFails, regUnchanged, outerVars, At, PayPCs
  <2>4. CASE RegisterCall(c)
    <3>1. /\ pc[c] = "reg_call" /\ pc'[c] \in {"reg_pay", "reg_save"} /\ event'[c] = event[c]
          /\ known \subseteq known'
          /\ pc'[c] = "reg_pay" => MarksPayments(event[c]) /\ known' = known \cup Paid
          /\ UNCHANGED <<payment, cosigned, payLock>>
      BY <2>4, <1>t
         DEF RegisterCall, MarksPayments, Goto, regUnchanged, outerVars, At, ChainsTypeOK
    <3>2. pc'[c] = "reg_pay" => WaitForPayment /\ known' # {}
      BY <3>1 DEF PaymentsConsistent, MarksPayments, HasPaid
    <3> QED BY <2>0, <3>1, <3>2
            DEF PaymentsConsistent, Completed, PaymentRegistered, HasPaid, Paid, MayRegister
  <2>5. CASE RegisterMarkPayments(c)
    <3>1. /\ pc[c] = "reg_pay" /\ pc'[c] = "reg_save" /\ event'[c] = event[c]
          /\ payment' = MarkRegistered /\ UNCHANGED <<cosigned, known, payLock>>
      BY <2>5, <1>t DEF RegisterMarkPayments, Goto, regUnchanged, outerVars, At, ChainsTypeOK
    <3>2. payLock = {} /\ known # {} BY <3>1 DEF PaymentsConsistent, TypeInv, DataTypeOK
    <3>3. HasPaid' = HasPaid
      BY <3>1, <1>t DEF MarkRegistered, Completed, HasPaid, Paid
    <3> QED BY <2>0, <3>1, <3>2, <3>3 DEF PaymentsConsistent, MayRegister
  <2>6. CASE RegisterSave(c)
    BY <2>6, NoLocks, PaymentReturn DEF RegisterSave, regUnchanged, outerVars, At, PayPCs
  <2> QED BY <1>g, <2>1, <2>2, <2>3, <2>4, <2>5, <2>6 DEF RegisterTask
<1>m. ASSUME NEW c \in Chains, PaymentTask(c) PROVE PaymentsConsistent'
  <2>0. \A d \in Chains : d # c => pc'[d] = pc[d] /\ event'[d] = event[d]
    BY <1>m, <1>t
       DEF PaymentTask, UpdatePaymentStatus, PaymentSelect, PaymentCallSucceeds,
           PaymentCommit, PaymentCallFails, Goto, Return, Raise, FailTask, ChainsTypeOK
  <2>1. CASE UpdatePaymentStatus(c)
    <3>1. CASE PaymentUpdateSkipped(row)
      BY <2>1, <3>1, NoLocks, PaymentReturn
         DEF UpdatePaymentStatus, payUnchanged, outerVars, At, PayPCs
    <3>2. CASE ~PaymentUpdateSkipped(row)
      <4>1. /\ pc[c] = "payment" /\ pc'[c] = "pay_select" /\ event'[c] = event[c]
            /\ ~WaitForPayment /\ UNCHANGED <<payment, cosigned, known, payLock>>
        BY <2>1, <3>2, <1>t
           DEF UpdatePaymentStatus, PaymentUpdateSkipped, Goto, payUnchanged, outerVars, At,
           ChainsTypeOK
      <4> QED BY <2>0, <4>1
              DEF PaymentsConsistent, Completed, PaymentRegistered, HasPaid, Paid, MayRegister
    <3> QED BY <3>1, <3>2
  <2>2. CASE PaymentSelect(c)
    <3>1. CASE Completed = {}
      BY <2>2, <3>1, NoLocks, PaymentReturn
         DEF PaymentSelect, payUnchanged, outerVars, At, PayPCs
    <3>2. CASE Completed # {}
      <4>1. /\ pc[c] = "pay_select" /\ pc'[c] = "pay_call" /\ event'[c] = event[c]
            /\ payLock = {} /\ payLock' = {c} /\ UNCHANGED <<payment, cosigned, known>>
        BY <2>2, <3>2, <1>t DEF PaymentSelect, Goto, payUnchanged, outerVars, At, ChainsTypeOK
      <4> QED BY <2>0, <3>2, <4>1
              DEF PaymentsConsistent, Completed, PaymentRegistered, HasPaid, Paid, MayRegister
    <3> QED BY <3>1, <3>2
  <2>3. CASE PaymentCallSucceeds(c)
    <3>1. /\ pc[c] = "pay_call" /\ pc'[c] = "pay_commit" /\ event'[c] = event[c]
          /\ known' = known \cup Paid /\ UNCHANGED <<payment, cosigned, payLock>>
      BY <2>3, <1>t DEF PaymentCallSucceeds, Goto, payUnchanged, outerVars, At, ChainsTypeOK
    <3>2. Paid # {} BY <3>1 DEF PaymentsConsistent, Completed, Paid
    <3> QED BY <2>0, <3>1, <3>2
            DEF PaymentsConsistent, Completed, PaymentRegistered, HasPaid, Paid, MayRegister
  <2>4. CASE PaymentCommit(c)
    <3>1. /\ pc[c] = "pay_commit" /\ pc'[c] \in {"finalise", "idle"} /\ event'[c] = event[c]
          /\ payment' = MarkRegistered /\ payLock' = payLock \ {c}
          /\ UNCHANGED <<cosigned, known>>
      BY <2>4, <1>t DEF PaymentCommit, Return, payUnchanged, outerVars, At, ChainsTypeOK
    <3>2. payLock' = {} /\ known # {}
      BY <3>1 DEF PaymentsConsistent
    <3>3. HasPaid' = HasPaid
      BY <3>1, <1>t DEF MarkRegistered, Completed, HasPaid, Paid
    <3>4. \A d \in Chains : pc'[d] \notin {"pay_call", "pay_commit"}
      BY <2>0, <3>1, <3>2 DEF PaymentsConsistent
    <3> QED BY <2>0, <3>1, <3>2, <3>3, <3>4 DEF PaymentsConsistent, MayRegister
  <2>5. CASE PaymentCallFails(c)
    BY <2>5, PaymentReturn DEF PaymentCallFails, payUnchanged, outerVars, PayPCs
  <2> QED BY <1>m, <2>1, <2>2, <2>3, <2>4, <2>5 DEF PaymentTask
<1>f. ASSUME NEW c \in Chains, FinaliseTask(c) PROVE PaymentsConsistent'
  <2>1. CASE FinaliseCompletion(c)
    BY <2>1, <1>n DEF FinaliseCompletion, dbVars, outerVars, At, PayPCs
  <2>2. CASE FinaliseSave(c)
    <3>1. event' = [event EXCEPT ![c] = event[c]] BY <2>2, <1>t DEF FinaliseSave, ChainsTypeOK
    <3>2. event[c] = "on_payment_complete" => HasPaid BY DEF PaymentsConsistent
    <3> QED BY <2>2, <3>1, <3>2, NoLocks, PaymentMove DEF FinaliseSave, outerVars, At, PayPCs
  <2> QED BY <1>f, <2>1, <2>2 DEF FinaliseTask
<1>c. ASSUME NEW c \in Chains, Crash(c) PROVE PaymentsConsistent'
  <2>1. TaskStart(pc[c]) \notin PayPCs
    BY DEF TaskStart, PayPCs, PrePCs, RegisterPCs, PaymentPCs, FinalisePCs
  <2>2. event' = [event EXCEPT ![c] = event[c]] BY <1>c, <1>t DEF Crash, ChainsTypeOK
  <2>3. event[c] = "on_payment_complete" => HasPaid BY DEF PaymentsConsistent
  <2>4. payLock' = payLock \ {c} /\ UNCHANGED <<payment, known, cosigned>>
    BY <1>c DEF Crash, dbVars
  <2>5. CASE pc' = [pc EXCEPT ![c] = TaskStart(@)]
    <3>1. pc' = [pc EXCEPT ![c] = TaskStart(pc[c])] BY <2>5
    <3> QED BY <2>1, <2>2, <2>3, <2>4, <3>1, PaymentMove
  <2>6. CASE pc' = [pc EXCEPT ![c] = "idle"]
    <3>1. "idle" \notin PayPCs BY DEF PayPCs
    <3> QED BY <2>2, <2>3, <2>4, <2>6, <3>1, PaymentMove
  <2> QED BY <1>c, <2>5, <2>6 DEF Crash
<1>h. CASE MaybeHash \/ Age \/ LockExpires \/ \E x \in Chains : KeyOutlived(x)
  BY <1>h, <1>0 DEF MaybeHash, Age, LockExpires, KeyOutlived, chainVars, dbVars, outerVars
<1>s. CASE UNCHANGED vars BY <1>s, <1>0 DEF vars
<1> QED
  BY <1>u, <1>r, <1>a, <1>p, <1>k, <1>g, <1>m, <1>f, <1>c, <1>h, <1>s DEF Next, Task

\* While a chain updates the payment status, no other chain registers the payment: the
\* row locks are enough for any number of chains and payments.
THEOREM PaymentUpdatesAreNeeded == Spec => []PaymentUpdateIsNeeded
<1>1. TypeInv /\ PaymentsConsistent => PaymentUpdateIsNeeded
  BY DEF PaymentsConsistent, PaymentUpdateIsNeeded
<1> QED BY <1>1, TypeInit, TypeStep, SignaturesInit, SignaturesStep, PaymentsInit,
       PaymentsStep, PTL DEF Spec

\* A submission that counts as having its payment registered has told its backend about one.
THEOREM PaymentsRegisteredAreKnown == Spec => []PaymentRegisteredIsKnown
<1>1. PaymentsConsistent => PaymentRegisteredIsKnown
  BY DEF PaymentsConsistent, PaymentRegisteredIsKnown
<1> QED BY <1>1, TypeInit, TypeStep, SignaturesInit, SignaturesStep, PaymentsInit,
       PaymentsStep, PTL DEF Spec

\* No step of any chain sends the backend a submission that nobody cosigned, or nobody paid
\* for, while it has to wait for that, however long before the conditions were checked.
THEOREM OnlyAllowedRegistrations == Spec => RegistersOnlyWhenAllowed
<1>1. ASSUME PaymentsConsistent, NEW c \in Chains, RegisterCall(c)
      PROVE  /\ CosignRequired => cosigned
             /\ WaitForPayment /\ PaymentRequired => HasPaid
  BY <1>1 DEF RegisterCall, At, PaymentsConsistent, MayRegister
<1>2. PaymentsConsistent =>
        [\A c \in Chains :
           RegisterCall(c) => /\ CosignRequired => cosigned
                              /\ WaitForPayment /\ PaymentRequired => HasPaid]_vars
  BY <1>1
<1> QED
  BY <1>2, TypeInit, TypeStep, SignaturesInit, SignaturesStep, PaymentsInit,
       PaymentsStep, PTL
     DEF Spec, RegistersOnlyWhenAllowed

=============================================================================
