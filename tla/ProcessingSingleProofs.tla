------------------------- MODULE ProcessingSingleProofs -------------------------
(***************************************************************************)
(* Theorems about Processing for a submission whose chains do not overlap  *)
(* and whose requests are answered before the next task runs, for any      *)
(* number of components and payments, any attempt limit, any number of     *)
(* crashes and resets and any configuration: what the celery tasks promise *)
(* when nothing runs next to them.  With two chains TLC refutes            *)
(* SuccessIsFinal (the run stale_save).                                    *)
(***************************************************************************)
EXTENDS ProcessingProofs

-----------------------------------------------------------------------------
\* There is one slot for a chain.
OneChain == \A c, d \in Chains : c = d

\* ... and no request reads the row and saves it only after tasks have run.
OneAtATime == OneChain /\ MaxDelays = 0

BookingKey == <<"appointment", "any">>

\* No request holds a copy of the row.
NoRequests == \A v \in Views : requested[v] = {}

\* A chain past its first task has given back the key of that task, and no other chain
\* is there to take it.
BookingKeyFree ==
  \A c \in Chains : pc[c] \notin {"idle", "appointment"} => BookingKey \notin locks

\* The steps of a task that rely on what an earlier step read or wrote.
StagePCs == {"pre_options", "pre_call", "pre_save", "reg_mark", "reg_call", "reg_pay",
             "reg_save", "fin_save"}

\* What a task has read is still what the row says when it writes.
CopyIsCurrent ==
  \A c \in Chains :
    /\ pc[c] \in {"pre_options", "pre_call", "pre_save", "reg_mark"} => seen[c] = row
    /\ pc[c] = "reg_call" /\ PluginSaves => seen[c] = row
    /\ pc[c] = "fin_save" => seen[c].retry = NeedsRetry(row)

\* What a task has tested, or done, still holds.
Stages ==
  \A c \in Chains :
    /\ pc[c] \in {"pre_options", "pre_call", "pre_save"} => ~row.pre
    /\ pc[c] = "reg_mark" => row.pre /\ row.status # "success"
    /\ pc[c] \in {"reg_call", "reg_pay", "reg_save"} => row.pre /\ row.status = "in_progress"

Undisturbed == NoRequests /\ BookingKeyFree /\ CopyIsCurrent /\ Stages

Alone == TypeInv /\ SavesConsistent /\ Undisturbed

-----------------------------------------------------------------------------
\* How the one chain moves.

\* Each task takes its steps where its program counter says so.
LEMMA TaskPCs ==
  ASSUME NEW c
  PROVE  /\ AppointmentTask(c) => pc[c] = "appointment"
         /\ PreRegistrationTask(c) => pc[c] \in PrePCs
         /\ ComponentTasks(c) => pc[c] \in {"components", "process", "report"}
         /\ RegisterTask(c) => pc[c] \in RegisterPCs
         /\ PaymentTask(c) => pc[c] \in PaymentPCs
         /\ FinaliseTask(c) => pc[c] \in FinalisePCs
<1>1. AppointmentTask(c) => pc[c] = "appointment"
  BY DEF AppointmentTask, BookAppointment, At
<1>2. PreRegistrationTask(c) => pc[c] \in PrePCs
  BY DEF PreRegistrationTask, PreRegistration, PreRegistrationInvalidOptions,
         PreRegistrationValidOptions, PreRegistrationCall, PreRegistrationSave, At, PrePCs
<1>3. ComponentTasks(c) => pc[c] \in {"components", "process", "report"}
  BY DEF ComponentTasks, ComponentStart, ComponentResult, ComponentsDone, ProcessComponents,
         GenerateReport, At
<1>4. RegisterTask(c) => pc[c] \in RegisterPCs
  BY DEF RegisterTask, RegisterSubmission, RegisterMark, RegisterFails, RegisterCall,
         RegisterMarkPayments, RegisterSave, At, RegisterPCs
<1>5. PaymentTask(c) => pc[c] \in PaymentPCs
  BY DEF PaymentTask, UpdatePaymentStatus, PaymentSelect, PaymentCallSucceeds, PaymentCommit,
         PaymentCallFails, At, PaymentPCs
<1>6. FinaliseTask(c) => pc[c] \in FinalisePCs
  BY DEF FinaliseTask, FinaliseCompletion, FinaliseSave, At, FinalisePCs
<1> QED BY <1>1, <1>2, <1>3, <1>4, <1>5, <1>6

\* A task that goes on.
LEMMA OneGoto ==
  ASSUME OneChain, ChainsTypeOK, NEW c \in Chains, NEW p, NEW copy, Goto(c, p, copy)
  PROVE  /\ \A d \in Chains : pc'[d] = p /\ seen'[d] = copy
         /\ UNCHANGED <<locks, event, work>>
BY DEF OneChain, ChainsTypeOK, Goto

\* A task that ends, in whatever way.
LEMMA OneReturn ==
  ASSUME OneChain, ChainsTypeOK, NEW c \in Chains, NEW next,
         Return(c, next) \/ Raise(c) \/ FailTask(c, next)
  PROVE  /\ \A d \in Chains : pc'[d] \in {next, "idle"}
         /\ locks' \subseteq (locks \ Held(c)) \cup OnceKey(next, event[c])
         /\ UNCHANGED event
<1>1. CASE Return(c, next) BY <1>1 DEF OneChain, ChainsTypeOK, Return
<1>2. CASE Raise(c) BY <1>2 DEF OneChain, ChainsTypeOK, Raise
<1> QED BY <1>1, <1>2 DEF FailTask

\* The first task has one key, whatever the event.
LEMMA BookingKeyIs ==
  ASSUME NEW e
  PROVE  OnceKey("appointment", e) = {BookingKey}
BY DEF OnceKey, AppointmentPCs, RegisterPCs, PaymentPCs, BookingKey

\* An event finds the chain idle, or still at its first task.
LEMMA OneEvent ==
  ASSUME OneChain, ChainsTypeOK, BookingKeyFree, NEW e, OnPostSubmissionEvent(e)
  PROVE  \A d \in Chains : /\ pc[d] \in {"idle", "appointment"}
                           /\ pc'[d] \in {"idle", "appointment"}
<1>1. ASSUME NEW c \in Chains, Send(c, e), NEW d \in Chains
      PROVE  pc[d] \in {"idle", "appointment"} /\ pc'[d] \in {"idle", "appointment"}
  BY <1>1 DEF OneChain, ChainsTypeOK, Send, At
<1>2. ASSUME OnceKey("appointment", e) \cap locks # {}, UNCHANGED chainVars, NEW d \in Chains
      PROVE  pc[d] \in {"idle", "appointment"} /\ pc'[d] \in {"idle", "appointment"}
  <2>1. BookingKey \in locks BY <1>2, BookingKeyIs
  <2> QED BY <1>2, <2>1 DEF BookingKeyFree, chainVars
<1> QED BY <1>1, <1>2 DEF OnPostSubmissionEvent

\* The tasks after the first one have other keys.
LEMMA OtherKeys ==
  ASSUME NEW next, NEW e, next # "appointment"
  PROVE  BookingKey \notin OnceKey(next, e)
BY DEF OnceKey, BookingKey, AppointmentPCs

\* Between the tasks nothing is held that could get stale.
LEMMA Rests ==
  ASSUME \A d \in Chains : pc'[d] \notin StagePCs
  PROVE  CopyIsCurrent' /\ Stages'
BY DEF CopyIsCurrent, Stages, StagePCs

\* A task ended: the key of the first task is still free, or given back now.
LEMMA ReturnRests ==
  ASSUME OneChain, ChainsTypeOK, BookingKeyFree, NEW c \in Chains, NEW next,
         pc[c] # "idle", next \notin StagePCs, next # "appointment",
         Return(c, next) \/ Raise(c) \/ FailTask(c, next)
  PROVE  CopyIsCurrent' /\ Stages' /\ BookingKeyFree'
<1>1. \A d \in Chains : pc'[d] \in {next, "idle"} BY OneReturn
<1>2. CopyIsCurrent' /\ Stages' BY <1>1, Rests DEF StagePCs
<1>3. BookingKey \notin locks \ Held(c)
  <2>1. CASE pc[c] = "appointment"
    BY <2>1, BookingKeyIs DEF Held
  <2>2. CASE pc[c] # "appointment" BY <2>2 DEF BookingKeyFree
  <2> QED BY <2>1, <2>2
<1>4. BookingKey \notin locks' BY <1>3, OneReturn, OtherKeys
<1> QED BY <1>2, <1>4 DEF BookingKeyFree

\* A task goes on: the key of the first task is still free.
LEMMA GotoKeyFree ==
  ASSUME OneChain, ChainsTypeOK, BookingKeyFree, NEW c \in Chains, NEW p, NEW copy,
         pc[c] \notin {"idle", "appointment"}, Goto(c, p, copy)
  PROVE  BookingKeyFree'
BY OneGoto DEF BookingKeyFree

-----------------------------------------------------------------------------
\* The steps of each kind of task.

\* At first nothing runs.
LEMMA UndisturbedInit == Init => Undisturbed
BY DEF Init, Undisturbed, NoRequests, BookingKeyFree, CopyIsCurrent, Stages

\* No request is slow, hence none of them keeps a copy.
LEMMA RequestsStep ==
  ASSUME OneAtATime, TypeInv, NoRequests, [Next]_vars
  PROVE  NoRequests'
<1>1. ~\E v \in Views : SlowRequest(v)
  BY DEF OneAtATime, SlowRequest, TypeInv, DataTypeOK
<1>2. CASE Complete \/ CosignComplete
  BY <1>2 DEF Complete, CosignComplete, Saves, NoRequests, TypeInv, DataTypeOK
<1>3. CASE requested' = requested BY <1>3 DEF NoRequests
<1>4. requested' = requested \/ Complete \/ CosignComplete
  BY <1>1
     DEF Next, UserEvent, StatusPoll, AdminRetry, PaymentComplete, PaymentRepeat, Retry, Task,
         AppointmentTask, BookAppointment, PreRegistrationTask, PreRegistration,
         PreRegistrationInvalidOptions, PreRegistrationValidOptions, PreRegistrationCall,
         PreRegistrationSave, preUnchanged, ComponentTasks, ComponentStart, ComponentResult,
         compUnchanged, ComponentsDone, ProcessComponents, GenerateReport, RegisterTask,
         RegisterSubmission, RegisterMark, RegisterFails, RegisterCall, RegisterMarkPayments,
         RegisterSave, regUnchanged, PaymentTask, UpdatePaymentStatus, PaymentSelect,
         PaymentCallSucceeds, PaymentCommit, PaymentCallFails, payUnchanged, FinaliseTask,
         FinaliseCompletion, FinaliseSave, Crash, MaybeHash, Age, LockExpires, KeyOutlived,
         outerVars, vars
<1> QED BY <1>2, <1>3, <1>4

\* Users and administrators come in between chains only.
LEMMA UserRests ==
  ASSUME OneAtATime, Alone, UserEvent
  PROVE  CopyIsCurrent' /\ Stages' /\ BookingKeyFree'
<1> USE DEF Alone, Undisturbed, TypeInv
<1>1. ASSUME NEW e, OnPostSubmissionEvent(e)
      PROVE  CopyIsCurrent' /\ Stages' /\ BookingKeyFree'
  <2>1. \A d \in Chains : pc'[d] \in {"idle", "appointment"}
    BY <1>1, OneEvent DEF OneAtATime
  <2>2. CopyIsCurrent' /\ Stages' BY <2>1, Rests DEF StagePCs
  <2> QED BY <2>1, <2>2 DEF BookingKeyFree
<1>2. CASE StatusPoll
  BY <1>2 DEF StatusPoll, dbVars, chainVars, CopyIsCurrent, Stages, BookingKeyFree, NeedsRetry,
              HasRegistrationSuccess, HasRegistrationFailure, HasPaid, Paid, PaymentRegistered
<1>3. ASSUME NEW v \in Views, SlowRequest(v) PROVE FALSE
  BY <1>3 DEF OneAtATime, SlowRequest, DataTypeOK
<1>4. CASE Complete \/ CosignComplete \/ AdminRetry
             \/ \E p \in Payments : PaymentComplete(p) \/ PaymentRepeat(p)
  BY <1>1, <1>4 DEF Complete, CosignComplete, AdminRetry, PaymentComplete, PaymentRepeat
<1> QED BY <1>2, <1>3, <1>4 DEF UserEvent

\* pre_registration saves the copy it has just read.
LEMMA PreRests ==
  ASSUME OneAtATime, Alone, NEW c \in Chains, PreRegistrationTask(c)
  PROVE  CopyIsCurrent' /\ Stages' /\ BookingKeyFree'
<1> USE DEF Alone, Undisturbed, TypeInv
<1>o. OneChain /\ ChainsTypeOK BY DEF OneAtATime
<1>p. pc[c] \in PrePCs BY TaskPCs
<1>1. CASE Return(c, "components") \/ FailTask(c, "components")
  BY <1>1, <1>o, <1>p, ReturnRests DEF PrePCs, StagePCs
<1>2. ASSUME NEW p \in {"pre_options", "pre_call", "pre_save"}, Goto(c, p, row), row' = row,
             ~row.pre
      PROVE  CopyIsCurrent' /\ Stages' /\ BookingKeyFree'
  <2>1. BookingKeyFree' BY <1>2, <1>o, <1>p, GotoKeyFree DEF PrePCs
  <2>2. \A d \in Chains : pc'[d] = p /\ seen'[d] = row BY <1>2, <1>o, OneGoto
  <2> QED BY <1>2, <2>1, <2>2 DEF CopyIsCurrent, Stages
<1>3. CASE PreRegistration(c)
  BY <1>1, <1>2, <1>3 DEF PreRegistration
<1>4. CASE pc[c] \in {"pre_options", "pre_call", "pre_save"}
  <2>1. seen[c] = row /\ ~row.pre BY <1>4 DEF CopyIsCurrent, Stages
  <2> QED
    BY <1>1, <1>2, <1>4, <2>1
       DEF PreRegistrationTask, PreRegistration, PreRegistrationInvalidOptions,
           PreRegistrationValidOptions, PreRegistrationCall, PreRegistrationSave, At
<1> QED
  BY <1>3, <1>4
     DEF PreRegistrationTask, PreRegistrationInvalidOptions,
         PreRegistrationValidOptions, PreRegistrationCall, PreRegistrationSave, At

\* The tasks for the components hold no copy.
LEMMA ComponentsRest ==
  ASSUME OneAtATime, Alone, NEW c \in Chains, ComponentTasks(c)
  PROVE  CopyIsCurrent' /\ Stages' /\ BookingKeyFree'
<1> USE DEF Alone, Undisturbed, TypeInv
<1>1. ASSUME NEW k \in Components, ComponentStart(c, k) \/ ComponentResult(c, k)
      PROVE  CopyIsCurrent' /\ Stages' /\ BookingKeyFree'
  <2>1. \A d \in Chains : pc[d] = "components" /\ pc'[d] = "components"
    BY <1>1 DEF ComponentStart, ComponentResult, At, OneAtATime, OneChain
  <2>2. BookingKeyFree'
    BY <1>1, <2>1 DEF ComponentStart, ComponentResult, BookingKeyFree
  <2> QED BY <2>1, <2>2, Rests DEF StagePCs
<1>2. CASE ComponentsDone(c) \/ ProcessComponents(c) \/ GenerateReport(c)
  BY <1>2, ReturnRests
     DEF ComponentsDone, ProcessComponents, GenerateReport, At, OneAtATime, StagePCs
<1> QED BY <1>1, <1>2 DEF ComponentTasks

\* register_submission marks the row it has tested, and the plugin works with that.
LEMMA RegisterRests ==
  ASSUME OneAtATime, Alone, NEW c \in Chains, RegisterTask(c)
  PROVE  CopyIsCurrent' /\ Stages' /\ BookingKeyFree'
<1> USE DEF Alone, Undisturbed, TypeInv
<1>o. OneChain /\ ChainsTypeOK /\ row \in Row BY DEF OneAtATime, DataTypeOK
<1>p. pc[c] \in RegisterPCs BY TaskPCs
<1>1. CASE Return(c, "payment") \/ FailTask(c, "payment") \/ Raise(c)
  BY <1>1, <1>o, <1>p, ReturnRests DEF RegisterPCs, StagePCs
<1>g. ASSUME NEW p, NEW copy, Goto(c, p, copy)
      PROVE  BookingKeyFree' /\ \A d \in Chains : pc'[d] = p /\ seen'[d] = copy
  BY <1>g, <1>o, <1>p, GotoKeyFree, OneGoto DEF RegisterPCs
<1>2. CASE RegisterSubmission(c)
  BY <1>1, <1>2, <1>g DEF RegisterSubmission, RegistrationBlocked, CopyIsCurrent, Stages
<1>3. CASE RegisterMark(c)
  <2>1. seen[c] = row /\ row.pre BY <1>3 DEF RegisterMark, At, CopyIsCurrent, Stages
  <2>2. row' = InProgress(row, row) BY <1>3, <2>1 DEF RegisterMark
  <2>3. row'.status = "in_progress" /\ row'.pre BY <1>o, <2>1, <2>2 DEF InProgress, Row
  <2>4. CASE HasBackend
    BY <1>3, <1>g, <2>1, <2>2, <2>3, <2>4 DEF RegisterMark, PluginCopy, CopyIsCurrent, Stages
  <2>5. CASE ~HasBackend
    BY <1>3, <1>g, <2>3, <2>5 DEF RegisterMark, CopyIsCurrent, Stages
  <2> QED BY <2>4, <2>5
<1>4. CASE RegisterFails(c) BY <1>1, <1>4 DEF RegisterFails
<1>5. CASE RegisterCall(c)
  <2>1. row.status = "in_progress" /\ row.pre /\ row' = row
    BY <1>5 DEF RegisterCall, At, CopyIsCurrent, Stages
  <2> QED BY <1>5, <1>g, <2>1 DEF RegisterCall, CopyIsCurrent, Stages
<1>6. CASE RegisterMarkPayments(c)
  <2>1. row.status = "in_progress" /\ row.pre /\ row' = row
    BY <1>6 DEF RegisterMarkPayments, At, Stages
  <2> QED BY <1>6, <1>g, <2>1 DEF RegisterMarkPayments, CopyIsCurrent, Stages
<1>7. CASE RegisterSave(c) BY <1>1, <1>7 DEF RegisterSave
<1> QED BY <1>2, <1>3, <1>4, <1>5, <1>6, <1>7 DEF RegisterTask

\* update_payment_status holds no copy.
LEMMA PaymentRests ==
  ASSUME OneAtATime, Alone, NEW c \in Chains, PaymentTask(c)
  PROVE  CopyIsCurrent' /\ Stages' /\ BookingKeyFree'
<1> USE DEF Alone, Undisturbed, TypeInv
<1>o. OneChain /\ ChainsTypeOK BY DEF OneAtATime
<1>p. pc[c] \in PaymentPCs BY TaskPCs
<1>1. CASE Return(c, "finalise") \/ FailTask(c, "finalise")
  BY <1>1, <1>o, <1>p, ReturnRests DEF PaymentPCs, StagePCs
<1>2. ASSUME NEW p \in PaymentPCs, Goto(c, p, NewRow)
      PROVE  CopyIsCurrent' /\ Stages' /\ BookingKeyFree'
  <2>1. BookingKeyFree' BY <1>2, <1>o, <1>p, GotoKeyFree DEF PaymentPCs
  <2>2. \A d \in Chains : pc'[d] = p BY <1>2, <1>o, OneGoto
  <2> QED BY <2>1, <2>2, Rests DEF PaymentPCs, StagePCs
<1> QED
  BY <1>1, <1>2
     DEF PaymentTask, UpdatePaymentStatus, PaymentSelect, PaymentCallSucceeds, PaymentCommit,
         PaymentCallFails, PaymentPCs

\* finalise_completion saves the flag it has just computed.
LEMMA FinaliseRests ==
  ASSUME OneAtATime, Alone, NEW c \in Chains, FinaliseTask(c)
  PROVE  CopyIsCurrent' /\ Stages' /\ BookingKeyFree'
<1> USE DEF Alone, Undisturbed, TypeInv
<1>o. OneChain /\ ChainsTypeOK /\ row \in Row BY DEF OneAtATime, DataTypeOK
<1>1. CASE FinaliseCompletion(c)
  <2>1. BookingKeyFree' BY <1>1, <1>o, GotoKeyFree DEF FinaliseCompletion, At
  <2>2. \A d \in Chains : /\ pc'[d] = "fin_save"
                          /\ seen'[d] = [row EXCEPT !.retry = NeedsRetry(row)]
    BY <1>1, <1>o, OneGoto DEF FinaliseCompletion
  <2>3. NeedsRetry(row)' = NeedsRetry(row)
    BY <1>1 DEF FinaliseCompletion, dbVars, NeedsRetry, HasRegistrationSuccess,
                HasRegistrationFailure, HasPaid, Paid, PaymentRegistered, GivenUp
  <2>4. [row EXCEPT !.retry = NeedsRetry(row)].retry = NeedsRetry(row) BY <1>o DEF Row
  <2> QED BY <2>1, <2>2, <2>3, <2>4 DEF CopyIsCurrent, Stages
<1>2. CASE FinaliseSave(c)
  <2>1. \A d \in Chains : pc'[d] = "idle" BY <1>2, <1>o DEF FinaliseSave, OneChain, ChainsTypeOK
  <2>2. BookingKeyFree' BY <2>1 DEF BookingKeyFree
  <2> QED BY <2>1, <2>2, Rests DEF StagePCs
<1> QED BY <1>1, <1>2 DEF FinaliseTask

\* Nothing disturbs the chain.
LEMMA UndisturbedStep ==
  ASSUME OneAtATime, Alone, [Next]_vars
  PROVE  Undisturbed'
<1> USE DEF Alone, Undisturbed, TypeInv
<1>o. OneChain /\ ChainsTypeOK BY DEF OneAtATime
<1>n. NoRequests' BY RequestsStep
<1>r. ASSUME NEW c \in Chains, Retry(c) PROVE Undisturbed'
  <2>1. \A d \in Chains : pc'[d] = "appointment"
    BY <1>r, <1>o DEF Retry, Send, OneChain, ChainsTypeOK
  <2>2. BookingKeyFree' BY <2>1 DEF BookingKeyFree
  <2> QED BY <1>n, <2>1, <2>2, Rests DEF StagePCs
<1>a. ASSUME NEW c \in Chains, AppointmentTask(c) PROVE Undisturbed'
  BY <1>a, <1>n, <1>o, ReturnRests DEF AppointmentTask, BookAppointment, At, StagePCs
<1>c. ASSUME NEW c \in Chains, Crash(c) PROVE Undisturbed'
  <2>1. \A d \in Chains : pc'[d] \in {TaskStart(pc[c]), "idle"}
    BY <1>c, <1>o DEF Crash, OneChain, ChainsTypeOK
  <2>2. TaskStart(pc[c]) \notin StagePCs
    BY DEF TaskStart, StagePCs, PrePCs, RegisterPCs, PaymentPCs, FinalisePCs
  <2>3. pc[c] \in {"idle", "appointment"} => TaskStart(pc[c]) = pc[c]
    BY DEF TaskStart, PrePCs, RegisterPCs, PaymentPCs, FinalisePCs
  <2>4. BookingKeyFree' BY <1>c, <2>1, <2>3 DEF Crash, BookingKeyFree
  <2> QED BY <1>n, <2>1, <2>2, <2>4, Rests DEF StagePCs
<1>0. ASSUME UNCHANGED <<row, payment, pc, seen>>, locks' \subseteq locks PROVE Undisturbed'
  BY <1>0, <1>n DEF CopyIsCurrent, Stages, BookingKeyFree, NeedsRetry, HasRegistrationSuccess,
              HasRegistrationFailure, HasPaid, Paid, PaymentRegistered
<1>h. CASE MaybeHash \/ Age \/ LockExpires \/ UNCHANGED vars \/ \E x \in Chains : KeyOutlived(x)
  BY <1>h, <1>0 DEF MaybeHash, Age, LockExpires, KeyOutlived, vars, chainVars, dbVars
<1>u. CASE UserEvent BY <1>u, <1>n, UserRests
<1>t. ASSUME NEW c \in Chains,
             PreRegistrationTask(c) \/ ComponentTasks(c) \/ RegisterTask(c) \/ PaymentTask(c)
               \/ FinaliseTask(c)
      PROVE  Undisturbed'
  BY <1>t, <1>n, PreRests, ComponentsRest, RegisterRests, PaymentRests, FinaliseRests
<1> QED BY <1>r, <1>a, <1>c, <1>h, <1>u, <1>t DEF Next, Task

\* With one chain and no slow requests, what a task has read and tested holds when it writes,
\* and a chain past its booking is not joined by another one.
THEOREM ChainIsAlone == OneAtATime => (Spec => []Alone)
<1> SUFFICES ASSUME OneAtATime PROVE Spec => []Alone
  OBVIOUS
<1>1. Init => Alone BY TypeInit, SavesInit, UndisturbedInit DEF Alone
<1>2. Alone /\ [Next]_vars => Alone' BY TypeStep, SavesStep, UndisturbedStep DEF Alone
<1> QED BY <1>1, <1>2, PTL DEF Spec

-----------------------------------------------------------------------------
\* The life cycle of the registration.

Progress == <<row.status, row.attempts>>

\* What users and administrators do to the registration is to reset its attempts.
LEMMA UserProgress ==
  ASSUME OneAtATime, Alone, UserEvent
  PROVE  UNCHANGED Progress \/ Lifecycle!Reset
<1> USE DEF Alone, TypeInv, DataTypeOK
<1>1. CASE Complete BY <1>1 DEF Complete, Undisturbed, NoRequests, Views, Progress
<1>2. CASE CosignComplete
  <2>1. row' = [row EXCEPT !.signed = TRUE]
    BY <1>2 DEF CosignComplete, Undisturbed, NoRequests, Views
  <2> QED BY <2>1 DEF Row, Progress
<1>3. CASE AdminRetry
  <2>1. row.status = "failed" /\ row' = [row EXCEPT !.attempts = 0] BY <1>3 DEF AdminRetry
  <2> QED BY <2>1 DEF Row, Lifecycle!Reset
<1>4. CASE row' = row BY <1>4 DEF Progress
<1> QED
  BY <1>1, <1>2, <1>3, <1>4
     DEF UserEvent, StatusPoll, PaymentComplete, PaymentRepeat, SlowRequest, dbVars

\* A pre-registration that fails counts as an attempt of a submission that is not registered.
LEMMA PreProgress ==
  ASSUME OneAtATime, Alone, NEW c \in Chains, PreRegistrationTask(c)
  PROVE  UNCHANGED Progress \/ Lifecycle!FailEarly
<1> USE DEF Alone, TypeInv
<1>1. CASE row' = row BY <1>1 DEF Progress
<1>2. CASE pc[c] \in {"pre_options", "pre_call", "pre_save"}
  <2>1. seen[c] = row /\ ~row.pre BY <1>2 DEF Undisturbed, CopyIsCurrent, Stages
  <2>2. row \in Row /\ row.status # "success"
    BY <2>1 DEF SavesConsistent, SuccessWasPreRegistered, DataTypeOK
  <2>3. CASE row' = AttemptFailed(row, row) /\ pc[c] \in {"pre_options", "pre_call"}
    <3>1. row.attempts < AttemptLimit BY <2>1, <2>3 DEF ChainsTypeOK, AttemptsLeft
    <3>2. row'.status = "failed" /\ row'.attempts = row.attempts + 1
      BY <2>2, <2>3 DEF AttemptFailed, StatusFailed, Row
    <3> QED BY <2>2, <3>1, <3>2 DEF Lifecycle!FailEarly
  <2>4. CASE row' = FullSave(row) BY <2>2, <2>4 DEF FullSave, Row, Progress
  <2> QED
    BY <1>1, <2>1, <2>3, <2>4
       DEF PreRegistrationTask, PreRegistration, PreRegistrationInvalidOptions,
           PreRegistrationValidOptions, PreRegistrationCall, PreRegistrationSave, At
<1> QED
  BY <1>1, <1>2
     DEF PreRegistrationTask, PreRegistration, PreRegistrationInvalidOptions,
         PreRegistrationValidOptions, PreRegistrationCall, PreRegistrationSave, At

\* A registration goes through the steps of its life cycle.
LEMMA RegisterProgress ==
  ASSUME OneAtATime, Alone, NEW c \in Chains, RegisterTask(c)
  PROVE  UNCHANGED Progress \/ Lifecycle!Begin \/ Lifecycle!Succeed \/ Lifecycle!Fail
<1> USE DEF Alone, TypeInv
<1>t. row \in Row BY DEF DataTypeOK
<1>1. CASE row' = row BY <1>1 DEF Progress
<1>2. CASE RegisterMark(c)
  <2>1. seen[c] = row /\ row.status # "success" /\ row.attempts < AttemptLimit
    BY <1>2 DEF RegisterMark, At, Undisturbed, CopyIsCurrent, Stages, ChainsTypeOK,
                AttemptsLeft
  <2>2. row'.status = "in_progress" /\ row'.attempts = row.attempts + 1
    BY <1>2, <1>t, <2>1 DEF RegisterMark, InProgress, Row
  <2> QED BY <2>1, <2>2 DEF Lifecycle!Begin
<1>3. CASE RegisterFails(c)
  <2>1. row.status = "in_progress" BY <1>3 DEF RegisterFails, At, Undisturbed, Stages
  <2>2. row'.status = "failed" /\ row'.attempts = row.attempts
    BY <1>3, <1>t DEF RegisterFails, StatusFailed, Row
  <2> QED BY <2>1, <2>2 DEF Lifecycle!Fail
<1>4. CASE RegisterCall(c)
  BY <1>1, <1>4 DEF RegisterCall, At, Undisturbed, CopyIsCurrent
<1>5. CASE RegisterSave(c)
  <2>1. row.status = "in_progress" BY <1>5 DEF RegisterSave, At, Undisturbed, Stages
  <2>2. CASE row' = [row EXCEPT !.status = "success"]
    <3>1. row'.status = "success" /\ row'.attempts = row.attempts BY <1>t, <2>2 DEF Row
    <3> QED BY <2>1, <3>1 DEF Lifecycle!Succeed
  <2> QED BY <1>1, <1>5, <2>2 DEF RegisterSave
<1> QED
  BY <1>1, <1>2, <1>3, <1>4, <1>5
     DEF RegisterTask, RegisterSubmission, RegisterMarkPayments

\* Every other step leaves the registration status and the attempts alone.
LEMMA OtherProgress ==
  ASSUME row \in Row,
         \/ \E c \in Chains : \/ Retry(c) \/ AppointmentTask(c) \/ ComponentTasks(c)
                              \/ PaymentTask(c) \/ FinaliseTask(c) \/ Crash(c)
         \/ MaybeHash \/ Age \/ LockExpires
         \/ UNCHANGED vars \/ \E x \in Chains : KeyOutlived(x)
  PROVE  UNCHANGED Progress
<1>1. CASE row' = row BY <1>1 DEF Progress
<1>2. ASSUME NEW b, row' = [row EXCEPT !.retry = b] PROVE UNCHANGED Progress
  BY <1>2 DEF Row, Progress
<1> QED
  BY <1>1, <1>2
     DEF Retry, AppointmentTask, BookAppointment, ComponentTasks, ComponentStart,
         ComponentResult, ComponentsDone, ProcessComponents, ComponentFailureFlag,
         GenerateReport, PaymentTask, UpdatePaymentStatus, PaymentSelect,
         PaymentCallSucceeds, PaymentCommit, PaymentCallFails, FinaliseTask,
         FinaliseCompletion, FinaliseSave, Crash, MaybeHash, Age, LockExpires, KeyOutlived,
         vars, dbVars

\* Every step is a step of the life cycle, or leaves the status and the attempts alone.
LEMMA LifecycleStep ==
  ASSUME OneAtATime, Alone, [Next]_vars
  PROVE  [Lifecycle!Next]_Progress
<1>1. row \in Row BY DEF Alone, TypeInv, DataTypeOK
<1>2. UNCHANGED Progress \/ Lifecycle!Next
  BY <1>1, UserProgress, PreProgress, RegisterProgress, OtherProgress
     DEF Next, Task, Lifecycle!Next
<1> QED BY <1>2

\* The submission's registration implements the abstract life cycle: every attempt is counted,
\* there are at most AttemptLimit of them between two resets, and success is final.
THEOREM LifecycleImplemented == OneAtATime => (Spec => ImplementsLifecycle)
<1> SUFFICES ASSUME OneAtATime PROVE Spec => ImplementsLifecycle
  OBVIOUS
<1>1. Init => Lifecycle!Init BY DEF Init, Lifecycle!Init, NewRow
<1>2. Alone /\ [Next]_vars => [Lifecycle!Next]_Progress BY LifecycleStep
<1> QED
  BY <1>1, <1>2, ChainIsAlone, PTL DEF Spec, ImplementsLifecycle, Lifecycle!Spec, Progress

\* No step of the life cycle leaves success.
LEMMA SuccessStays ==
  ASSUME OneAtATime, Alone, [Next]_vars, row.status = "success"
  PROVE  row'.status = "success"
BY LifecycleStep
   DEF Progress, Lifecycle!Next, Lifecycle!Begin, Lifecycle!Succeed, Lifecycle!Fail,
       Lifecycle!FailEarly, Lifecycle!Reset

\* A registered submission stays registered, whatever is retried, redelivered or saved.
THEOREM RegisteredForGood == OneAtATime => (Spec => SuccessIsFinal)
<1> SUFFICES ASSUME OneAtATime PROVE Spec => SuccessIsFinal
  OBVIOUS
<1>1. Alone /\ [Next]_vars => [row.status = "success" => row'.status = "success"]_vars
  BY SuccessStays
<1> QED BY <1>1, ChainIsAlone, PTL DEF Spec, SuccessIsFinal

-----------------------------------------------------------------------------
\* Hashing.

\* Attributes are hashed after a success, which nothing undoes.
HashedAfterSuccess == hashed => row.status = "success"

\* One task hashes the attributes.
LEMMA HashedBy ==
  ASSUME [Next]_vars
  PROVE  hashed' = hashed \/ MaybeHash
BY DEF Next, UserEvent, Complete, StatusPoll, CosignComplete, AdminRetry, PaymentComplete,
       PaymentRepeat, SlowRequest, Retry, Task,
       AppointmentTask, BookAppointment, PreRegistrationTask, PreRegistration,
       PreRegistrationInvalidOptions, PreRegistrationValidOptions, PreRegistrationCall,
       PreRegistrationSave, preUnchanged, ComponentTasks, ComponentStart, ComponentResult,
       compUnchanged, ComponentsDone, ProcessComponents, GenerateReport, RegisterTask,
       RegisterSubmission, RegisterMark, RegisterFails, RegisterCall, RegisterMarkPayments,
       RegisterSave, regUnchanged, PaymentTask, UpdatePaymentStatus, PaymentSelect,
       PaymentCallSucceeds, PaymentCommit, PaymentCallFails, payUnchanged, FinaliseTask,
       FinaliseCompletion, FinaliseSave, Crash, Age, LockExpires, KeyOutlived, dbVars, vars

\* Every step keeps what is not registered unhashed.
LEMMA HashedStep ==
  ASSUME OneAtATime, Alone, HashedAfterSuccess, [Next]_vars
  PROVE  HashedAfterSuccess'
<1>1. CASE MaybeHash
  <2>1. hashed' => row.status = "success"
    BY <1>1 DEF MaybeHash, ReadyToHash, HashedAfterSuccess
  <2> QED BY <1>1, <2>1, SuccessStays DEF HashedAfterSuccess
<1>2. CASE hashed' = hashed BY <1>2, SuccessStays DEF HashedAfterSuccess
<1> QED BY <1>1, <1>2, HashedBy

\* No registration, a retry or a redelivered one either, sends attributes that are hashed.
THEOREM HashedNotSent == OneAtATime => (Spec => []HashedAttributesNotNeeded)
<1> SUFFICES ASSUME OneAtATime PROVE Spec => []HashedAttributesNotNeeded
  OBVIOUS
<1>1. Init => HashedAfterSuccess BY DEF Init, HashedAfterSuccess
<1>2. Alone /\ HashedAfterSuccess /\ [Next]_vars => HashedAfterSuccess' BY HashedStep
<1>3. Alone /\ HashedAfterSuccess => HashedAttributesNotNeeded
  BY DEF Alone, Undisturbed, Stages, HashedAfterSuccess, HashedAttributesNotNeeded
<1> QED BY <1>1, <1>2, <1>3, ChainIsAlone, PTL DEF Spec

-----------------------------------------------------------------------------
\* Calls of the registration backend.

\* The call has succeeded, and its result is saved or about to be.
CallCounts == row.status = "success" \/ \E c \in Chains : pc[c] \in {"reg_pay", "reg_save"}

\* A call that does not count any more is one whose worker was killed before the save.
CallsCounted == calls <= crashes \/ (calls <= crashes + 1 /\ CallCounts)

\* One step calls the backend, and one counts a killed worker.
LEMMA CountersBy ==
  ASSUME [Next]_vars
  PROVE  \/ UNCHANGED <<calls, crashes>>
         \/ \E c \in Chains : RegisterCall(c)
         \/ \E c \in Chains : Crash(c)
BY DEF Next, UserEvent, Complete, StatusPoll, CosignComplete, AdminRetry, PaymentComplete,
       PaymentRepeat, SlowRequest, Retry, Task,
       AppointmentTask, BookAppointment, PreRegistrationTask, PreRegistration,
       PreRegistrationInvalidOptions, PreRegistrationValidOptions, PreRegistrationCall,
       PreRegistrationSave, preUnchanged, ComponentTasks, ComponentStart, ComponentResult,
       compUnchanged, ComponentsDone, ProcessComponents, GenerateReport, RegisterTask,
       RegisterSubmission, RegisterMark, RegisterFails, RegisterMarkPayments,
       RegisterSave, regUnchanged, PaymentTask, UpdatePaymentStatus, PaymentSelect,
       PaymentCallSucceeds, PaymentCommit, PaymentCallFails, payUnchanged, FinaliseTask,
       FinaliseCompletion, FinaliseSave, MaybeHash, Age, LockExpires, KeyOutlived,
       outerVars, vars

\* Between the call and the save of its result, the chain goes on to that save or is killed.
LEMMA ResultSaved ==
  ASSUME OneAtATime, Alone, [Next]_vars, NEW c \in Chains, pc[c] \in {"reg_pay", "reg_save"}
  PROVE  CallCounts' \/ \E d \in Chains : Crash(d)
<1> USE DEF Alone, TypeInv, CallCounts
<1>o. OneChain /\ ChainsTypeOK BY DEF OneAtATime
<1>c. \A d \in Chains : pc[d] \in {"reg_pay", "reg_save"} BY <1>o DEF OneChain
<1>0. CASE pc' = pc BY <1>0
<1>1. ASSUME NEW e, OnPostSubmissionEvent(e) PROVE FALSE
  BY <1>1, <1>c, <1>o, OneEvent DEF Undisturbed
<1>2. CASE UserEvent
  BY <1>0, <1>1, <1>2
     DEF UserEvent, Complete, StatusPoll, CosignComplete, AdminRetry, PaymentComplete,
         PaymentRepeat, SlowRequest, chainVars
<1>3. ASSUME NEW d \in Chains, RegisterTask(d) PROVE CallCounts'
  <2>1. row \in Row /\ row.pre BY <1>c, <1>3 DEF Undisturbed, Stages, DataTypeOK
  <2>2. RegisterMarkPayments(d) \/ RegisterSave(d)
    BY <1>3, <1>c DEF RegisterTask, RegisterSubmission, RegisterMark, RegisterFails,
                      RegisterCall, At
  <2>3. CASE RegisterMarkPayments(d)
    BY <1>o, <2>3, OneGoto DEF RegisterMarkPayments
  <2>4. CASE RegisterSave(d) BY <2>1, <2>4 DEF RegisterSave, Row
  <2> QED BY <2>2, <2>3, <2>4
<1>4. ASSUME NEW d \in Chains,
             Retry(d) \/ AppointmentTask(d) \/ PreRegistrationTask(d) \/ ComponentTasks(d)
               \/ PaymentTask(d) \/ FinaliseTask(d)
      PROVE  FALSE
  BY <1>4, <1>c, TaskPCs DEF Retry, Send, At, PrePCs, PaymentPCs, FinalisePCs
<1>5. CASE MaybeHash \/ Age \/ LockExpires \/ UNCHANGED vars \/ \E x \in Chains : KeyOutlived(x)
  BY <1>0, <1>5 DEF MaybeHash, Age, LockExpires, KeyOutlived, chainVars, vars
<1> QED BY <1>2, <1>3, <1>4, <1>5 DEF Next, Task

\* Every step keeps the count.
LEMMA CallsStep ==
  ASSUME OneAtATime, Alone, CallsCounted, [Next]_vars
  PROVE  CallsCounted'
<1> USE DEF Alone, TypeInv
<1>t. calls \in Nat /\ crashes \in Nat
  BY ConstantsAssumption DEF DataTypeOK, CallsCap
<1>1. ASSUME NEW c \in Chains, RegisterCall(c) PROVE CallsCounted'
  <2>1. pc[c] = "reg_call" /\ row.status = "in_progress"
    BY <1>1 DEF RegisterCall, At, Undisturbed, Stages
  <2>2. ~CallCounts BY <2>1 DEF CallCounts, OneAtATime, OneChain
  <2>3. calls <= crashes BY <2>2 DEF CallsCounted
  <2>4. calls' <= calls + 1 /\ crashes' = crashes
    BY <1>1, <1>t DEF RegisterCall, Bump, CallsCap, regUnchanged, outerVars
  <2>5. CallCounts' BY <1>1, OneGoto DEF RegisterCall, CallCounts, OneAtATime
  <2>6. calls' \in Nat BY <1>1, <1>t DEF RegisterCall, Bump, CallsCap
  <2> QED BY <1>t, <2>3, <2>4, <2>5, <2>6 DEF CallsCounted
<1>2. ASSUME NEW c \in Chains, Crash(c) PROVE CallsCounted'
  <2>1. calls' = calls /\ crashes' = crashes + 1 BY <1>2 DEF Crash
  <2> QED BY <1>t, <2>1 DEF CallsCounted
<1>3. CASE UNCHANGED <<calls, crashes>>
  <2>1. CallCounts => CallCounts' \/ \E d \in Chains : Crash(d)
    BY ResultSaved, SuccessStays DEF CallCounts
  <2> QED BY <1>2, <1>3, <2>1 DEF CallsCounted
<1> QED BY <1>1, <1>2, <1>3, CountersBy

\* The backend registers the submission once, but for a call whose worker is killed before it
\* saves the result.
THEOREM CalledOnce == OneAtATime => (Spec => []RegisteredOnce)
<1> SUFFICES ASSUME OneAtATime PROVE Spec => []RegisteredOnce
  OBVIOUS
<1>1. Init => CallsCounted BY DEF Init, CallsCounted
<1>2. Alone /\ CallsCounted /\ [Next]_vars => CallsCounted' BY CallsStep
<1>3. Alone /\ CallsCounted => RegisteredOnce
  BY ConstantsAssumption
     DEF Alone, TypeInv, DataTypeOK, CallsCap, CallsCounted, RegisteredOnce
<1> QED BY <1>1, <1>2, <1>3, ChainIsAlone, PTL DEF Spec

-----------------------------------------------------------------------------
\* The retry flag.

\* A failed submission with attempts left is flagged as long as no administrator resets it,
\* not only when no task is under way.
FailureFlagged ==
  row.status = "failed" /\ ~GivenUp(row) /\ resets = 0 => row.retry

\* A save of the row that keeps or raises the flag, and fails only by raising it.
LEMMA FlagKept ==
  ASSUME FailureFlagged, row \in Row, resets' = resets, UNCHANGED Progress,
         row.retry => row'.retry
  PROVE  FailureFlagged'
BY DEF FailureFlagged, GivenUp, Progress

\* finalise_completion takes the flag away from a submission that has failed only when it is
\* given up.
LEMMA FlagOfFailure ==
  ASSUME row.status = "failed"
  PROVE  NeedsRetry(row) = ~GivenUp(row)
BY DEF NeedsRetry, HasRegistrationSuccess, HasRegistrationFailure

\* Only an administrator resets the attempts.
LEMMA ResetsBy ==
  ASSUME [Next]_vars
  PROVE  resets' = resets \/ AdminRetry
BY DEF Next, UserEvent, Complete, StatusPoll, CosignComplete, PaymentComplete,
       PaymentRepeat, SlowRequest, Retry, Task,
       AppointmentTask, BookAppointment, PreRegistrationTask, PreRegistration,
       PreRegistrationInvalidOptions, PreRegistrationValidOptions, PreRegistrationCall,
       PreRegistrationSave, preUnchanged, ComponentTasks, ComponentStart, ComponentResult,
       compUnchanged, ComponentsDone, ProcessComponents, GenerateReport, RegisterTask,
       RegisterSubmission, RegisterMark, RegisterFails, RegisterCall, RegisterMarkPayments,
       RegisterSave, regUnchanged, PaymentTask, UpdatePaymentStatus, PaymentSelect,
       PaymentCallSucceeds, PaymentCommit, PaymentCallFails, payUnchanged, FinaliseTask,
       FinaliseCompletion, FinaliseSave, Crash, MaybeHash, Age, LockExpires, KeyOutlived,
       outerVars, vars

\* Every step keeps the flag on what has failed.
LEMMA FlagStep ==
  ASSUME OneAtATime, Alone, FailureFlagged, [Next]_vars
  PROVE  FailureFlagged'
<1> USE DEF Alone, TypeInv
<1>t. row \in Row /\ resets \in Nat BY ConstantsAssumption DEF DataTypeOK
<1>1. CASE AdminRetry
  <2>1. resets' # 0 BY <1>1, <1>t DEF AdminRetry
  <2> QED BY <2>1 DEF FailureFlagged
<1>q. CASE resets' = resets
  <2>1. CASE row' = row BY <1>q, <2>1 DEF FailureFlagged, GivenUp
  <2>2. CASE row'.status = "failed" => row'.retry BY <2>2 DEF FailureFlagged
  <2>u. CASE UserEvent /\ ~AdminRetry
    <3>1. row' = row \/ row' = [row EXCEPT !.signed = TRUE]
      BY <2>u DEF UserEvent, Complete, CosignComplete, StatusPoll, PaymentComplete,
                  PaymentRepeat, SlowRequest, dbVars, Undisturbed, NoRequests, Views
    <3>2. UNCHANGED Progress /\ row'.retry = row.retry BY <3>1, <1>t DEF Row, Progress
    <3> QED BY <1>q, <1>t, <3>2, FlagKept
  <2>p. ASSUME NEW c \in Chains, PreRegistrationTask(c) PROVE FailureFlagged'
    <3>1. ASSUME NEW copy, row' = AttemptFailed(row, copy) PROVE row'.retry
      BY <1>t, <3>1 DEF AttemptFailed, StatusFailed, Row
    <3>2. ASSUME row' = FullSave(row) PROVE FailureFlagged'
      <4>1. UNCHANGED Progress /\ row'.retry = row.retry
        BY <3>2, <1>t DEF FullSave, Row, Progress
      <4> QED BY <1>q, <1>t, <4>1, FlagKept
    <3>3. pc[c] \in {"pre_options", "pre_call", "pre_save"} => seen[c] = row
      BY DEF Undisturbed, CopyIsCurrent
    <3> QED
      BY <2>p, <2>1, <2>2, <3>1, <3>2, <3>3
         DEF PreRegistrationTask, PreRegistration, PreRegistrationInvalidOptions,
             PreRegistrationValidOptions, PreRegistrationCall, PreRegistrationSave, At
  <2>g. ASSUME NEW c \in Chains, RegisterTask(c) PROVE FailureFlagged'
    <3>1. CASE RegisterMark(c) \/ RegisterSave(c)
      <4>1. row' = row \/ row'.status # "failed"
        BY <1>t, <3>1 DEF RegisterMark, RegisterSave, InProgress, Row
      <4> QED BY <2>1, <2>2, <4>1
    <3>2. CASE RegisterFails(c)
      BY <1>t, <2>2, <3>2 DEF RegisterFails, StatusFailed, Row
    <3>3. CASE RegisterCall(c)
      BY <2>1, <3>3 DEF RegisterCall, At, Undisturbed, CopyIsCurrent
    <3> QED
      BY <2>1, <2>g, <3>1, <3>2, <3>3 DEF RegisterTask, RegisterSubmission, RegisterMarkPayments
  <2>f. ASSUME NEW c \in Chains, FinaliseSave(c) PROVE FailureFlagged'
    <3>1. row' = [row EXCEPT !.retry = NeedsRetry(row)]
      BY <2>f DEF FinaliseSave, At, Undisturbed, CopyIsCurrent
    <3>2. UNCHANGED Progress /\ row'.retry = NeedsRetry(row) BY <1>t, <3>1 DEF Row, Progress
    <3> QED BY <3>2, FlagOfFailure DEF FailureFlagged, GivenUp, Progress
  <2>o. ASSUME NEW b \in BOOLEAN, row' = [row EXCEPT !.retry = b], row.retry => b
        PROVE  FailureFlagged'
    <3>1. UNCHANGED Progress /\ row'.retry = b BY <1>t, <2>o DEF Row, Progress
    <3> QED BY <1>q, <1>t, <2>o, <3>1, FlagKept
  <2>k. ASSUME NEW c \in Chains, ComponentTasks(c) PROVE FailureFlagged'
    <3>1. CASE row' = ComponentFailureFlag(row)
      <4> DEFINE b == row.retry \/ \E k \in Components : comp[k] = "failed"
      <4>1. row' = [row EXCEPT !.retry = b] BY <3>1 DEF ComponentFailureFlag
      <4> QED BY <2>o, <4>1
    <3> QED
      BY <2>1, <2>k, <3>1
         DEF ComponentTasks, ComponentStart, ComponentResult, ComponentsDone,
             ProcessComponents, GenerateReport, dbVars
  <2>m. ASSUME NEW c \in Chains, PaymentTask(c) PROVE FailureFlagged'
    BY <2>1, <2>m, <2>o
       DEF PaymentTask, UpdatePaymentStatus, PaymentSelect, PaymentCallSucceeds,
           PaymentCommit, PaymentCallFails
  <2>z. CASE \/ \E c \in Chains : Retry(c) \/ AppointmentTask(c) \/ FinaliseCompletion(c)
                                    \/ Crash(c)
             \/ MaybeHash \/ Age \/ LockExpires
             \/ UNCHANGED vars \/ \E x \in Chains : KeyOutlived(x)
    BY <2>1, <2>z
       DEF Retry, AppointmentTask, BookAppointment, FinaliseCompletion, Crash, MaybeHash, Age,
           LockExpires, KeyOutlived, vars, dbVars
  <2> QED
    BY <1>1, <2>u, <2>p, <2>g, <2>f, <2>k, <2>m, <2>z DEF Next, Task, FinaliseTask
<1> QED BY <1>1, <1>q, ResetsBy

\* A failed submission that has attempts left stays flagged for the periodic retry, whichever
\* task failed and whatever finalise_completion computes.
THEOREM FailuresAreFlagged == OneAtATime => (Spec => []FailedIsRetried)
<1> SUFFICES ASSUME OneAtATime PROVE Spec => []FailedIsRetried
  OBVIOUS
<1>1. Init => FailureFlagged BY DEF Init, FailureFlagged, NewRow
<1>2. Alone /\ FailureFlagged /\ [Next]_vars => FailureFlagged' BY FlagStep
<1>3. FailureFlagged => FailedIsRetried BY DEF FailureFlagged, FailedIsRetried
<1> QED BY <1>1, <1>2, <1>3, ChainIsAlone, PTL DEF Spec

-----------------------------------------------------------------------------
\* The hooks of the components.  Slow requests do not matter to these.

\* A hook that is running belongs to a component that has not succeeded.
RunningNotDone ==
  \A c \in Chains : \A k \in Components : work[c][k] = "busy" => comp[k] # "success"

\* Two steps set what a component's hook came to; no other one sends a hook off.
LEMMA HooksBy ==
  ASSUME ChainsTypeOK, [Next]_vars
  PROVE  \/ \E c \in Chains : \E k \in Components : ComponentStart(c, k) \/ ComponentResult(c, k)
         \/ /\ comp' = comp
            /\ \A c \in Chains : \A k \in Components :
                 work'[c][k] = "busy" => work[c][k] = "busy"
<1> DEFINE Keeps == \A c \in Chains : \A k \in Components :
                      work'[c][k] = "busy" => work[c][k] = "busy"
<1>1. ASSUME NEW c \in Chains, work' = [work EXCEPT ![c] = NothingDone] PROVE Keeps
  BY <1>1 DEF ChainsTypeOK, NothingDone
<1>2. ASSUME work' = work PROVE Keeps BY <1>2
<1>3. ASSUME NEW c \in Chains, NEW next, Return(c, next) \/ Raise(c) \/ FailTask(c, next)
      PROVE  Keeps
  BY <1>1, <1>2, <1>3 DEF Return, Raise, FailTask
<1>4. ASSUME NEW c \in Chains, NEW p, NEW copy, Goto(c, p, copy) PROVE Keeps
  BY <1>2, <1>4 DEF Goto
<1>5. ASSUME NEW e, OnPostSubmissionEvent(e) \/ \E c \in Chains : Send(c, e) PROVE Keeps
  BY <1>2, <1>5 DEF OnPostSubmissionEvent, Send, chainVars
<1>6. ASSUME NEW c \in Chains, Crash(c) PROVE comp' = comp /\ Keeps
  BY <1>6 DEF Crash, ChainsTypeOK, dbVars
<1>u. CASE UserEvent
  BY <1>u, <1>2, <1>5
     DEF UserEvent, Complete, StatusPoll, CosignComplete, AdminRetry, PaymentComplete,
         PaymentRepeat, SlowRequest, dbVars, chainVars
<1>p. ASSUME NEW c \in Chains, PreRegistrationTask(c) PROVE comp' = comp /\ Keeps
  BY <1>p, <1>3, <1>4
     DEF PreRegistrationTask, PreRegistration, PreRegistrationInvalidOptions,
         PreRegistrationValidOptions, PreRegistrationCall, PreRegistrationSave, preUnchanged
<1>g. ASSUME NEW c \in Chains, RegisterTask(c) PROVE comp' = comp /\ Keeps
  BY <1>g, <1>3, <1>4
     DEF RegisterTask, RegisterSubmission, RegisterMark, RegisterFails, RegisterCall,
         RegisterMarkPayments, RegisterSave, regUnchanged
<1>m. ASSUME NEW c \in Chains, PaymentTask(c) PROVE comp' = comp /\ Keeps
  BY <1>m, <1>3, <1>4
     DEF PaymentTask, UpdatePaymentStatus, PaymentSelect, PaymentCallSucceeds, PaymentCommit,
         PaymentCallFails, payUnchanged
<1>f. ASSUME NEW c \in Chains, AppointmentTask(c) \/ FinaliseTask(c) \/ Retry(c)
      PROVE  comp' = comp /\ Keeps
  BY <1>f, <1>2, <1>3, <1>4, <1>5
     DEF AppointmentTask, BookAppointment, FinaliseTask, FinaliseCompletion, FinaliseSave,
         Retry, dbVars
<1>k. ASSUME NEW c \in Chains, ComponentTasks(c)
      PROVE  \/ \E k \in Components : ComponentStart(c, k) \/ ComponentResult(c, k)
             \/ comp' = comp /\ Keeps
  BY <1>k, <1>3 DEF ComponentTasks, ComponentsDone, ProcessComponents, GenerateReport, dbVars
<1>h. CASE MaybeHash \/ Age \/ LockExpires \/ UNCHANGED vars \/ \E x \in Chains : KeyOutlived(x)
  BY <1>h, <1>2 DEF MaybeHash, Age, LockExpires, KeyOutlived, chainVars, dbVars, vars
<1> QED BY <1>u, <1>p, <1>g, <1>m, <1>f, <1>k, <1>h, <1>6 DEF Next, Task

\* A chain sends off the hooks that have not succeeded, and no other chain runs them.
LEMMA HooksStep ==
  ASSUME OneChain, TypeInv, RunningNotDone, [Next]_vars
  PROVE  /\ RunningNotDone'
         /\ \A k \in Components : comp[k] = "success" => comp'[k] = "success"
<1> USE DEF TypeInv
<1>1. ASSUME NEW c \in Chains, NEW k \in Components, ComponentStart(c, k)
      PROVE  /\ RunningNotDone'
             /\ \A j \in Components : comp[j] = "success" => comp'[j] = "success"
  <2>1. CASE ComponentAllowed(k)
    <3>1. comp[k] # "success" /\ comp' = [comp EXCEPT ![k] = "in_progress"]
      BY <1>1, <2>1 DEF ComponentStart, ComponentAllowed
    <3>2. work' = [work EXCEPT ![c][k] = "busy"] BY <1>1, <2>1 DEF ComponentStart
    <3> QED BY <3>1, <3>2 DEF RunningNotDone, ChainsTypeOK, DataTypeOK
  <2>2. CASE ~ComponentAllowed(k)
    <3>1. comp' = comp /\ work' = [work EXCEPT ![c][k] = "done"]
      BY <1>1, <2>2 DEF ComponentStart
    <3> QED BY <3>1 DEF RunningNotDone, ChainsTypeOK
  <2> QED BY <2>1, <2>2
<1>2. ASSUME NEW c \in Chains, NEW k \in Components, ComponentResult(c, k)
      PROVE  /\ RunningNotDone'
             /\ \A j \in Components : comp[j] = "success" => comp'[j] = "success"
  <2>1. PICK result \in {"success", "failed"} : comp' = [comp EXCEPT ![k] = result]
    BY <1>2 DEF ComponentResult
  <2>2. comp[k] # "success" /\ work' = [work EXCEPT ![c][k] = "done"]
    BY <1>2 DEF ComponentResult, RunningNotDone
  <2>3. \A d \in Chains : d = c BY DEF OneChain
  <2> QED BY <2>1, <2>2, <2>3 DEF RunningNotDone, ChainsTypeOK, DataTypeOK
<1>3. CASE comp' = comp /\ \A c \in Chains : \A k \in Components :
                               work'[c][k] = "busy" => work[c][k] = "busy"
  BY <1>3 DEF RunningNotDone
<1> QED BY <1>1, <1>2, <1>3, HooksBy

\* A component's pre-registration hook does not run again after it succeeded, when the group
\* is delivered again or the submission retried; two chains side by side could do that.
THEOREM HooksRunOnce == OneChain => (Spec => HookSuccessIsFinal)
<1> SUFFICES ASSUME OneChain PROVE Spec => HookSuccessIsFinal
  OBVIOUS
<1>1. Init => RunningNotDone BY DEF Init, RunningNotDone, NothingDone
<1>2. TypeInv /\ RunningNotDone /\ [Next]_vars => RunningNotDone' BY HooksStep
<1>3. TypeInv /\ RunningNotDone /\ [Next]_vars =>
        [\A k \in Components : comp[k] = "success" => comp'[k] = "success"]_vars
  BY HooksStep
<1> QED BY <1>1, <1>2, <1>3, TypeInvariant, PTL DEF Spec, HookSuccessIsFinal

=============================================================================
