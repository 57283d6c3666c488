----------------------------- MODULE EmailsProofs -----------------------------
(***************************************************************************)
(* Inductive invariants of Emails and the safety properties they imply,    *)
(* for any number of deliveries and whatever the bounds.                   *)
(***************************************************************************)
EXTENDS Emails, TLAPS

-----------------------------------------------------------------------------
\* Types

\* Only a mail that has recipients has a cosigner in cc.
DraftsConsistent == \A t \in Tasks : draft[t].copy => draft[t].mailed

TypeInv == TypeOK /\ DraftsConsistent

\* At first nothing is scheduled, read or counted.
LEMMA InitTypeInv == ASSUME ConstantsAssumption, Init PROVE TypeInv
<1>1. NewRow \in Row BY DEF NewRow, Row
<1>2. NoDraft \in Draft /\ ~NoDraft.copy BY DEF NoDraft, Draft
<1>3. /\ mails \in Nat /\ copied \in 0..mails /\ undone \in Nat /\ saves \in 0..MaxSaves
      /\ {failures, crashes} \subseteq 0..MaxTroubles
      /\ known \subseteq {"recipient", "cosigner"}
  BY DEF Init, ConstantsAssumption
<1>6. saver \in [Savers -> Saver] BY <1>1 DEF Init, Saver, NoSaver
<1>4. /\ pc \in [Tasks -> SendPCs] /\ draft \in [Tasks -> Draft]
      /\ asking \in [Requests -> AskPCs]
  BY <1>2 DEF Init, SendPCs, AskPCs
<1>5. DraftsConsistent BY <1>2 DEF Init, DraftsConsistent
<1>. QED BY <1>1, <1>3, <1>4, <1>5, <1>6 DEF Init, TypeInv, TypeOK

\* A mail that is rendered is a draft, and has the cosigner in cc only if it has recipients.
LEMMA RenderType ==
  ASSUME NEW r \in Row, TypeOK
  PROVE  Render(r) \in Draft /\ (Render(r).copy => Render(r).mailed)
BY DEF Render, Draft, Row, CosignerInCc, NoDraft, TypeOK

\* The flags of a row remain Booleans.
LEMMA FlagsType ==
  ASSUME NEW r \in Row, NEW d \in Draft
  PROVE  Flags(r, d) \in Row
BY DEF Flags, Row, Draft

\* What a saver holds is a copy of a row, and what it saves is a row.
LEMMA SaverType ==
  ASSUME TypeOK, NEW v \in Savers
  PROVE  /\ NoSaver \in Saver /\ NoSaver.pc = "idle"
         /\ saver[v].copy \in Row /\ Saved(v) \in Row
         /\ [pc |-> "read", copy |-> row] \in Saver
         /\ [saver[v] EXCEPT !.pc = "saving", !.copy = Saved(v)] \in Saver
<1>1. saver[v] \in Saver BY DEF TypeOK
<1>2. saver[v].copy \in Row BY <1>1 DEF Saver
<1>3. (saver[v].copy.signed \/ v \in Views) \in BOOLEAN BY <1>2 DEF Row
<1>4. Saved(v) \in Row BY <1>2, <1>3 DEF Saved, Row
<1>5. NewRow \in Row BY DEF NewRow, Row
<1>. QED BY <1>1, <1>2, <1>4, <1>5 DEF NoSaver, Saver, TypeOK

\* The counters of failures and of killed workers stay within their bound.
LEMMA TroublesType ==
  ASSUME ConstantsAssumption, TypeOK
  PROVE  /\ Fails => failures' \in 0..MaxTroubles
         /\ WorkerKilled => crashes' \in 0..MaxTroubles
<1>1. failures \in Nat /\ crashes \in Nat /\ MaxTroubles \in Nat
  BY DEF TypeOK, ConstantsAssumption
<1>. QED BY <1>1 DEF Fails, WorkerKilled

\* Requests, payments and whoever saves the whole submission preserve the types.
LEMMA OutsideTypeInv ==
  ASSUME ConstantsAssumption, TypeInv,
         Outside \/ ScheduleEmails \/ HookStep \/ \E v \in Savers : SaverStep(v)
  PROVE  TypeInv'
<1>. USE DEF ConstantsAssumption, TypeInv, TypeOK, DraftsConsistent, outside, history, bounds
<1>1. CASE FinaliseCompletion BY <1>1 DEF FinaliseCompletion
<1>2. CASE PaymentComplete BY <1>2 DEF PaymentComplete
<1>3. ASSUME NEW v \in Savers, ReadRow(v) PROVE TypeInv'
  <2>1. saver' \in [Savers -> Saver] BY <1>3, SaverType DEF ReadRow
  <2>. QED BY <1>3, <2>1 DEF ReadRow
<1>4. ASSUME NEW v \in Savers, SaveAll(v) PROVE TypeInv'
  <2>1. saver' = [saver EXCEPT ![v] = [saver[v] EXCEPT !.pc = "saving", !.copy = Saved(v)]]
    BY <1>4 DEF SaveAll
  <2>2. saver' \in [Savers -> Saver] BY <2>1, SaverType
  <2>. QED BY <1>4, <2>2 DEF SaveAll
<1>5. ASSUME NEW v \in Savers, SaverCommits(v) PROVE TypeInv'
  <2>1. saver' \in [Savers -> Saver] /\ row' \in Row
    BY <1>5, SaverType DEF SaverCommits, FullSave
  <2>. QED BY <1>5, <2>1 DEF SaverCommits, FullSave
<1>6. ASSUME NEW v \in Savers, SaverFails(v) PROVE TypeInv'
  <2>1. saver' \in [Savers -> Saver] BY <1>6, SaverType DEF SaverFails
  <2>. QED BY <1>6, <2>1, TroublesType DEF SaverFails
<1>7. CASE ChainFails BY <1>7, TroublesType DEF ChainFails
<1>8. CASE Crash
  <2>1. NoDraft \in Draft /\ ~NoDraft.copy BY DEF NoDraft, Draft
  <2>2. crashes' \in 0..MaxTroubles BY <1>8, TroublesType DEF Crash
  <2>3. ASSUME NEW v \in Savers, saver' = [saver EXCEPT ![v] = NoSaver]
        PROVE  saver' \in [Savers -> Saver]
    BY <2>3, SaverType
  <2>4. saver' \in [Savers -> Saver] BY <1>8, <2>3 DEF Crash
  <2>5. due' \in BOOLEAN BY <1>8 DEF Crash
  <2>6. hook' \in {"none", "queued", "attaching"} BY <1>8 DEF Crash
  <2>7. /\ pc' \in [Tasks -> SendPCs] /\ asking' \in [Requests -> AskPCs]
        /\ draft' \in [Tasks -> Draft] /\ DraftsConsistent'
    BY <1>8, <2>1 DEF Crash, SendPCs, AskPCs
  <2>. QED BY <1>8, <2>2, <2>4, <2>5, <2>6, <2>7 DEF Crash
<1>9. CASE ScheduleEmails BY <1>9 DEF ScheduleEmails, AskCosigner, SendPCs, AskPCs
<1>10. CASE OnConfirmationEmailSent BY <1>10 DEF OnConfirmationEmailSent
<1>11. CASE AttachEnds BY <1>11 DEF AttachEnds
<1>. QED BY <1>1, <1>2, <1>3, <1>4, <1>5, <1>6, <1>7, <1>8, <1>9, <1>10, <1>11
         DEF Outside, HookStep, SaverStep

\* The tasks preserve the types.
LEMMA TaskTypeInv ==
  ASSUME ConstantsAssumption, TypeInv,
         (\E s \in Requests : RequestStep(s)) \/ (\E t \in Tasks : TaskStep(t))
  PROVE  TypeInv'
<1>. USE DEF ConstantsAssumption, TypeInv, TypeOK, DraftsConsistent, outside, history, bounds,
             Fails, WorkerKilled
<1>1. ASSUME NEW s \in Requests, SendEmailCosigner(s) PROVE TypeInv'
  BY <1>1 DEF SendEmailCosigner, AskPCs
<1>2. ASSUME NEW s \in Requests, RequestSave(s) PROVE TypeInv'
  BY <1>2 DEF RequestSave, AskPCs, Row
<1>3. ASSUME NEW t \in Tasks, CountdownEnds(t) PROVE TypeInv'
  BY <1>3 DEF CountdownEnds, SendPCs
<1>4. ASSUME NEW t \in Tasks, SendConfirmationEmail(t) PROVE TypeInv'
  BY <1>4, RenderType DEF SendConfirmationEmail, SendPCs
<1>5. ASSUME NEW t \in Tasks, MailQueued(t) PROVE TypeInv'
  <2>1. (draft[t].mailed /\ PaymentRequired /\ paid) \in BOOLEAN OBVIOUS
  <2>. QED BY <1>5, <2>1 DEF MailQueued, SendPCs, Draft
<1>6. ASSUME NEW t \in Tasks, SendFails(t) PROVE TypeInv'
  <2>1. NoDraft \in Draft /\ ~NoDraft.copy BY DEF NoDraft, Draft
  <2>. QED BY <1>6, <2>1 DEF SendFails, SendPCs
<1>7. ASSUME NEW t \in Tasks, Commit(t) PROVE TypeInv'
  <2>1. NoDraft \in Draft /\ ~NoDraft.copy BY DEF NoDraft, Draft
  <2>2. row' \in Row BY <1>7, FlagsType DEF Commit
  <2>3. draft[t].mailed \in BOOLEAN /\ draft[t].copy \in BOOLEAN
    BY DEF Draft
  <2>4. mails' \in Nat /\ mails' >= mails
    BY <1>7, <2>3 DEF Commit
  <2>5. copied' \in 0..mails'
    BY <1>7, <2>3 DEF Commit
  <2>6. pc' \in [Tasks -> SendPCs] /\ crashes' \in 0..MaxTroubles
    BY <1>7 DEF Commit, SendPCs
  <2>7. draft' \in [Tasks -> Draft] /\ DraftsConsistent'
    BY <1>7, <2>1 DEF Commit
  <2>. QED BY <1>7, <2>2, <2>4, <2>5, <2>6, <2>7 DEF Commit
<1>. QED BY <1>1, <1>2, <1>3, <1>4, <1>5, <1>6, <1>7 DEF RequestStep, TaskStep

\* The types, and what they rest on, in every behaviour.
THEOREM TypeInvCorrect == Spec => []TypeInv
<1>1. Init => TypeInv BY ConstantsAssumption, InitTypeInv
<1>2. TypeInv /\ [Next]_vars => TypeInv'
  <2>. SUFFICES ASSUME TypeInv, [Next]_vars PROVE TypeInv' OBVIOUS
  <2>1. CASE Next BY <2>1, ConstantsAssumption, OutsideTypeInv, TaskTypeInv DEF Next
  <2>2. CASE UNCHANGED vars
    BY <2>2 DEF vars, TypeInv, TypeOK, DraftsConsistent
  <2>. QED BY <2>1, <2>2
<1>. QED BY <1>1, <1>2, PTL DEF Spec

\* The type invariant holds for any number of deliveries, saves, failures and crashes: no
\* more copies than mails.
THEOREM TypeCorrect == Spec => []TypeOK
<1>1. TypeInv => TypeOK BY DEF TypeInv
<1>. QED BY <1>1, TypeInvCorrect, PTL

-----------------------------------------------------------------------------
\* The row lock

\* Nobody writes the row but the one transaction that has it locked: what it read is still
\* what is there.
LockExclusive ==
  /\ \A t, u \in RowLock : t = u
  /\ Writers # {} => RowLock = {}

\* The mail about to be sent is due, and addressed as the row says.
LockedDrafts ==
  \A t \in RowLock :
    /\ NeedsMail(row, paid)
    /\ draft[t].cosigner = (draft[t].mailed /\ CosignerInCc(row))
    /\ draft[t].copy = (draft[t].cosigner /\ "cosigner" \in known)

\* Flags are set from a query: a payment was required, and has completed.
PaymentsRequired ==
  /\ paid => PaymentRequired
  /\ \A t \in Tasks : draft[t].flag => paid

LockInv == LockExclusive /\ LockedDrafts /\ PaymentsRequired

-----------------------------------------------------------------------------
\* Reasons for mails

Reasons == 1 + (IF paid THEN 1 ELSE 0) + undone

\* The payment completed after the flags were set: there will be one more mail.
Late ==
  \E t \in Tasks : pc[t] = "commit" /\ draft[t].mailed /\ paid /\ ~draft[t].flag

\* A reason is left for the mail that is due, and for the one after it.
MailsCounted ==
  /\ mails <= Reasons
  /\ NeedsMail(row, paid) => mails + 1 <= Reasons
  /\ Late => mails + 2 <= Reasons

\* A save that signed, or took back the flag, is left for the copy that is due.
CopiesCounted ==
  /\ copied <= undone
  /\ CosignerInCc(row) => copied + 1 <= undone

\* The flags of a row r, whoever holds it, mean mails.
RowMeansMails(r) ==
  /\ r.confirmed => mails > 0
  /\ r.cosignConfirmed /\ "cosigner" \in known => copied > 0

RowsMeanMails == RowMeansMails(row) /\ \A v \in Savers : RowMeansMails(saver[v].copy)

CountInv ==
  /\ TypeInv /\ LockInv
  /\ MailsCounted /\ CopiesCounted /\ RowsMeanMails /\ AttachedMailExists

\* At first one mail is due, for the completion.
LEMMA InitCountInv == ASSUME ConstantsAssumption, Init PROVE CountInv
<1>1. TypeInv BY InitTypeInv
<1>2. RowLock = {} BY DEF Init, RowLock
<1>3. LockInv
  BY <1>2 DEF Init, LockInv, LockExclusive, LockedDrafts, PaymentsRequired, NoDraft
<1>4. MailsCounted /\ CopiesCounted
  BY DEF Init, MailsCounted, CopiesCounted, Reasons, Late, CosignerInCc, NewRow
<1>5. RowsMeanMails /\ AttachedMailExists
  BY DEF Init, RowsMeanMails, RowMeansMails, AttachedMailExists, NewRow, NoSaver
<1>. QED BY <1>1, <1>3, <1>4, <1>5 DEF CountInv

\* Steps that leave the row and the counters as they are, and at most end a delivery, keep
\* all of it, as long as a hook only starts with a mail.
LEMMA QuietCountInv ==
  ASSUME CountInv, TypeInv', AttachedMailExists',
         UNCHANGED <<row, known, paid, mails, copied, undone>>,
         \A v \in Savers : saver'[v] = saver[v] \/ saver'[v] = NoSaver,
         \A t \in Tasks : pc'[t] \in {"sending", "commit"} =>
                           pc'[t] = pc[t] /\ draft'[t] = draft[t],
         \A t \in Tasks : draft'[t].flag => draft[t].flag
  PROVE  CountInv'
<1>1. RowLock' \subseteq RowLock /\ Writers' \subseteq Writers BY DEF RowLock, Writers, NoSaver
<1>2. Reasons' = Reasons /\ (Late' => Late) BY DEF Reasons, Late
<1>3. LockExclusive' BY <1>1 DEF CountInv, LockInv, LockExclusive
<1>7. RowMeansMails(NoSaver.copy) BY DEF RowMeansMails, NoSaver, NewRow
<1>4. LockedDrafts'
  <2>. SUFFICES ASSUME NEW t \in RowLock'
                PROVE  /\ NeedsMail(row, paid)'
                       /\ draft[t].cosigner' = (draft[t].mailed /\ CosignerInCc(row))'
                       /\ draft[t].copy' = (draft[t].cosigner /\ "cosigner" \in known)'
    BY DEF LockedDrafts
  <2>1. t \in RowLock /\ draft'[t] = draft[t] BY <1>1 DEF RowLock
  <2>. QED BY <2>1 DEF CountInv, LockInv, LockedDrafts, NeedsMail, CosignerInCc
<1>5. PaymentsRequired' BY DEF CountInv, LockInv, PaymentsRequired
<1>6. MailsCounted' /\ CopiesCounted'
  BY <1>2 DEF CountInv, MailsCounted, CopiesCounted
<1>8. RowsMeanMails'
  <2>1. ASSUME NEW v \in Savers PROVE RowMeansMails(saver[v].copy)'
    <3>1. CASE saver'[v] = saver[v]
      BY <3>1 DEF CountInv, RowsMeanMails, RowMeansMails
    <3>2. CASE saver'[v] = NoSaver
      BY <1>7, <3>2 DEF RowMeansMails
    <3>. QED BY <3>1, <3>2
  <2>. QED BY <2>1 DEF CountInv, RowsMeanMails, RowMeansMails
<1>. QED BY <1>8, <1>3, <1>4, <1>5, <1>6 DEF CountInv, LockInv

\* Scheduling, asking the cosigner, the hook, rollbacks and killed workers.
LEMMA QuietSteps ==
  ASSUME CountInv, TypeInv',
         \/ FinaliseCompletion \/ ScheduleEmails \/ HookStep \/ Crash \/ ChainFails
         \/ \E v \in Savers : SaverFails(v)
         \/ \E s \in Requests : SendEmailCosigner(s)
         \/ \E t \in Tasks : CountdownEnds(t) \/ SendFails(t)
  PROVE  CountInv'
<1>. USE DEF outside, history
<1>t. /\ pc \in [Tasks -> SendPCs] /\ draft \in [Tasks -> Draft] /\ ~NoDraft.flag
      /\ saver \in [Savers -> Saver]
  BY DEF CountInv, TypeInv, TypeOK, NoDraft
<1>a. AttachedMailExists BY DEF CountInv
<1>1. CASE FinaliseCompletion
  BY <1>1, <1>a, QuietCountInv DEF FinaliseCompletion, AttachedMailExists
<1>2. CASE OnConfirmationEmailSent
  <2>1. row.confirmed => mails > 0 BY DEF CountInv, RowsMeanMails, RowMeansMails
  <2>2. AttachedMailExists'
    BY <1>2, <2>1 DEF OnConfirmationEmailSent, HasMail, AttachedMailExists
  <2>. QED BY <1>2, <2>2, QuietCountInv DEF OnConfirmationEmailSent
<1>3. CASE AttachEnds
  BY <1>3, QuietCountInv DEF AttachEnds, AttachedMailExists
<1>4. ASSUME NEW s \in Requests, SendEmailCosigner(s) PROVE CountInv'
  BY <1>4, <1>a, QuietCountInv DEF SendEmailCosigner, AttachedMailExists
<1>5. CASE ScheduleEmails
  BY <1>5, <1>a, <1>t, QuietCountInv DEF ScheduleEmails, AttachedMailExists
<1>6. CASE Crash
  BY <1>6, <1>a, <1>t, QuietCountInv DEF Crash, AttachedMailExists
<1>7. ASSUME NEW t \in Tasks, CountdownEnds(t) PROVE CountInv'
  BY <1>7, <1>a, <1>t, QuietCountInv DEF CountdownEnds, AttachedMailExists
<1>8. ASSUME NEW t \in Tasks, SendFails(t) PROVE CountInv'
  BY <1>8, <1>a, <1>t, QuietCountInv DEF SendFails, AttachedMailExists
<1>9. ASSUME NEW v \in Savers, SaverFails(v) PROVE CountInv'
  BY <1>9, <1>a, <1>t, QuietCountInv DEF SaverFails, AttachedMailExists
<1>10. CASE ChainFails
  BY <1>10, <1>a, <1>t, QuietCountInv DEF ChainFails, AttachedMailExists
<1>. QED BY <1>1, <1>2, <1>3, <1>4, <1>5, <1>6, <1>7, <1>8, <1>9, <1>10 DEF HookStep

\* Without a delivery that holds the lock, nothing is in flight.
LEMMA UnlockedNotLate == ASSUME RowLock = {} PROVE ~Late
BY DEF Late, RowLock

\* A payment is a reason of its own, also if it comes after the flags were set.
LEMMA PaymentCountInv ==
  ASSUME CountInv, TypeInv', PaymentComplete PROVE CountInv'
<1>. USE DEF PaymentComplete, history
<1>1. RowLock' = RowLock BY DEF RowLock
<1>2. Reasons' = Reasons + 1 BY DEF Reasons, CountInv, TypeInv, TypeOK
<1>3. mails \in Nat /\ Reasons \in Nat
  BY DEF CountInv, TypeInv, TypeOK, Reasons
<1>4. LockInv'
  <2>1. LockExclusive' BY <1>1 DEF CountInv, LockInv, LockExclusive, Writers
  <2>2. LockedDrafts'
    BY <1>1 DEF CountInv, LockInv, LockedDrafts, NeedsMail, CosignerInCc
  <2>3. PaymentsRequired' BY DEF CountInv, LockInv, PaymentsRequired
  <2>. QED BY <2>1, <2>2, <2>3 DEF LockInv
<1>5. MailsCounted'
  <2>1. mails <= Reasons BY DEF CountInv, MailsCounted
  <2>2. Late' => mails + 1 <= Reasons
    <3>1. Late' => \E t \in Tasks : pc[t] = "commit" BY DEF Late
    <3>2. Late' => NeedsMail(row, paid)
      BY <3>1 DEF RowLock, CountInv, LockInv, LockedDrafts
    <3>. QED BY <3>2 DEF CountInv, MailsCounted
  <2>3. mails' = mails /\ mails' + 2 = (mails + 1) + 1 BY <1>3
  <2>4. mails' <= Reasons' /\ mails' + 1 <= Reasons' BY <1>2, <1>3, <2>1, <2>3
  <2>5. Late' => mails' + 2 <= Reasons' BY <1>2, <1>3, <2>2, <2>3
  <2>. HIDE DEF PaymentComplete
  <2>. QED BY <2>4, <2>5 DEF MailsCounted
<1>6. CopiesCounted' BY DEF CountInv, CopiesCounted, CosignerInCc
<1>7. RowsMeanMails' /\ AttachedMailExists'
  BY DEF CountInv, RowsMeanMails, RowMeansMails, AttachedMailExists
<1>. QED BY <1>4, <1>5, <1>6, <1>7 DEF CountInv

\* Reading the row for a later save.
LEMMA ReadCountInv ==
  ASSUME CountInv, TypeInv', NEW v \in Savers, ReadRow(v) PROVE CountInv'
<1>. USE DEF ReadRow, outside, history
<1>t. saver \in [Savers -> Saver] BY DEF CountInv, TypeInv, TypeOK
<1>1. RowLock' = RowLock /\ Reasons' = Reasons /\ Late' = Late BY DEF RowLock, Reasons, Late
<1>2. Writers' = Writers BY <1>t DEF Writers
<1>3. LockInv'
  BY <1>1, <1>2 DEF CountInv, LockInv, LockExclusive, LockedDrafts, PaymentsRequired, NeedsMail,
              CosignerInCc
<1>4. MailsCounted' /\ CopiesCounted'
  BY <1>1 DEF CountInv, MailsCounted, CopiesCounted, CosignerInCc, NeedsMail
<1>5. RowsMeanMails' /\ AttachedMailExists'
  <2>1. \A w \in Savers : saver'[w].copy = IF w = v THEN row ELSE saver[w].copy BY <1>t
  <2>. QED BY <2>1 DEF CountInv, RowsMeanMails, RowMeansMails, AttachedMailExists
<1>. QED BY <1>3, <1>4, <1>5 DEF CountInv

\* A view or a task locks the row only when no delivery has.
LEMMA SaveAllCountInv ==
  ASSUME CountInv, TypeInv', NEW v \in Savers, SaveAll(v) PROVE CountInv'
<1>. USE DEF SaveAll, outside, history
<1>t. saver \in [Savers -> Saver] /\ saver[v] \in Saver BY DEF CountInv, TypeInv, TypeOK
<1>1. RowLock = {} /\ RowLock' = {} /\ Reasons' = Reasons /\ ~Late'
  BY UnlockedNotLate DEF RowLock, Reasons, Late, Locked
<1>2. LockInv'
  BY <1>1 DEF CountInv, LockInv, LockExclusive, LockedDrafts, PaymentsRequired
<1>3. MailsCounted' /\ CopiesCounted'
  BY <1>1 DEF CountInv, MailsCounted, CopiesCounted, CosignerInCc, NeedsMail
<1>4. RowsMeanMails'
  <2>1. saver[v].copy \in Row BY <1>t DEF Saver
  <2>2. RowMeansMails(saver[v].copy) BY DEF CountInv, RowsMeanMails
  <2>3. /\ Saved(v).confirmed = saver[v].copy.confirmed
        /\ Saved(v).cosignConfirmed = saver[v].copy.cosignConfirmed
    BY <2>1 DEF Saved, Row
  <2>4. \A w \in Savers : saver'[w].copy = IF w = v THEN Saved(v) ELSE saver[w].copy
    BY <1>t DEF Saver
  <2>. QED BY <2>2, <2>3, <2>4 DEF CountInv, RowsMeanMails, RowMeansMails
<1>5. AttachedMailExists' BY DEF CountInv, AttachedMailExists
<1>. QED BY <1>2, <1>3, <1>4, <1>5 DEF CountInv

\* The flag of the request to the cosigner is of no consequence for the others.
LEMMA RequestCountInv ==
  ASSUME CountInv, TypeInv', NEW s \in Requests, RequestSave(s) PROVE CountInv'
<1>. USE DEF RequestSave, outside, history
<1>1. RowLock = {} /\ RowLock' = {} /\ Reasons' = Reasons /\ ~Late'
  BY UnlockedNotLate DEF RowLock, Reasons, Late, Locked
<1>2. row \in Row BY DEF CountInv, TypeInv, TypeOK
<1>3. LockInv'
  BY <1>1 DEF CountInv, LockInv, LockExclusive, LockedDrafts, PaymentsRequired, Locked
<1>4. MailsCounted' /\ CopiesCounted'
  BY <1>1, <1>2 DEF CountInv, MailsCounted, CopiesCounted, CosignerInCc, NeedsMail, Row
<1>5. RowsMeanMails' /\ AttachedMailExists'
  BY <1>2 DEF CountInv, RowsMeanMails, RowMeansMails, AttachedMailExists, Row
<1>. QED BY <1>3, <1>4, <1>5 DEF CountInv

\* A full save makes a mail, or a copy for the cosigner, due only if it counts as undoing.
LEMMA FullSaveCountInv ==
  ASSUME CountInv, TypeInv', NEW v \in Savers, NEW n \in Row, FullSave(v, n), RowLock = {},
         RowMeansMails(n)
  PROVE  CountInv'
<1>. USE DEF FullSave, outside
<1>1. RowLock' = {} /\ ~Late' BY UnlockedNotLate DEF RowLock, Late
<1>2. LockInv'
  BY <1>1 DEF CountInv, LockInv, LockExclusive, LockedDrafts, PaymentsRequired
<1>3. /\ mails \in Nat /\ copied \in Nat /\ undone \in Nat /\ Reasons \in Nat
      /\ row \in Row /\ paid \in BOOLEAN
  BY DEF CountInv, TypeInv, TypeOK, Reasons
<1>4. ASSUME TakesBack(n) \/ (n.signed /\ ~row.signed) PROVE MailsCounted' /\ CopiesCounted'
  <2>1. undone' = undone + 1 /\ Reasons' = Reasons + 1 BY <1>3, <1>4 DEF Reasons
  <2>2. mails <= Reasons /\ copied <= undone BY DEF CountInv, MailsCounted, CopiesCounted
  <2>3. mails' <= Reasons' /\ mails' + 1 <= Reasons' BY <1>3, <2>1, <2>2
  <2>4. copied' <= undone' /\ copied' + 1 <= undone' BY <1>3, <2>1, <2>2
  <2>. QED BY <1>1, <2>3, <2>4 DEF MailsCounted, CopiesCounted
<1>5. ASSUME ~(TakesBack(n) \/ (n.signed /\ ~row.signed)) PROVE MailsCounted' /\ CopiesCounted'
  <2>1. undone' = undone /\ Reasons' = Reasons BY <1>5 DEF Reasons
  <2>2. NeedsMail(n, paid) => NeedsMail(row, paid)
    BY <1>3, <1>5 DEF NeedsMail, TakesBack, Row
  <2>3. CosignerInCc(n) => CosignerInCc(row)
    BY <1>3, <1>5 DEF CosignerInCc, TakesBack, Row
  <2>4. MailsCounted'
    BY <1>1, <2>1, <2>2 DEF CountInv, MailsCounted, NeedsMail
  <2>5. CopiesCounted' BY <2>1, <2>3 DEF CountInv, CopiesCounted, CosignerInCc
  <2>. QED BY <2>4, <2>5
<1>6. RowsMeanMails' /\ AttachedMailExists'
  <2>1. saver \in [Savers -> Saver] BY DEF CountInv, TypeInv, TypeOK
  <2>2. \A w \in Savers : saver'[w].copy = IF w = v THEN NewRow ELSE saver[w].copy
    BY <2>1 DEF NoSaver
  <2>. QED BY <2>2 DEF CountInv, RowsMeanMails, RowMeansMails, AttachedMailExists, NewRow
<1>. QED BY <1>2, <1>4, <1>5, <1>6 DEF CountInv

\* The commit of a view or a task.
LEMMA SaveCountInv ==
  ASSUME CountInv, TypeInv', NEW v \in Savers, SaverCommits(v)
  PROVE  CountInv'
<1>1. saver[v].copy \in Row BY SaverType DEF CountInv, TypeInv
<1>2. RowLock = {} BY DEF SaverCommits, Writers, CountInv, LockInv, LockExclusive
<1>3. RowMeansMails(saver[v].copy) BY DEF CountInv, RowsMeanMails
<1>. QED BY <1>1, <1>2, <1>3, FullSaveCountInv DEF SaverCommits

\* A delivery takes the lock only if nobody has it and a mail is due, or it ends.
LEMMA SendCountInv ==
  ASSUME CountInv, TypeInv', NEW t \in Tasks, SendConfirmationEmail(t)
  PROVE  CountInv'
<1>. USE DEF SendConfirmationEmail, outside, history
<1>t. pc \in [Tasks -> SendPCs] /\ draft \in [Tasks -> Draft] BY DEF CountInv, TypeInv, TypeOK
<1>1. CASE Locked \/ ~NeedsMail(row, paid)
  BY <1>1, <1>t, QuietCountInv DEF CountInv, AttachedMailExists
<1>2. CASE ~Locked /\ NeedsMail(row, paid)
  <2>1. RowLock = {} /\ Writers = {} /\ Writers' = {} BY <1>2 DEF Locked, Writers
  <2>2. pc' = [pc EXCEPT ![t] = "sending"] /\ draft' = [draft EXCEPT ![t] = Render(row)]
    BY <1>2
  <2>3. RowLock' = {t} BY <1>t, <2>1, <2>2 DEF RowLock
  <2>4. ~Late' BY <1>t, <2>1, <2>2 DEF Late, RowLock
  <2>5. LockExclusive' BY <2>1, <2>3 DEF LockExclusive
  <2>6. /\ Render(row).cosigner = (Render(row).mailed /\ CosignerInCc(row))
        /\ Render(row).copy = (Render(row).cosigner /\ "cosigner" \in known)
        /\ ~Render(row).flag
    BY DEF Render, NoDraft, CosignerInCc, CountInv, TypeInv, TypeOK, Row
  <2>7. LockedDrafts'
    BY <1>t, <1>2, <2>2, <2>3, <2>6 DEF LockedDrafts, NeedsMail, CosignerInCc
  <2>8. PaymentsRequired' BY <1>t, <2>2, <2>6 DEF CountInv, LockInv, PaymentsRequired
  <2>9. MailsCounted' /\ CopiesCounted'
    BY <2>4 DEF CountInv, MailsCounted, CopiesCounted, Reasons, NeedsMail, CosignerInCc
  <2>10. RowsMeanMails' /\ AttachedMailExists'
    BY DEF CountInv, RowsMeanMails, RowMeansMails, AttachedMailExists
  <2>. QED BY <2>5, <2>7, <2>8, <2>9, <2>10 DEF CountInv, LockInv
<1>. QED BY <1>1, <1>2

\* The flag about the payment is set if the payment is there: nothing is late yet.
LEMMA QueuedCountInv ==
  ASSUME CountInv, TypeInv', NEW t \in Tasks, MailQueued(t)
  PROVE  CountInv'
<1>. USE DEF MailQueued, outside, history
<1>t. pc \in [Tasks -> SendPCs] /\ draft \in [Tasks -> Draft] BY DEF CountInv, TypeInv, TypeOK
<1>1. RowLock' = RowLock /\ RowLock = {t}
  BY <1>t DEF RowLock, CountInv, LockInv, LockExclusive
<1>2. /\ draft'[t].mailed = draft[t].mailed
      /\ draft'[t].cosigner = draft[t].cosigner
      /\ draft'[t].copy = draft[t].copy
      /\ draft'[t].flag = (draft[t].mailed /\ PaymentRequired /\ paid)
      /\ \A u \in Tasks : u # t => draft'[u] = draft[u]
  BY <1>t DEF Draft
<1>3. LockExclusive' BY <1>1 DEF CountInv, LockInv, LockExclusive, Writers
<1>4. LockedDrafts'
  BY <1>1, <1>2 DEF CountInv, LockInv, LockedDrafts, NeedsMail, CosignerInCc
<1>5. PaymentsRequired' BY <1>2 DEF CountInv, LockInv, PaymentsRequired
<1>6. ~Late'
  <2>. SUFFICES ASSUME NEW u \in Tasks, pc'[u] = "commit", draft'[u].mailed, paid',
                       ~draft'[u].flag
                PROVE  FALSE
    BY DEF Late
  <2>1. u = t BY <1>1 DEF RowLock
  <2>. QED BY <1>2, <2>1 DEF CountInv, LockInv, PaymentsRequired
<1>7. MailsCounted' /\ CopiesCounted'
  BY <1>6 DEF CountInv, MailsCounted, CopiesCounted, Reasons, NeedsMail, CosignerInCc
<1>8. RowsMeanMails' /\ AttachedMailExists'
  BY DEF CountInv, RowsMeanMails, RowMeansMails, AttachedMailExists
<1>. QED BY <1>3, <1>4, <1>5, <1>7, <1>8 DEF CountInv, LockInv

\* The mail that was due is sent.  One is still due only if the payment came late.
LEMMA CommitCountInv ==
  ASSUME CountInv, TypeInv', NEW t \in Tasks, Commit(t)
  PROVE  CountInv'
<1>. DEFINE d == draft[t]
<1>t. /\ pc \in [Tasks -> SendPCs] /\ draft \in [Tasks -> Draft]
      /\ d \in Draft /\ row \in Row /\ mails \in Nat /\ copied \in Nat
      /\ undone \in Nat /\ Reasons \in Nat
  BY DEF CountInv, TypeInv, TypeOK, Reasons
<1>c. /\ row' = Flags(row, d)
      /\ mails' = IF d.mailed THEN mails + 1 ELSE mails
      /\ copied' = IF d.copy THEN copied + 1 ELSE copied
      /\ draft' = [draft EXCEPT ![t] = NoDraft]
      /\ UNCHANGED <<known, paid, hook, saver, undone>>
      /\ pc[t] = "commit"
      /\ pc' = [pc EXCEPT ![t] = "idle"] \/ pc' = [pc EXCEPT ![t] = "queued"]
  BY DEF Commit, outside
<1>d. /\ NeedsMail(row, paid)
      /\ d.cosigner <=> d.mailed /\ CosignerInCc(row)
      /\ d.copy <=> d.cosigner /\ "cosigner" \in known
  BY <1>t, <1>c DEF RowLock, CountInv, LockInv, LockedDrafts, Draft
<1>1. RowLock = {t} /\ RowLock' = {} /\ Writers = {} /\ Writers' = {}
  BY <1>t, <1>c DEF RowLock, Writers, CountInv, LockInv, LockExclusive
<1>2. ~Late' BY <1>t, <1>c, <1>1 DEF Late, RowLock
<1>3. LockInv'
  <2>1. LockExclusive' /\ LockedDrafts' BY <1>c, <1>1 DEF LockExclusive, LockedDrafts
  <2>2. ~NoDraft.flag BY DEF NoDraft
  <2>3. PaymentsRequired' BY <1>t, <1>c, <2>2 DEF CountInv, LockInv, PaymentsRequired
  <2>. QED BY <2>1, <2>3 DEF LockInv
<1>4. /\ mails' >= mails /\ mails' <= mails + 1 /\ (d.mailed => mails' > 0)
      /\ copied' >= copied /\ copied' <= copied + 1 /\ (d.copy => copied' > 0)
  BY <1>t, <1>c
<1>n. mails \in Nat /\ mails' \in Nat /\ copied \in Nat /\ copied' \in Nat
  BY <1>t, <1>c
<1>r. undone \in Nat /\ Reasons \in Nat BY <1>t
<1>5. MailsCounted'
  <2>1. Reasons' = Reasons BY <1>c DEF Reasons
  <2>2. mails + 1 <= Reasons BY <1>d DEF CountInv, MailsCounted
  <2>3. mails' <= Reasons BY <1>n, <1>t, <1>4, <2>2
  <2>4. NeedsMail(row, paid)' => mails' + 1 <= Reasons
    <3>1. CASE ~d.mailed BY <1>c, <2>2, <3>1
    <3>2. CASE d.mailed
      <4>1. NeedsMail(row, paid)' => paid /\ ~d.flag
        BY <1>t, <1>c, <1>d, <3>2 DEF NeedsMail, Flags, CosignerInCc, Row, Draft
      <4>2. paid /\ ~d.flag => Late BY <1>c, <3>2 DEF Late
      <4>3. Late => mails + 2 <= Reasons BY DEF CountInv, MailsCounted
      <4>4. NeedsMail(row, paid)' => mails + 2 <= Reasons BY <4>1, <4>2, <4>3, Zenon
      <4>5. mails' <= mails + 1 BY <1>4
      <4>6. mails + 2 <= Reasons => mails' + 1 <= Reasons
        <5>. SUFFICES ASSUME NEW m \in Nat, NEW k \in Nat, NEW b \in Nat,
                             m <= k + 1, k + 2 <= b
                      PROVE  m + 1 <= b
          BY <1>n, <1>r, <4>5
        <5>. QED OBVIOUS
      <4>. QED BY <4>4, <4>6
    <3>. QED BY <3>1, <3>2
  <2>. QED BY <1>2, <2>1, <2>3, <2>4 DEF MailsCounted
<1>6. CopiesCounted'
  <2>1. CosignerInCc(row) => copied + 1 <= undone BY DEF CountInv, CopiesCounted
  <2>2. copied <= undone BY DEF CountInv, CopiesCounted
  <2>3. CosignerInCc(row)' => CosignerInCc(row) /\ ~d.copy
    BY <1>t, <1>c, <1>d DEF CosignerInCc, Flags, Row, Draft
  <2>4. copied' <= undone BY <1>n, <1>r, <1>c, <1>d, <1>4, <2>1, <2>2
  <2>5. CosignerInCc(row)' => copied' + 1 <= undone BY <1>c, <2>1, <2>3
  <2>. QED BY <1>c, <2>4, <2>5 DEF CopiesCounted
<1>7. RowsMeanMails'
  <2>1. RowMeansMails(row)'
    <3>1. row'.confirmed => mails' > 0
      BY <1>t, <1>c, <1>4 DEF Flags, Row
    <3>2. row'.cosignConfirmed /\ "cosigner" \in known => copied' > 0
      <4>1. row'.cosignConfirmed => row.cosignConfirmed \/ d.cosigner
        BY <1>t, <1>c DEF Flags, Row
      <4>2. row.cosignConfirmed /\ "cosigner" \in known => copied > 0
        BY DEF CountInv, RowsMeanMails, RowMeansMails
      <4>. QED BY <1>n, <1>d, <1>4, <4>1, <4>2
    <3>. QED BY <1>c, <3>1, <3>2 DEF RowMeansMails
  <2>2. ASSUME NEW v \in Savers PROVE RowMeansMails(saver[v].copy)'
    <3>1. RowMeansMails(saver[v].copy) BY DEF CountInv, RowsMeanMails
    <3>. QED BY <1>t, <1>c, <1>4, <3>1 DEF RowMeansMails
  <2>. QED BY <1>c, <1>1, <2>1, <2>2 DEF RowsMeanMails, RowMeansMails
<1>8. AttachedMailExists' BY <1>c, <1>n, <1>4 DEF CountInv, AttachedMailExists
<1>. QED BY <1>3, <1>5, <1>6, <1>7, <1>8 DEF CountInv

\* Every step keeps the count.
LEMMA CountInvInductive ==
  ASSUME ConstantsAssumption, CountInv, [Next]_vars PROVE CountInv'
<1>1. CASE Next
  <2>1. TypeInv'
    BY <1>1, OutsideTypeInv, TaskTypeInv DEF Next, CountInv
  <2>. QED
    BY <1>1, <2>1, QuietSteps, PaymentCountInv, ReadCountInv, SaveAllCountInv, RequestCountInv,
       SaveCountInv, SendCountInv, QueuedCountInv, CommitCountInv
    DEF Next, Outside, SaverStep, RequestStep, TaskStep
<1>2. CASE UNCHANGED vars
  <2>1. TypeInv' /\ AttachedMailExists'
    BY <1>2 DEF vars, CountInv, TypeInv, TypeOK, DraftsConsistent,
                AttachedMailExists
  <2>. QED BY <1>2, <2>1, QuietCountInv DEF vars
<1>. QED BY <1>1, <1>2

\* The count holds in every behaviour.
THEOREM CountCorrect == Spec => []CountInv
<1>1. Init => CountInv BY ConstantsAssumption, InitCountInv
<1>2. CountInv /\ [Next]_vars => CountInv' BY ConstantsAssumption, CountInvInductive
<1>. QED BY <1>1, <1>2, PTL DEF Spec

-----------------------------------------------------------------------------
\* What follows

\* No confirmation mail is sent twice: each has a reason of its own.
THEOREM NoMailTwice == Spec => []MailsHaveReasons
<1>1. CountInv => MailsHaveReasons BY DEF CountInv, MailsCounted, Reasons, MailsHaveReasons
<1>. QED BY <1>1, CountCorrect, PTL

\* The cosigner gets one copy per signature, or per save that undid the flag.
THEOREM OneCopyPerSignature == Spec => []CosignerCopiedOnce
<1>1. CountInv => CosignerCopiedOnce BY DEF CountInv, CopiesCounted, CosignerCopiedOnce
<1>. QED BY <1>1, CountCorrect, PTL

\* The flags of the row are about mails that were sent.
THEOREM FlagsAreAboutMails == Spec => []FlagsMeanMails
<1>1. CountInv => FlagsMeanMails
  BY DEF CountInv, RowsMeanMails, RowMeansMails, FlagsMeanMails
<1>. QED BY <1>1, CountCorrect, PTL

\* The backend never gets a mail that does not exist.
THEOREM AttachedMailsExist == Spec => []AttachedMailExists
<1>1. CountInv => AttachedMailExists BY DEF CountInv
<1>. QED BY <1>1, CountCorrect, PTL

===============================================================================
