---------------------------- MODULE SessionsProofs ----------------------------
(***************************************************************************)
(* Proofs about Sessions: what holds for any number of browsers, requests  *)
(* and other submissions, any limit and any bounds.                        *)
(***************************************************************************)
EXTENDS Sessions, FiniteSetTheorems, TLAPS

-----------------------------------------------------------------------------
\* Types

\* A request that is under way has all its fields.
LEMMA LiveIsRequest ==
  ASSUME TypeOK, NEW r \in Requests, Live(r)
  PROVE  req[r] \in Request
BY DEF TypeOK, Live

\* hash_identifying_attributes gives a value auth_info may have.
LEMMA HashType == ASSUME NEW v PROVE Hash(v) \in AuthValues
BY DEF Hash, AuthValues

\* The copy of a session with the submission put in or taken out, and with or without the login.
LEMMA WithType ==
  ASSUME TypeOK, NEW r \in Requests, Live(r), NEW has \in BOOLEAN
  PROVE  /\ With(r, has) \in Session /\ (With(r, has).has <=> has)
         /\ LoggedOut(With(r, has)) \in Session /\ (LoggedOut(With(r, has)).has <=> has)
<1>1. req[r].sess \in Session
  BY LiveIsRequest DEF Request
<1> QED
  BY <1>1 DEF With, LoggedOut, Session

\* The update of the list: of one session, to what is saved.
LEMMA SaveListSaves ==
  ASSUME TypeOK, NEW r \in Requests, Live(r), NEW saved \in Session, SaveList(r, saved)
  PROVE  /\ stored' \in [Browsers -> Session]
         /\ stored'[req[r].b] = saved
         /\ \A b \in Browsers \ {req[r].b} : stored'[b] = stored[b]
<1>1. req[r].b \in Browsers
  BY LiveIsRequest DEF Request
<1> QED
  BY <1>1 DEF SaveList, TypeOK

\* What is left of a request that has done its work.
LEMMA EndsKeeps ==
  ASSUME TypeOK, NEW r \in Requests, Live(r), NEW kept \in Session, Ends(r, kept)
  PROVE  /\ req' \in [Requests -> {Idle} \cup Request]
         /\ \A s \in Requests \ {r} : req'[s] = req[s]
         /\ req'[r].pc = "done" /\ req'[r].b = req[r].b /\ req'[r].sess = kept
         /\ req'[r].kind = IF req[r].kind = "create" THEN "create" ELSE "other"
<1> DEFINE new == [pc |-> "done", kind |-> IF req[r].kind = "create" THEN "create" ELSE "other",
                   b |-> req[r].b, sess |-> kept, copy |-> NewRow]
<1>1. NewRow \in Row
  BY DEF NewRow, Row
<1>2. new \in Request
  BY <1>1, LiveIsRequest DEF Request, Kinds
<1>3. req' = [req EXCEPT ![r] = new]
  BY DEF Ends
<1>4. req'[r] = new
  BY <1>3 DEF TypeOK
<1>5. req' \in [Requests -> {Idle} \cup Request] /\ \A s \in Requests \ {r} : req'[s] = req[s]
  <2> HIDE DEF new
  <2> QED BY <1>2, <1>3 DEF TypeOK
<1> QED
  BY <1>4, <1>5

\* What is left of a request that has taken the submission out of its session.
LEMMA RemovedKeeps ==
  ASSUME TypeOK, NEW r \in Requests, Live(r), NEW kept \in Session,
         req' = [req EXCEPT ![r].sess = kept, ![r].pc = "removed"]
  PROVE  /\ req' \in [Requests -> {Idle} \cup Request]
         /\ \A s \in Requests \ {r} : req'[s] = req[s]
         /\ req'[r].pc = "removed" /\ req'[r].b = req[r].b /\ req'[r].sess = kept
         /\ req'[r].kind = req[r].kind /\ req'[r].copy = req[r].copy
<1> DEFINE new == [req[r] EXCEPT !.sess = kept, !.pc = "removed"]
<1>1. req[r] \in Request
  BY LiveIsRequest
<1>2. new \in Request
  BY <1>1 DEF Request
<1>3. req' = [req EXCEPT ![r] = new]
  BY DEF TypeOK
<1>4. /\ new.pc = "removed" /\ new.b = req[r].b /\ new.sess = kept
      /\ new.kind = req[r].kind /\ new.copy = req[r].copy
  BY <1>1 DEF Request
<1>5. /\ req' \in [Requests -> {Idle} \cup Request] /\ \A s \in Requests \ {r} : req'[s] = req[s]
      /\ req'[r] = new
  <2> HIDE DEF new
  <2> QED BY <1>2, <1>3 DEF TypeOK
<1> QED
  BY <1>4, <1>5

\* The beginning of a request.
LEMMA BeginIs ==
  ASSUME TypeOK, NEW r \in Requests, NEW b \in Browsers, NEW kind \in Kinds,
         NEW pc \in {"begun", "refused", "done"}, NEW copy \in Row,
         Begin(r, b, kind, pc, stored[b], copy)
  PROVE  /\ TypeOK'
         /\ ~Live(r) /\ Live(r)'
         /\ \A s \in Requests \ {r} : req'[s] = req[s]
         /\ req'[r].pc = pc /\ req'[r].kind = kind /\ req'[r].b = b
         /\ req'[r].sess = stored[b] /\ req'[r].copy = copy
         /\ UNCHANGED <<stored, formVars, row, auth, links, statusUrl, hashTasks, history,
                        bounds>>
<1> DEFINE new == [pc |-> pc, kind |-> kind, b |-> b, sess |-> stored[b], copy |-> copy]
<1>1. new \in Request
  BY DEF TypeOK, Request
<1>2. req' = [req EXCEPT ![r] = new]
  BY DEF Begin
<1>3. req' \in [Requests -> {Idle} \cup Request] /\ req'[r] = new
      /\ \A s \in Requests \ {r} : req'[s] = req[s]
  <2> HIDE DEF new
  <2> QED BY <1>1, <1>2 DEF TypeOK
<1>4. TypeOK'
  BY <1>3 DEF TypeOK, Begin, formVars, history, bounds
<1>5. Live(r)'
  BY <1>3 DEF Live, Idle
<1> QED
  BY <1>3, <1>4, <1>5 DEF Begin

\* How requests begin: their kinds, states and copies.
LEMMA BeginsAs ==
  ASSUME TypeOK, NEW r \in Requests, RequestBegins(r)
  PROVE  \E b \in Browsers, kind \in Kinds, pc \in {"begun", "refused", "done"}, copy \in Row :
           /\ Begin(r, b, kind, pc, stored[b], copy)
           /\ kind = "create" => b \in Owners /\ ~row.created
           /\ kind = "resume" => b \in Owners /\ TokenParts \in links
           /\ kind = "status" => row.completed > 0 /\ statusUrl[b] = TokenParts
           /\ kind = "otp" => b \in Cosigners /\ completions > 0
           /\ kind \in {"suspend", "complete", "cosign", "logout"} =>
                stored[b].has /\ row.created /\ copy = row
           /\ kind = "suspend" => row.completed = 0
           /\ kind = "cosign" => row.completed > 0
           /\ kind = "complete" /\ pc = "begun" => ~LimitReached
<1>1. PICK b \in Browsers :
        \/ BeginCreate(r, b)
        \/ \E kind \in {"suspend", "complete", "cosign"} : BeginWork(r, b, kind)
        \/ BeginLogout(r, b)
        \/ BeginResume(r, b)
        \/ BeginStatus(r, b)
        \/ BeginOTP(r, b)
        \/ BeginOther(r, b)
  BY DEF RequestBegins
<1>2. NewRow \in Row /\ row \in Row
  BY DEF NewRow, Row, TypeOK
<1>3. CASE BeginCreate(r, b)
  BY <1>2, <1>3 DEF BeginCreate, Kinds
<1>4. ASSUME NEW kind \in {"suspend", "complete", "cosign"}, BeginWork(r, b, kind)
      PROVE  /\ kind \in Kinds /\ stored[b].has /\ row.created
             /\ Begin(r, b, kind, IF active THEN "begun" ELSE "refused", stored[b], row)
             /\ kind = "suspend" => row.completed = 0
             /\ kind = "cosign" => row.completed > 0
             /\ active => ~LimitReached
  BY <1>4 DEF BeginWork, Owns, Kinds
<1>5. CASE \E kind \in {"suspend", "complete", "cosign"} : BeginWork(r, b, kind)
  <2>1. PICK kind \in {"suspend", "complete", "cosign"} : BeginWork(r, b, kind)
    BY <1>5
  <2>2. CASE active
    BY <1>2, <1>4, <2>1, <2>2
  <2>3. CASE ~active
    BY <1>2, <1>4, <2>1, <2>3
  <2> QED
    BY <2>2, <2>3
<1>6. CASE BeginLogout(r, b)
  BY <1>2, <1>6 DEF BeginLogout, Owns, Kinds
<1>7. CASE BeginResume(r, b)
  BY <1>2, <1>7 DEF BeginResume, MaySee, Kinds
<1>8. CASE BeginStatus(r, b)
  BY <1>2, <1>8 DEF BeginStatus, Kinds
<1>9. CASE BeginOTP(r, b)
  BY <1>2, <1>9 DEF BeginOTP, Kinds
<1>10. CASE BeginOther(r, b)
  BY <1>2, <1>10 DEF BeginOther, Kinds
<1> QED
  BY <1>1, <1>3, <1>5, <1>6, <1>7, <1>8, <1>9, <1>10

\* What a request does next keeps the types; other requests and other sessions are left alone.
LEMMA GoesOnType ==
  ASSUME ConstantsAssumption, TypeOK, NEW r \in Requests, RequestGoesOn(r)
  PROVE  /\ TypeOK'
         /\ Live(r)
         /\ \A s \in Requests \ {r} : req'[s] = req[s]
         /\ Live(r)' => req'[r].b = req[r].b
         /\ \A b \in Browsers \ {req[r].b} : stored'[b] = stored[b]
<1> DEFINE Rest == /\ \A s \in Requests \ {r} : req'[s] = req[s]
                   /\ Live(r)' => req'[r].b = req[r].b
                   /\ \A b \in Browsers \ {req[r].b} : stored'[b] = stored[b]
           Parts == /\ stored' \in [Browsers -> Session]
                    /\ req' \in [Requests -> {Idle} \cup Request]
<1>1. Live(r)
  BY DEF RequestGoesOn, Create, Refuse, Suspend, Resume, PutBack, Verify, Cosign, Logout,
         LogoutHash, CompleteLogout, CompleteSave, Finish, Killed, At
<1>2. req[r] \in Request
  BY <1>1, LiveIsRequest
<1>3. /\ req[r].b \in Browsers
      /\ req[r].sess \in Session
      /\ req[r].copy \in Row
  BY <1>2 DEF Request
<1>4. ASSUME NEW has \in BOOLEAN, NEW saved, NEW kept, SaveList(r, saved), Ends(r, kept),
             saved \in {With(r, has), LoggedOut(With(r, has))},
             kept \in {With(r, has), LoggedOut(With(r, has))}
      PROVE  Rest /\ Parts
  BY <1>1, <1>4, WithType, SaveListSaves, EndsKeeps
<1>5. ASSUME Create(r) PROVE TypeOK' /\ Rest
  <2>1. Rest /\ Parts
    BY <1>4, <1>5 DEF Create
  <2> HIDE DEF Rest
  <2> QED
    BY <1>1, <1>5, <2>1 DEF Create, TypeOK, formVars, history, bounds, Row, AuthValues
<1>6. ASSUME Refuse(r) PROVE TypeOK' /\ Rest
  <2>1. Rest /\ Parts
    BY <1>4, <1>6 DEF Refuse
  <2> HIDE DEF Rest
  <2> QED
    BY <1>1, <1>6, <2>1 DEF Refuse, TypeOK, formVars, bounds
<1>7. ASSUME Suspend(r) PROVE TypeOK' /\ Rest
  <2>1. Rest /\ Parts
    BY <1>1, <1>3, <1>7, EndsKeeps DEF Suspend, TypeOK
  <2>2. suspensions' \in 0..MaxSuspensions /\ suspensions' \in Nat
    BY <1>7 DEF Suspend, TypeOK, ConstantsAssumption
  <2>3. row' \in Row
    BY <1>3, <1>7, <2>2 DEF Suspend, Row
  <2>4. auth' \in AuthValues
    BY <1>7, HashType DEF Suspend
  <2>5. links' \subseteq Nat \X Nat
    BY <1>7, <2>3 DEF Suspend, TypeOK, Row
  <2> HIDE DEF Rest
  <2> QED
    BY <1>1, <1>7, <2>1, <2>2, <2>3, <2>4, <2>5 DEF Suspend, TypeOK, formVars
<1>8. ASSUME Resume(r) PROVE TypeOK' /\ Rest
  <2>1. Rest /\ Parts
    BY <1>4, <1>8 DEF Resume
  <2> HIDE DEF Rest
  <2> QED
    BY <1>1, <1>8, <2>1 DEF Resume, TypeOK, formVars, history, bounds, AuthValues
<1>9. ASSUME PutBack(r) PROVE TypeOK' /\ Rest
  <2>1. Rest /\ Parts
    BY <1>4, <1>9 DEF PutBack
  <2> HIDE DEF Rest
  <2> QED
    BY <1>1, <1>3, <1>9, <2>1 DEF PutBack, TypeOK, formVars, bounds
<1>10. ASSUME Verify(r) PROVE TypeOK' /\ Rest
  <2>1. Rest /\ Parts
    BY <1>4, <1>10 DEF Verify
  <2> HIDE DEF Rest
  <2> QED
    BY <1>1, <1>3, <1>10, <2>1 DEF Verify, TypeOK, formVars, bounds
<1>11. ASSUME Cosign(r) PROVE TypeOK' /\ Rest
  <2>1. Rest /\ Parts
    BY <1>4, <1>11 DEF Cosign
  <2>2. row' \in Row
    BY <1>3, <1>11 DEF Cosign, Row
  <2> HIDE DEF Rest
  <2> QED
    BY <1>1, <1>11, <2>1, <2>2 DEF Cosign, TypeOK, formVars, history, bounds
<1>12. ASSUME Logout(r) PROVE TypeOK' /\ Rest
  <2>1. Rest /\ Parts
    BY <1>1, <1>12, WithType, SaveListSaves, RemovedKeeps DEF Logout
  <2> HIDE DEF Rest
  <2> QED
    BY <1>1, <1>12, <2>1 DEF Logout, TypeOK, formVars, bounds
<1>13. ASSUME LogoutHash(r) PROVE TypeOK' /\ Rest
  <2>1. Rest /\ Parts
    BY <1>1, <1>3, <1>13, EndsKeeps DEF LogoutHash, TypeOK
  <2>2. auth' \in AuthValues
    BY <1>13, HashType DEF LogoutHash, TypeOK
  <2> HIDE DEF Rest
  <2> QED
    BY <1>1, <1>13, <2>1, <2>2 DEF LogoutHash, TypeOK, formVars, history, bounds
<1>14. ASSUME CompleteLogout(r) PROVE TypeOK' /\ Rest
  <2>1. Rest /\ Parts
    BY <1>1, <1>14, WithType, SaveListSaves, RemovedKeeps DEF CompleteLogout
  <2> HIDE DEF Rest
  <2> QED
    BY <1>1, <1>14, <2>1 DEF CompleteLogout, TypeOK, formVars, history, bounds
<1>15. ASSUME CompleteSave(r) PROVE TypeOK' /\ Rest
  <2>1. Rest /\ Parts
    BY <1>4, <1>15 DEF CompleteSave
  <2>2. completions' \in 0..MaxCompletions /\ completions' \in Nat
    BY <1>15 DEF CompleteSave, TypeOK, ConstantsAssumption
  <2>3. row' \in Row
    BY <1>3, <1>15, <2>2 DEF CompleteSave, Row
  <2>4. statusUrl' \in [Browsers -> Nat \X Nat]
    BY <1>3, <1>15, <2>3 DEF CompleteSave, TypeOK, Row
  <2>5. counter' \in Nat
    BY <1>15 DEF CompleteSave, TypeOK
  <2>6. completer' \cup putBack' \cup overlapped' \subseteq Browsers
    BY <1>3, <1>15 DEF CompleteSave, TypeOK
  <2> HIDE DEF Rest
  <2> QED
    BY <1>1, <1>15, <2>1, <2>2, <2>3, <2>4, <2>5, <2>6 DEF CompleteSave, TypeOK
<1>16. ASSUME Finish(r) PROVE TypeOK' /\ Rest
  <2>1. Rest /\ Parts
    BY <1>3, <1>16 DEF Finish, TypeOK, Live
  <2>2. cutOff' \in BOOLEAN
    BY <1>16 DEF Finish, TypeOK
  <2> HIDE DEF Rest
  <2> QED
    BY <1>1, <1>16, <2>1, <2>2 DEF Finish, TypeOK, formVars, bounds
<1>17. ASSUME Killed(r) PROVE TypeOK' /\ Rest
  <2>1. Rest /\ Parts
    BY <1>3, <1>17 DEF Killed, TypeOK, Live
  <2>2. cutOff' \in BOOLEAN
    BY <1>17 DEF Killed, TypeOK, At
  <2> HIDE DEF Rest
  <2> QED
    BY <1>1, <1>17, <2>1, <2>2 DEF Killed, TypeOK, formVars, bounds
<1>18. TypeOK' /\ Rest
  <2> HIDE DEF Rest, Parts
  <2> QED
    BY <1>5, <1>6, <1>7, <1>8, <1>9, <1>10, <1>11, <1>12, <1>13, <1>14, <1>15, <1>16, <1>17
       DEF RequestGoesOn
<1> QED
  BY <1>1, <1>18

\* Every step keeps the types.
LEMMA TypeStep ==
  ASSUME ConstantsAssumption, TypeOK, [Next]_vars
  PROVE  TypeOK'
<1>1. CASE UNCHANGED vars
  BY <1>1 DEF TypeOK, vars
<1>2. ASSUME NEW b \in Browsers, Login(b) PROVE TypeOK'
  <2>1. stored' \in [Browsers -> Session]
    BY <1>2 DEF Login, TypeOK, Session
  <2> QED
    BY <1>2, <2>1 DEF Login, TypeOK, formVars, history, bounds
<1>3. CASE ToggleForm
  BY <1>3 DEF ToggleForm, TypeOK, history, bounds
<1>4. ASSUME NEW o \in Others, OtherBegins(o) \/ OtherCompletes(o) PROVE TypeOK'
  BY <1>4 DEF OtherBegins, OtherCompletes, TypeOK, history, bounds
<1>5. ASSUME NEW r \in Requests, RequestBegins(r) PROVE TypeOK'
  BY <1>5, BeginsAs, BeginIs
<1>6. ASSUME NEW r \in Requests, RequestGoesOn(r) PROVE TypeOK'
  BY <1>6, GoesOnType
<1>7. CASE HashTask
  BY <1>7, HashType DEF HashTask, TypeOK, formVars, history, bounds
<1> QED
  BY <1>1, <1>2, <1>3, <1>4, <1>5, <1>6, <1>7 DEF Next

\* The initial state has the types.
LEMMA InitType == Init => TypeOK
<1> SUFFICES ASSUME Init PROVE TypeOK
  OBVIOUS
<1>1. stored \in [Browsers -> Session]
  BY DEF Init, Session
<1>2. req \in [Requests -> {Idle} \cup Request]
  BY DEF Init
<1>3. row \in Row /\ auth \in AuthValues
  BY DEF Init, Row, NewRow, AuthValues
<1>4. links \subseteq Nat \X Nat /\ statusUrl \in [Browsers -> Nat \X Nat]
  BY DEF Init
<1>5. completions \in 0..MaxCompletions /\ suspensions \in 0..MaxSuspensions
  BY ConstantsAssumption DEF Init, ConstantsAssumption
<1>6. /\ others \subseteq Others /\ {active, hashTasks, cutOff} \subseteq BOOLEAN
      /\ counter \in Nat /\ completer \cup putBack \cup overlapped \subseteq Browsers
  BY DEF Init
<1> QED
  BY <1>1, <1>2, <1>3, <1>4, <1>5, <1>6 DEF TypeOK

\* Types of the state: sessions, requests with their copies, the submission and the form.
THEOREM TypeCorrect == Spec => []TypeOK
<1>1. Init => TypeOK
  BY InitType
<1>2. TypeOK /\ [Next]_vars => TypeOK'
  BY TypeStep, ConstantsAssumption
<1> QED
  BY <1>1, <1>2, PTL DEF Spec

-----------------------------------------------------------------------------
\* Who is entitled to the submission

\* Its owner and, once it was completed, who has to cosign it.
Entitled(b) == b \in Owners \/ (b \in Cosigners /\ completions > 0)

\* Requests that can put the submission in a session, or have it in their copy of the session,
\* come from who is entitled to it, and so did the one that got a status URL.
EntitledAct ==
  /\ \A r \in Requests :
       Live(r) => /\ req[r].kind # "other" \/ req[r].sess.has => Entitled(req[r].b)
                  /\ req[r].kind \in {"create", "resume"} => req[r].b \in Owners
  /\ \A b \in Browsers : statusUrl[b][1] > 0 => Entitled(b)

\* Who is entitled remains so.
LEMMA EntitledStays ==
  ASSUME TypeOK, ConstantsAssumption, completions' = completions \/ completions' = completions + 1,
         NEW b, Entitled(b)
  PROVE  Entitled(b)'
<1>1. completions \in Nat
  BY DEF TypeOK, ConstantsAssumption
<1> QED
  BY <1>1 DEF Entitled

\* What a request has in its session is what it had, or its kind puts it there.
LEMMA GoesOnHas ==
  ASSUME TypeOK, NEW r \in Requests, RequestGoesOn(r)
  PROVE  /\ Live(r)' =>
              /\ req'[r].kind \in {req[r].kind, "other"}
              /\ req'[r].sess.has => req[r].sess.has \/ req[r].kind # "other"
         /\ stored'[req[r].b].has =>
              stored[req[r].b].has \/ req[r].sess.has \/ req[r].kind # "other"
<1>1. Live(r)
  BY DEF RequestGoesOn, Create, Refuse, Suspend, Resume, PutBack, Verify, Cosign, Logout,
         LogoutHash, CompleteLogout, CompleteSave, Finish, Killed, At
<1>2. req[r] \in Request
  BY <1>1, LiveIsRequest
<1>3. CASE Create(r) \/ Resume(r) \/ PutBack(r) \/ Verify(r)
  <2>1. req[r].kind # "other"
    BY <1>3 DEF Create, Resume, PutBack, Verify, At
  <2>2. req'[r].kind \in {req[r].kind, "other"}
    BY <1>1, <1>3, WithType, EndsKeeps DEF Create, Resume, PutBack, Verify
  <2> QED
    BY <2>1, <2>2
<1> DEFINE out == With(r, FALSE)
           gone == LoggedOut(out)
<1>8. out \in Session /\ ~out.has /\ gone \in Session /\ ~gone.has
  BY <1>1, WithType
<1> HIDE DEF out, gone
<1>4. CASE Refuse(r) \/ Cosign(r) \/ CompleteSave(r)
  <2>1. \/ SaveList(r, out) /\ Ends(r, out)
        \/ SaveList(r, gone) /\ Ends(r, gone)
    BY <1>4 DEF Refuse, Cosign, CompleteSave, out, gone
  <2> QED
    BY <1>1, <1>8, <2>1, EndsKeeps, SaveListSaves
<1>5. CASE Logout(r) \/ CompleteLogout(r)
  <2>1. SaveList(r, out) /\ req' = [req EXCEPT ![r].sess = gone, ![r].pc = "removed"]
    BY <1>5 DEF Logout, CompleteLogout, out, gone
  <2> QED
    BY <1>1, <1>8, <2>1, RemovedKeeps, SaveListSaves
<1>6. CASE Suspend(r) \/ LogoutHash(r)
  <2>1. req[r].sess \in Session
    BY <1>2 DEF Request
  <2> QED
    BY <1>1, <1>6, <2>1, EndsKeeps DEF Suspend, LogoutHash
<1>7. CASE Finish(r) \/ Killed(r)
  <2>1. req[r].b \in Browsers
    BY <1>2 DEF Request
  <2> QED
    BY <1>7, <2>1 DEF Finish, Killed, TypeOK, Live
<1> QED
  BY <1>3, <1>4, <1>5, <1>6, <1>7 DEF RequestGoesOn

\* Every step keeps the submission with who is entitled to it.
LEMMA EntitledStep ==
  ASSUME ConstantsAssumption, TypeOK, EntitledAct, OnlyEntitledHaveIt, [Next]_vars
  PROVE  (EntitledAct /\ OnlyEntitledHaveIt)'
<1>1. ASSUME UNCHANGED <<req, statusUrl, completions>>,
             \A b \in Browsers : stored'[b].has = stored[b].has
      PROVE  (EntitledAct /\ OnlyEntitledHaveIt)'
  BY <1>1 DEF EntitledAct, OnlyEntitledHaveIt, Entitled, Live
<1>2. ASSUME NEW b \in Browsers, Login(b) PROVE (EntitledAct /\ OnlyEntitledHaveIt)'
  <2>1. \A c \in Browsers : stored'[c].has = stored[c].has
    BY <1>2 DEF Login, TypeOK, Session
  <2> QED
    BY <1>1, <1>2, <2>1 DEF Login, bounds
<1>3. CASE ToggleForm \/ HashTask \/ UNCHANGED vars
             \/ \E o \in Others : OtherBegins(o) \/ OtherCompletes(o)
  BY <1>1, <1>3 DEF ToggleForm, HashTask, OtherBegins, OtherCompletes, bounds, vars
<1>4. ASSUME NEW r \in Requests, RequestBegins(r) PROVE (EntitledAct /\ OnlyEntitledHaveIt)'
  <2>1. PICK b \in Browsers, kind \in Kinds, pc \in {"begun", "refused", "done"}, copy \in Row :
          /\ Begin(r, b, kind, pc, stored[b], copy)
          /\ kind = "create" => b \in Owners
          /\ kind = "resume" => b \in Owners
          /\ kind = "status" => row.completed > 0 /\ statusUrl[b] = TokenParts
          /\ kind = "otp" => b \in Cosigners /\ completions > 0
          /\ kind \in {"suspend", "complete", "cosign", "logout"} => stored[b].has
    BY <1>4, BeginsAs
  <2>2. /\ \A s \in Requests \ {r} : req'[s] = req[s]
        /\ req'[r].kind = kind /\ req'[r].b = b /\ req'[r].sess = stored[b]
        /\ stored' = stored /\ statusUrl' = statusUrl /\ completions' = completions
    BY <2>1, BeginIs DEF bounds
  <2>3. kind # "other" \/ stored[b].has => Entitled(b)
    <3>1. kind = "status" => statusUrl[b][1] > 0
      BY <2>1 DEF TokenParts
    <3> QED
      BY <2>1, <3>1 DEF OnlyEntitledHaveIt, EntitledAct, Entitled, Kinds
  <2>4. \A s \in Requests \ {r} : Live(s)' <=> Live(s)
    BY <2>2 DEF Live
  <2>5. \A c : Entitled(c)' <=> Entitled(c)
    BY <2>2 DEF Entitled
  <2> QED
    BY <2>1, <2>2, <2>3, <2>4, <2>5 DEF EntitledAct, OnlyEntitledHaveIt, Entitled
<1>5. ASSUME NEW r \in Requests, RequestGoesOn(r) PROVE (EntitledAct /\ OnlyEntitledHaveIt)'
  <2>1. /\ Live(r)
        /\ \A s \in Requests \ {r} : req'[s] = req[s]
        /\ Live(r)' => req'[r].b = req[r].b
        /\ \A b \in Browsers \ {req[r].b} : stored'[b] = stored[b]
    BY <1>5, GoesOnType
  <2>2. completions' = completions \/ completions' = completions + 1
    BY <1>5 DEF RequestGoesOn, Create, Refuse, Suspend, Resume, PutBack, Verify, Cosign, Logout,
                LogoutHash, CompleteLogout, CompleteSave, Finish, Killed, bounds
  <2>3. ASSUME NEW c, Entitled(c) PROVE Entitled(c)'
    BY <2>2, <2>3, EntitledStays
  <2>4. ASSUME NEW s \in Requests \ {r}, Live(s)'
        PROVE  /\ req'[s].kind # "other" \/ req'[s].sess.has => Entitled(req[s].b)'
               /\ req'[s].kind \in {"create", "resume"} => req'[s].b \in Owners
    <3>1. Live(s) /\ req'[s] = req[s]
      BY <2>1, <2>4 DEF Live
    <3>2. /\ req[s].kind # "other" \/ req[s].sess.has => Entitled(req[s].b)
          /\ req[s].kind \in {"create", "resume"} => req[s].b \in Owners
      BY <3>1 DEF EntitledAct
    <3> QED
      BY <2>3, <3>1, <3>2 DEF Entitled
  <2>5. /\ req[r].kind # "other" \/ req[r].sess.has => Entitled(req[r].b)
        /\ req[r].kind \in {"create", "resume"} => req[r].b \in Owners
    BY <2>1 DEF EntitledAct
  <2>6. ASSUME Live(r)'
        PROVE  /\ req'[r].kind # "other" \/ req'[r].sess.has => Entitled(req[r].b)'
               /\ req'[r].kind \in {"create", "resume"} => req'[r].b \in Owners
    BY <1>5, <2>1, <2>3, <2>5, <2>6, GoesOnHas DEF Entitled
  <2>7. ASSUME NEW b \in Browsers, stored'[b].has PROVE Entitled(b)'
    <3>1. CASE b = req[r].b
      BY <1>5, <2>3, <2>5, <2>7, <3>1, GoesOnHas DEF OnlyEntitledHaveIt, Entitled
    <3>2. CASE b # req[r].b
      BY <2>1, <2>3, <2>7, <3>2 DEF OnlyEntitledHaveIt, Entitled
    <3> QED
      BY <3>1, <3>2
  <2>8. ASSUME NEW b \in Browsers, statusUrl'[b][1] > 0 PROVE Entitled(b)'
    <3>1. CASE CompleteSave(r) /\ b = req[r].b
      BY <2>3, <2>5, <3>1 DEF CompleteSave, At
    <3>2. CASE ~(CompleteSave(r) /\ b = req[r].b)
      <4>1. statusUrl'[b] = statusUrl[b]
        BY <1>5, <3>2 DEF RequestGoesOn, Create, Refuse, Suspend, Resume, PutBack, Verify, Cosign,
             Logout, LogoutHash, CompleteLogout, CompleteSave, Finish, Killed, TypeOK
      <4>2. Entitled(b)
        BY <2>8, <4>1 DEF EntitledAct
      <4> QED
        BY <2>3, <4>2
    <3> QED
      BY <3>1, <3>2
  <2>9. EntitledAct'
    BY <2>4, <2>6, <2>8 DEF EntitledAct
  <2>10. OnlyEntitledHaveIt'
    BY <2>7 DEF OnlyEntitledHaveIt, Entitled
  <2> QED
    BY <2>9, <2>10
<1> QED
  BY <1>2, <1>3, <1>4, <1>5 DEF Next

\* Whatever copies of sessions are saved and whatever codes and links are used, the submission
\* gets in the sessions of its owner only and, once completed, of those who have to cosign it.
THEOREM EntitledOnly == Spec => []OnlyEntitledHaveIt
<1>1. Init => TypeOK /\ EntitledAct /\ OnlyEntitledHaveIt
  BY InitType DEF Init, EntitledAct, OnlyEntitledHaveIt, Live
<1>2. TypeOK /\ EntitledAct /\ OnlyEntitledHaveIt /\ [Next]_vars
        => (TypeOK /\ EntitledAct /\ OnlyEntitledHaveIt)'
  BY TypeStep, EntitledStep, ConstantsAssumption
<1> QED
  BY <1>1, <1>2, PTL DEF Spec

-----------------------------------------------------------------------------
\* The submission limit

\* Requests that passed the check of the limit and will raise the counter.
InFlight == {r \in Requests : At(r, "complete", "begun") \/ At(r, "complete", "removed")}

\* Why the counter is bounded: those that will raise it are counted with it.
Counted ==
  counter + Cardinality(InFlight) + Cardinality(others)
    < Limit + Cardinality(Requests) + Cardinality(Others)

\* Sets of slots are finite, and not larger than all of them.
LEMMA InFlightFinite ==
  ASSUME ConstantsAssumption, TypeOK
  PROVE  /\ IsFiniteSet(InFlight) /\ Cardinality(InFlight) \in Nat
         /\ Cardinality(InFlight) <= Cardinality(Requests)
         /\ IsFiniteSet(others) /\ Cardinality(others) \in Nat
         /\ Cardinality(others) <= Cardinality(Others)
         /\ Cardinality(Requests) \in Nat /\ Cardinality(Others) \in Nat
<1>1. InFlight \subseteq Requests /\ others \subseteq Others
  BY DEF InFlight, TypeOK
<1>2. IsFiniteSet(Requests) /\ IsFiniteSet(Others)
  BY DEF ConstantsAssumption
<1> QED
  BY <1>1, <1>2, FS_Subset, FS_CardinalityType

\* A step that has no more requests in flight and leaves the counter.
LEMMA CountedKept ==
  ASSUME ConstantsAssumption, TypeOK, TypeOK', Counted, counter' = counter,
         others' = others, InFlight' \subseteq InFlight
  PROVE  Counted'
<1>1. Cardinality(InFlight') <= Cardinality(InFlight) /\ Cardinality(InFlight') \in Nat
  BY InFlightFinite, FS_Subset, FS_CardinalityType
<1>2. /\ Cardinality(InFlight) \in Nat /\ Cardinality(others) \in Nat
      /\ Cardinality(Requests) \in Nat /\ Cardinality(Others) \in Nat
      /\ counter \in Nat /\ Limit \in Nat
  BY InFlightFinite DEF TypeOK, ConstantsAssumption
<1> QED
  BY <1>1, <1>2 DEF Counted

\* A request may begin, and count, when the limit is not reached.
LEMMA CountedBelowLimit ==
  ASSUME ConstantsAssumption, TypeOK', ~LimitReached', counter' \in Nat
  PROVE  Counted'
<1>1. /\ Cardinality(InFlight') \in Nat /\ Cardinality(InFlight') <= Cardinality(Requests)
      /\ Cardinality(others') \in Nat /\ Cardinality(others') <= Cardinality(Others)
      /\ Cardinality(Requests) \in Nat /\ Cardinality(Others) \in Nat
  <2>1. IsFiniteSet(Requests) /\ IsFiniteSet(Others)
    BY DEF ConstantsAssumption
  <2>2. InFlight' \subseteq Requests /\ others' \subseteq Others
    BY DEF InFlight, TypeOK
  <2> QED
    BY <2>1, <2>2, FS_Subset, FS_CardinalityType
<1>2. counter' < Limit /\ Limit \in Nat
  BY DEF LimitReached, ConstantsAssumption
<1> QED
  BY <1>1, <1>2 DEF Counted

\* Every step keeps the count.
LEMMA CountedStep ==
  ASSUME ConstantsAssumption, TypeOK, TypeOK', Counted, [Next]_vars
  PROVE  Counted'
<1> USE DEF InFlight, At, Live
<1>1. CASE UNCHANGED vars
  BY <1>1, CountedKept DEF vars
<1>2. ASSUME NEW b \in Browsers, Login(b) PROVE Counted'
  BY <1>2, CountedKept DEF Login, formVars
<1>3. CASE ToggleForm \/ HashTask
  BY <1>3, CountedKept DEF ToggleForm, HashTask, formVars
<1>4. ASSUME NEW o \in Others, OtherBegins(o) PROVE Counted'
  <2>1. ~LimitReached' /\ counter' \in Nat
    BY <1>4 DEF OtherBegins, Available, LimitReached, TypeOK
  <2> QED
    BY <2>1, CountedBelowLimit
<1>5. ASSUME NEW o \in Others, OtherCompletes(o) PROVE Counted'
  <2>1. Cardinality(others') = Cardinality(others) - 1
    BY <1>5, InFlightFinite, FS_RemoveElement DEF OtherCompletes
  <2>2. counter' = counter + 1 /\ InFlight' = InFlight
    BY <1>5 DEF OtherCompletes
  <2> HIDE DEF InFlight
  <2>3. /\ Cardinality(InFlight) \in Nat /\ Cardinality(others) \in Nat
        /\ Cardinality(Requests) \in Nat /\ Cardinality(Others) \in Nat
        /\ counter \in Nat /\ Limit \in Nat
    BY InFlightFinite DEF TypeOK, ConstantsAssumption
  <2> QED
    BY <2>1, <2>2, <2>3 DEF Counted
<1>6. ASSUME NEW r \in Requests, RequestBegins(r) PROVE Counted'
  <2>1. PICK b \in Browsers, kind \in Kinds, pc \in {"begun", "refused", "done"}, copy \in Row :
          /\ Begin(r, b, kind, pc, stored[b], copy)
          /\ kind = "complete" /\ pc = "begun" => ~LimitReached
    BY <1>6, BeginsAs
  <2>2. /\ \A s \in Requests \ {r} : req'[s] = req[s]
        /\ req'[r].pc = pc /\ req'[r].kind = kind
        /\ counter' = counter /\ others' = others
    BY <2>1, BeginIs DEF formVars
  <2>3. CASE kind = "complete" /\ pc = "begun"
    BY <2>1, <2>2, <2>3, CountedBelowLimit DEF LimitReached, TypeOK
  <2>4. CASE ~(kind = "complete" /\ pc = "begun")
    <3>1. InFlight' \subseteq InFlight
      BY <2>2, <2>4
    <3> QED
      BY <2>2, <3>1, CountedKept
  <2> QED
    BY <2>3, <2>4
<1>7. ASSUME NEW r \in Requests, RequestGoesOn(r) PROVE Counted'
  <2>1. /\ Live(r)
        /\ \A s \in Requests \ {r} : req'[s] = req[s]
    BY <1>7, GoesOnType
  <2>2. req[r] \in Request
    BY <2>1, LiveIsRequest
  <2>3. CASE CompleteSave(r)
    <3>1. /\ req'[r].pc = "done"
          /\ r \in InFlight
      BY <2>1, <2>3, WithType, EndsKeeps DEF CompleteSave
    <3>2. InFlight' = InFlight \ {r}
      BY <2>1, <3>1
    <3>3. counter' = counter + 1 /\ others' = others
      BY <2>3 DEF CompleteSave
    <3> HIDE DEF InFlight
    <3>4. Cardinality(InFlight') = Cardinality(InFlight) - 1
      BY <3>1, <3>2, InFlightFinite, FS_RemoveElement
    <3>5. /\ Cardinality(InFlight) \in Nat /\ Cardinality(others) \in Nat
          /\ Cardinality(Requests) \in Nat /\ Cardinality(Others) \in Nat
          /\ counter \in Nat /\ Limit \in Nat
      BY InFlightFinite DEF TypeOK, ConstantsAssumption
    <3> QED
      BY <3>3, <3>4, <3>5 DEF Counted
  <2>4. CASE ~CompleteSave(r)
    <3>1. counter' = counter /\ others' = others
      BY <1>7, <2>4 DEF RequestGoesOn, Create, Refuse, Suspend, Resume, PutBack, Verify, Cosign,
                        Logout, LogoutHash, CompleteLogout, Finish, Killed, formVars
    <3>2. r \in InFlight' => r \in InFlight
      <4>1. CASE CompleteLogout(r)
        BY <2>1, <4>1 DEF CompleteLogout
      <4>2. CASE Logout(r)
        BY <2>1, <4>2, WithType, RemovedKeeps DEF Logout
      <4>3. CASE Create(r) \/ Refuse(r) \/ Resume(r) \/ PutBack(r) \/ Verify(r) \/ Cosign(r)
        BY <2>1, <4>3, WithType, EndsKeeps DEF Create, Refuse, Resume, PutBack, Verify, Cosign
      <4>4. CASE Suspend(r) \/ LogoutHash(r)
        <5>1. req[r].sess \in Session
          BY <2>2 DEF Request
        <5> QED
          BY <2>1, <4>4, <5>1, EndsKeeps DEF Suspend, LogoutHash
      <4>5. CASE Finish(r) \/ Killed(r)
        BY <4>5 DEF Finish, Killed, TypeOK
      <4> QED
        BY <1>7, <2>4, <4>1, <4>2, <4>3, <4>4, <4>5 DEF RequestGoesOn
    <3>3. InFlight' \subseteq InFlight
      BY <2>1, <3>2
    <3> QED
      BY <3>1, <3>3, CountedKept
  <2> QED
    BY <2>3, <2>4
<1> QED
  BY <1>1, <1>2, <1>3, <1>4, <1>5, <1>6, <1>7 DEF Next

\* The limit of a form is exceeded by the requests that overlap at most.
THEOREM Overshoot == Spec => []OvershootBounded
<1>1. Init => TypeOK /\ Counted
  <2> SUFFICES ASSUME Init PROVE TypeOK /\ Counted
    OBVIOUS
  <2>1. TypeOK
    BY InitType
  <2>2. ~LimitReached
    BY ConstantsAssumption DEF Init, LimitReached, ConstantsAssumption
  <2>3. InFlight = {} /\ others = {} /\ counter = 0
    BY DEF Init, InFlight, At, Live
  <2> QED
    BY <2>1, <2>3, InFlightFinite, ConstantsAssumption, FS_EmptySet
       DEF Counted, ConstantsAssumption
<1>2. TypeOK /\ Counted /\ [Next]_vars => (TypeOK /\ Counted)'
  BY TypeStep, CountedStep, ConstantsAssumption
<1>3. TypeOK /\ Counted => OvershootBounded
  <2> SUFFICES ASSUME TypeOK, Counted PROVE OvershootBounded
    OBVIOUS
  <2>1. /\ Cardinality(InFlight) \in Nat /\ Cardinality(others) \in Nat
        /\ Cardinality(Requests) \in Nat /\ Cardinality(Others) \in Nat
        /\ counter \in Nat /\ Limit \in Nat
    BY InFlightFinite, ConstantsAssumption DEF TypeOK, ConstantsAssumption
  <2> QED
    BY <2>1 DEF Counted, OvershootBounded
<1> QED
  BY <1>1, <1>2, <1>3, PTL DEF Spec

-----------------------------------------------------------------------------
\* Letting go of what is completed

\* Only a submission that exists is completed, and no copy that will be saved says otherwise.
CreatedFirst ==
  /\ row.completed > 0 => row.created
  /\ completer # {} => row.completed > 0
  /\ \A r \in Requests : Live(r) =>
       /\ req[r].kind \in {"suspend", "complete", "cosign"} => req[r].copy.created
       /\ req[r].kind = "cosign" => req[r].copy.completed > 0

\* Links and requests to suspend are from before the completion.
LinksOpen ==
  /\ \A link \in links : link[1] = 0
  /\ \A r \in Requests : Live(r) /\ req[r].kind = "suspend" => req[r].copy.completed = 0

\* The browser that completed it has it nowhere, and nothing under way that gives it back.
LetGo ==
  \A b \in completer \ (putBack \cup overlapped) :
    /\ ~stored[b].has
    /\ \A r \in Requests :
         Live(r) /\ req[r].b = b => ~req[r].sess.has /\ req[r].kind \notin {"create", "resume"}

LetGoInv == CreatedFirst /\ LinksOpen /\ LetGo

\* A request begins: it cannot bring the submission back.
LEMMA LetGoBegins ==
  ASSUME TypeOK, LetGoInv, NEW r \in Requests, RequestBegins(r)
  PROVE  LetGoInv'
<1>1. PICK b \in Browsers, kind \in Kinds, pc \in {"begun", "refused", "done"}, copy \in Row :
        /\ Begin(r, b, kind, pc, stored[b], copy)
        /\ kind = "create" => ~row.created
        /\ kind = "resume" => TokenParts \in links
        /\ kind \in {"suspend", "complete", "cosign", "logout"} => row.created /\ copy = row
        /\ kind = "suspend" => row.completed = 0
        /\ kind = "cosign" => row.completed > 0
  BY BeginsAs
<1>2. /\ ~Live(r)
      /\ \A s \in Requests \ {r} : req'[s] = req[s]
      /\ req'[r].kind = kind /\ req'[r].b = b /\ req'[r].sess = stored[b] /\ req'[r].copy = copy
      /\ stored' = stored /\ row' = row /\ links' = links
      /\ completer' = completer /\ putBack' = putBack /\ overlapped' = overlapped
  BY <1>1, BeginIs DEF history
<1>3. \A s \in Requests \ {r} : Live(s)' <=> Live(s)
  BY <1>2 DEF Live
<1>4. CreatedFirst'
  BY <1>1, <1>2, <1>3 DEF LetGoInv, CreatedFirst
<1>5. LinksOpen'
  BY <1>1, <1>2, <1>3 DEF LetGoInv, LinksOpen
<1>6. kind \in {"create", "resume"} => completer = {}
  <2>1. kind = "resume" => row.completed = 0
    BY <1>1 DEF LetGoInv, LinksOpen, TokenParts
  <2> QED
    BY <1>1, <2>1 DEF LetGoInv, CreatedFirst
<1>7. LetGo'
  BY <1>2, <1>3, <1>6 DEF LetGoInv, LetGo
<1> QED
  BY <1>4, <1>5, <1>7 DEF LetGoInv

\* A request goes on without suspending, completing or cosigning.
LEMMA LetGoGoesOn ==
  ASSUME ConstantsAssumption, TypeOK, LetGoInv, NEW r \in Requests, RequestGoesOn(r),
         Live(r)' => req'[r].kind \in {"create", "other"} \/ req'[r].copy = req[r].copy,
         links' = links, completer' = completer, overlapped' = overlapped,
         putBack \subseteq putBack',
         row'.completed = row.completed, row.created => row'.created,
         \/ req[r].b \in putBack'
         \/ req[r].kind \in {"create", "resume"}
         \/ /\ stored'[req[r].b].has => stored[req[r].b].has \/ req[r].sess.has
            /\ Live(r)' /\ req'[r].sess.has => req[r].sess.has
  PROVE  LetGoInv'
<1>1. /\ Live(r)
      /\ \A s \in Requests \ {r} : req'[s] = req[s]
      /\ Live(r)' => req'[r].b = req[r].b
      /\ \A b \in Browsers \ {req[r].b} : stored'[b] = stored[b]
  BY GoesOnType
<1>2. \A s \in Requests \ {r} : Live(s)' <=> Live(s)
  BY <1>1 DEF Live
<1>3. Live(r)' => req'[r].kind \in {req[r].kind, "other"}
  BY GoesOnHas
<1>4. CreatedFirst'
  BY <1>1, <1>2, <1>3 DEF LetGoInv, CreatedFirst
<1>5. LinksOpen'
  BY <1>1, <1>2, <1>3 DEF LetGoInv, LinksOpen
<1>6. LetGo'
  <2> SUFFICES ASSUME NEW c \in completer, c \notin putBack', c \notin overlapped
               PROVE  /\ ~stored'[c].has
                      /\ \A s \in Requests :
                           Live(s)' /\ req'[s].b = c
                             => ~req'[s].sess.has /\ req'[s].kind \notin {"create", "resume"}
    BY DEF LetGo
  <2>1. /\ ~stored[c].has
        /\ \A s \in Requests :
             Live(s) /\ req[s].b = c
               => ~req[s].sess.has /\ req[s].kind \notin {"create", "resume"}
    BY DEF LetGoInv, LetGo
  <2>2. c \in Browsers
    BY DEF TypeOK
  <2> QED
    BY <1>1, <1>2, <1>3, <2>1, <2>2
<1> QED
  BY <1>4, <1>5, <1>6 DEF LetGoInv

\* What a request does next.
LEMMA LetGoRequest ==
  ASSUME ConstantsAssumption, TypeOK, LetGoInv, NEW r \in Requests, RequestGoesOn(r)
  PROVE  LetGoInv'
<1>1. /\ Live(r)
      /\ \A s \in Requests \ {r} : req'[s] = req[s]
      /\ \A b \in Browsers \ {req[r].b} : stored'[b] = stored[b]
  BY GoesOnType
<1>2. /\ req[r] \in Request /\ req[r].b \in Browsers /\ req[r].sess \in Session
      /\ req[r].copy \in Row /\ row \in Row
  BY <1>1, LiveIsRequest DEF Request, TypeOK
<1>3. \A s \in Requests \ {r} : Live(s)' <=> Live(s)
  BY <1>1 DEF Live
<1> DEFINE out == With(r, FALSE)
           gone == LoggedOut(out)
<1>4. out \in Session /\ ~out.has /\ gone \in Session /\ ~gone.has
  BY <1>1, WithType
<1> HIDE DEF out, gone
<1>5. CASE Create(r) \/ Resume(r)
  <2>1. req[r].kind \in {"create", "resume"}
    BY <1>5 DEF Create, Resume, At
  <2>2. req'[r].kind \in {"create", "other"}
    BY <1>1, <1>5, WithType, EndsKeeps DEF Create, Resume
  <2>3. row'.completed = row.completed /\ (row.created => row'.created)
    BY <1>2, <1>5 DEF Create, Resume, Row
  <2> QED
    BY <1>5, <2>1, <2>2, <2>3, LetGoGoesOn DEF Create, Resume, history
<1>6. CASE PutBack(r) \/ Verify(r)
  <2>1. req'[r].kind \in {"create", "other"}
    BY <1>1, <1>6, WithType, EndsKeeps DEF PutBack, Verify
  <2> QED
    BY <1>6, <2>1, LetGoGoesOn DEF PutBack, Verify
<1>7. CASE Refuse(r)
  <2>1. SaveList(r, out) /\ Ends(r, out)
    BY <1>7 DEF Refuse, out
  <2>2. req'[r].kind \in {"create", "other"} /\ ~req'[r].sess.has /\ ~stored'[req[r].b].has
    BY <1>1, <1>4, <2>1, SaveListSaves, EndsKeeps
  <2> QED
    BY <1>7, <2>2, LetGoGoesOn DEF Refuse
<1>8. CASE Logout(r) \/ CompleteLogout(r)
  <2>1. SaveList(r, out) /\ req' = [req EXCEPT ![r].sess = gone, ![r].pc = "removed"]
    BY <1>8 DEF Logout, CompleteLogout, out, gone
  <2>2. req'[r].copy = req[r].copy /\ ~req'[r].sess.has /\ ~stored'[req[r].b].has
    BY <1>1, <1>4, <2>1, SaveListSaves, RemovedKeeps
  <2> QED
    BY <1>8, <2>2, LetGoGoesOn DEF Logout, CompleteLogout, history
<1>9. CASE LogoutHash(r)
  <2>1. req'[r].kind \in {"create", "other"} /\ req'[r].sess = req[r].sess /\ stored' = stored
    BY <1>1, <1>2, <1>9, EndsKeeps DEF LogoutHash
  <2> QED
    BY <1>9, <2>1, LetGoGoesOn DEF LogoutHash, history
<1>10. CASE Suspend(r)
  <2>1. req[r].kind = "suspend"
    BY <1>10 DEF Suspend, At
  <2>2. req[r].copy.completed = 0 /\ req[r].copy.created
    BY <1>1, <2>1 DEF LetGoInv, LinksOpen, CreatedFirst
  <2>3. row'.completed = 0 /\ row'.created /\ completer' = {}
    BY <1>2, <1>10, <2>2 DEF Suspend, Row
  <2>4. req'[r].kind = "other"
    BY <1>1, <1>2, <1>10, <2>1, EndsKeeps DEF Suspend
  <2>5. CreatedFirst'
    BY <1>1, <1>3, <2>3, <2>4 DEF LetGoInv, CreatedFirst
  <2>6. LinksOpen'
    BY <1>1, <1>3, <1>10, <2>3, <2>4 DEF Suspend, LetGoInv, LinksOpen
  <2>7. LetGo'
    BY <2>3 DEF LetGo
  <2> QED
    BY <2>5, <2>6, <2>7 DEF LetGoInv
<1>11. CASE Cosign(r)
  <2>1. req[r].kind = "cosign"
    BY <1>11 DEF Cosign, At
  <2>2. req[r].copy.completed > 0 /\ req[r].copy.created
    BY <1>1, <2>1 DEF LetGoInv, CreatedFirst
  <2>3. row'.completed > 0 /\ row'.created
    BY <1>2, <1>11, <2>2 DEF Cosign, Row
  <2>4. SaveList(r, gone) /\ Ends(r, gone)
    BY <1>11 DEF Cosign, out, gone
  <2>5. /\ req'[r].kind = "other" /\ req'[r].b = req[r].b
        /\ ~req'[r].sess.has /\ ~stored'[req[r].b].has
    BY <1>1, <1>4, <2>1, <2>4, SaveListSaves, EndsKeeps
  <2>6. completer' = completer /\ putBack' = putBack /\ overlapped' = overlapped /\ links' = links
    BY <1>11 DEF Cosign, history
  <2>7. CreatedFirst'
    BY <1>1, <1>3, <2>3, <2>5 DEF LetGoInv, CreatedFirst
  <2>8. LinksOpen'
    BY <1>1, <1>3, <2>5, <2>6 DEF LetGoInv, LinksOpen
  <2>9. LetGo'
    <3>1. completer \subseteq Browsers
      BY DEF TypeOK
    <3> QED
      BY <1>1, <1>3, <2>5, <2>6, <3>1 DEF LetGoInv, LetGo
  <2> QED
    BY <2>7, <2>8, <2>9 DEF LetGoInv
<1>12. CASE CompleteSave(r)
  <2> DEFINE c == req[r].b
  <2>1. req[r].kind = "complete"
    BY <1>12 DEF CompleteSave, At
  <2>2. req[r].copy.created
    BY <1>1, <2>1 DEF LetGoInv, CreatedFirst
  <2>3. row'.completed > 0 /\ row'.created
    <3>1. completions' > 0
      BY <1>12 DEF CompleteSave, TypeOK, ConstantsAssumption
    <3> QED
      BY <1>2, <1>12, <2>2, <3>1 DEF CompleteSave, Row
  <2>4. SaveList(r, out) /\ Ends(r, out)
    BY <1>12 DEF CompleteSave, out
  <2>5. req'[r].kind = "other" /\ req'[r].b = c /\ ~req'[r].sess.has /\ ~stored'[c].has
    BY <1>1, <1>4, <2>1, <2>4, SaveListSaves, EndsKeeps
  <2>6. /\ completer' = {c} /\ links' = links
        /\ (\E s \in Requests \ {r} : Live(s) /\ req[s].b = c) => c \in overlapped'
    BY <1>12 DEF CompleteSave
  <2>7. CreatedFirst'
    BY <1>1, <1>3, <2>3, <2>5 DEF LetGoInv, CreatedFirst
  <2>8. LinksOpen'
    BY <1>1, <1>3, <2>5, <2>6 DEF LetGoInv, LinksOpen
  <2>9. LetGo'
    BY <1>1, <1>3, <2>5, <2>6 DEF LetGo
  <2> QED
    BY <2>7, <2>8, <2>9 DEF LetGoInv
<1>13. CASE Finish(r)
  <2>1. ~Live(r)' /\ stored'[req[r].b] = req[r].sess
    BY <1>2, <1>13 DEF Finish, Live, TypeOK
  <2> QED
    BY <1>13, <2>1, LetGoGoesOn DEF Finish
<1>14. CASE Killed(r)
  <2>1. ~Live(r)' /\ stored' = stored
    BY <1>14 DEF Killed, Live, TypeOK
  <2> QED
    BY <1>14, <2>1, LetGoGoesOn DEF Killed
<1> QED
  BY <1>5, <1>6, <1>7, <1>8, <1>9, <1>10, <1>11, <1>12, <1>13, <1>14 DEF RequestGoesOn

\* Every step.
LEMMA LetGoStep ==
  ASSUME ConstantsAssumption, TypeOK, LetGoInv, [Next]_vars
  PROVE  LetGoInv'
<1>1. ASSUME UNCHANGED <<req, row, links, history>>,
             \A b \in Browsers : stored'[b].has = stored[b].has
      PROVE  LetGoInv'
  <2>1. completer \subseteq Browsers
    BY DEF TypeOK
  <2> QED
    BY <1>1, <2>1 DEF LetGoInv, CreatedFirst, LinksOpen, LetGo, Live, history
<1>2. ASSUME NEW b \in Browsers, Login(b) PROVE LetGoInv'
  <2>1. \A c \in Browsers : stored'[c].has = stored[c].has
    BY <1>2 DEF Login, TypeOK, Session
  <2> QED
    BY <1>1, <1>2, <2>1 DEF Login
<1>3. CASE ToggleForm \/ HashTask \/ UNCHANGED vars
             \/ \E o \in Others : OtherBegins(o) \/ OtherCompletes(o)
  BY <1>1, <1>3 DEF ToggleForm, HashTask, OtherBegins, OtherCompletes, history, vars
<1>4. ASSUME NEW r \in Requests, RequestBegins(r) PROVE LetGoInv'
  BY <1>4, LetGoBegins
<1>5. ASSUME NEW r \in Requests, RequestGoesOn(r) PROVE LetGoInv'
  BY <1>5, LetGoRequest
<1> QED
  BY <1>2, <1>3, <1>4, <1>5 DEF Next

\* The initial state.
LEMMA LetGoInit == Init => LetGoInv
BY DEF Init, NewRow, LetGoInv, CreatedFirst, LinksOpen, LetGo, Live

\* The browser that completes the submission does not have it any more, unless it was given it
\* again or had other requests under way when it completed it.
THEOREM CompleterDone == Spec => []CompleterLetsGo
<1>1. Init => TypeOK /\ LetGoInv
  BY InitType, LetGoInit
<1>2. TypeOK /\ LetGoInv /\ [Next]_vars => (TypeOK /\ LetGoInv)'
  BY TypeStep, LetGoStep, ConstantsAssumption
<1>3. TypeOK /\ LetGoInv => CompleterLetsGo
  BY DEF LetGoInv, LetGo, CompleterLetsGo
<1> QED
  BY <1>1, <1>2, <1>3, PTL DEF Spec

-----------------------------------------------------------------------------
\* Keeping access to what is not completed

\* The link of the last suspension is valid until the submission is completed.
SuspendedIsLinked ==
  row.completed = 0 /\ row.suspended > 0 => TokenParts \in links

\* Before that, it is in a session of its owner, or being completed.
HeldOrCompleting ==
  row.created /\ row.completed = 0 /\ row.suspended = 0 /\ ~cutOff =>
    \/ \E b \in Owners : stored[b].has
    \/ \E r \in Requests : At(r, "complete", "removed")

AccessInv == SuspendedIsLinked /\ HeldOrCompleting

\* A step that takes the submission out of no session, and ends no completion.
LEMMA AccessSame ==
  ASSUME AccessInv, row' = row, links' = links, cutOff => cutOff',
         \A b \in Owners : stored[b].has => stored'[b].has,
         \A r \in Requests : At(r, "complete", "removed") => At(r, "complete", "removed")'
  PROVE  AccessInv'
BY DEF AccessInv, SuspendedIsLinked, TokenParts, HeldOrCompleting

\* What a request does next.
LEMMA AccessRequest ==
  ASSUME ConstantsAssumption, TypeOK, EntitledAct, LetGoInv, AccessInv,
         NEW r \in Requests, RequestGoesOn(r)
  PROVE  AccessInv'
<1> USE DEF AccessInv
<1>1. /\ Live(r)
      /\ \A s \in Requests \ {r} : req'[s] = req[s]
      /\ \A b \in Browsers \ {req[r].b} : stored'[b] = stored[b]
  BY GoesOnType
<1>2. /\ req[r] \in Request /\ req[r].b \in Browsers /\ req[r].sess \in Session
      /\ req[r].copy \in Row /\ row \in Row
      /\ suspensions \in Nat /\ completions \in Nat
  BY <1>1, LiveIsRequest DEF Request, TypeOK, ConstantsAssumption
<1>3. ASSUME ~At(r, "complete", "removed"), NEW s \in Requests, At(s, "complete", "removed")
      PROVE  At(s, "complete", "removed")'
  BY <1>1, <1>3 DEF At, Live
<1>4. Owners \subseteq Browsers
  BY DEF ConstantsAssumption
<1>5. CASE Create(r)
  <2>1. req[r].b \in Owners
    BY <1>1, <1>5 DEF Create, At, EntitledAct
  <2>2. stored'[req[r].b].has
    BY <1>1, <1>5, WithType, SaveListSaves DEF Create
  <2>3. SuspendedIsLinked'
    BY <1>2, <1>5 DEF Create, Row, SuspendedIsLinked, TokenParts
  <2> QED
    BY <2>1, <2>2, <2>3 DEF HeldOrCompleting
<1>6. CASE Refuse(r) \/ Logout(r)
  <2>1. cutOff' /\ row' = row /\ links' = links
    BY <1>6 DEF Refuse, Logout
  <2> QED
    BY <2>1 DEF SuspendedIsLinked, TokenParts, HeldOrCompleting
<1>7. CASE Suspend(r)
  <2>1. row'.suspended > 0 /\ TokenParts' \in links'
    BY <1>2, <1>7 DEF Suspend, Row, TokenParts
  <2> QED
    BY <2>1 DEF SuspendedIsLinked, HeldOrCompleting
<1>8. CASE Resume(r) \/ PutBack(r) \/ Verify(r)
  <2>1. stored'[req[r].b].has
    BY <1>1, <1>8, WithType, SaveListSaves DEF Resume, PutBack, Verify
  <2>2. ~At(r, "complete", "removed")
    BY <1>8 DEF Resume, PutBack, Verify, At
  <2>3. row' = row /\ links' = links /\ cutOff' = cutOff
    BY <1>8 DEF Resume, PutBack, Verify, history
  <2> QED
    BY <1>1, <1>3, <1>4, <2>1, <2>2, <2>3, AccessSame
<1>9. CASE Cosign(r) \/ CompleteSave(r)
  <2>1. row'.completed > 0
    <3>1. CASE Cosign(r)
      BY <1>1, <1>2, <3>1 DEF Cosign, At, LetGoInv, CreatedFirst, Row
    <3>2. CASE CompleteSave(r)
      BY <1>2, <3>2 DEF CompleteSave, Row
    <3> QED
      BY <1>9, <3>1, <3>2
  <2> QED
    BY <2>1 DEF SuspendedIsLinked, HeldOrCompleting
<1>10. CASE CompleteLogout(r)
  <2>1. /\ req'[r].pc = "removed" /\ req'[r].kind = "complete"
    BY <1>1, <1>10, WithType, RemovedKeeps DEF CompleteLogout, At
  <2>2. At(r, "complete", "removed")'
    BY <2>1 DEF At, Live, Idle
  <2>3. SuspendedIsLinked'
    BY <1>10 DEF CompleteLogout, SuspendedIsLinked, TokenParts
  <2> QED
    BY <2>2, <2>3 DEF HeldOrCompleting
<1>11. CASE LogoutHash(r)
  <2>1. ~At(r, "complete", "removed") /\ stored' = stored /\ row' = row /\ links' = links
        /\ cutOff' = cutOff
    BY <1>11 DEF LogoutHash, At, history
  <2> QED
    BY <1>3, <2>1, AccessSame
<1>12. CASE Finish(r)
  <2>1. /\ stored'[req[r].b] = req[r].sess /\ row' = row /\ links' = links
        /\ ~At(r, "complete", "removed")
        /\ cutOff' = (cutOff \/ (stored[req[r].b].has /\ ~req[r].sess.has))
    BY <1>2, <1>12 DEF Finish, TypeOK, At
  <2>2. CASE cutOff'
    BY <2>1, <2>2 DEF SuspendedIsLinked, TokenParts, HeldOrCompleting
  <2>3. CASE ~cutOff'
    BY <1>1, <1>3, <1>4, <2>1, <2>3, AccessSame
  <2> QED
    BY <2>2, <2>3
<1>13. CASE Killed(r)
  <2>1. stored' = stored /\ row' = row /\ links' = links
        /\ cutOff' = (cutOff \/ At(r, "complete", "removed"))
    BY <1>13 DEF Killed
  <2>2. CASE At(r, "complete", "removed")
    BY <2>1, <2>2 DEF SuspendedIsLinked, TokenParts, HeldOrCompleting
  <2>3. CASE ~At(r, "complete", "removed")
    BY <1>3, <2>1, <2>3, AccessSame
  <2> QED
    BY <2>2, <2>3
<1> QED
  BY <1>5, <1>6, <1>7, <1>8, <1>9, <1>10, <1>11, <1>12, <1>13 DEF RequestGoesOn

\* Every step.
LEMMA AccessStep ==
  ASSUME ConstantsAssumption, TypeOK, EntitledAct, LetGoInv, AccessInv, [Next]_vars
  PROVE  AccessInv'
<1>1. Owners \subseteq Browsers
  BY DEF ConstantsAssumption
<1>2. ASSUME NEW b \in Browsers, Login(b) PROVE AccessInv'
  <2>1. \A c \in Browsers : stored'[c].has = stored[c].has
    BY <1>2 DEF Login, TypeOK, Session
  <2>2. \A s \in Requests : At(s, "complete", "removed")' <=> At(s, "complete", "removed")
    BY <1>2 DEF Login, At, Live
  <2> QED
    BY <1>1, <1>2, <2>1, <2>2, AccessSame DEF Login, history
<1>3. CASE ToggleForm \/ HashTask \/ UNCHANGED vars
             \/ \E o \in Others : OtherBegins(o) \/ OtherCompletes(o)
  <2>1. UNCHANGED <<stored, req, row, links, cutOff>>
    BY <1>3 DEF ToggleForm, HashTask, OtherBegins, OtherCompletes, history, vars
  <2> QED
    BY <2>1, AccessSame DEF At, Live
<1>4. ASSUME NEW r \in Requests, RequestBegins(r) PROVE AccessInv'
  <2>1. PICK b \in Browsers, kind \in Kinds, pc \in {"begun", "refused", "done"}, copy \in Row :
          Begin(r, b, kind, pc, stored[b], copy)
    BY <1>4, BeginsAs
  <2>2. /\ ~Live(r) /\ \A s \in Requests \ {r} : req'[s] = req[s]
        /\ UNCHANGED <<stored, row, links, cutOff>>
    BY <2>1, BeginIs DEF history
  <2>3. \A s \in Requests : At(s, "complete", "removed") => At(s, "complete", "removed")'
    BY <2>2 DEF At, Live
  <2> QED
    BY <2>2, <2>3, AccessSame
<1>5. ASSUME NEW r \in Requests, RequestGoesOn(r) PROVE AccessInv'
  BY <1>5, AccessRequest
<1> QED
  BY <1>2, <1>3, <1>4, <1>5 DEF Next

\* A submission that is not completed can be finished by its owner, with the valid link or from
\* a session, unless before the first suspension the form was deactivated under a request, a
\* completion died half-way, the user logged out, or a late save dropped it: for any number of
\* browsers, requests side by side, and suspensions.
THEOREM AccessKept == Spec => []AccessNotLost
<1> DEFINE Inv == TypeOK /\ EntitledAct /\ OnlyEntitledHaveIt /\ LetGoInv /\ AccessInv
<1>1. Init => Inv
  <2>1. Init => EntitledAct /\ OnlyEntitledHaveIt
    BY DEF Init, EntitledAct, OnlyEntitledHaveIt, Live
  <2>2. Init => AccessInv
    BY DEF Init, NewRow, AccessInv, SuspendedIsLinked, HeldOrCompleting
  <2> QED
    BY <2>1, <2>2, InitType, LetGoInit
<1>2. Inv /\ [Next]_vars => Inv'
  BY TypeStep, EntitledStep, LetGoStep, AccessStep, ConstantsAssumption
<1>3. Inv => AccessNotLost
  <2> SUFFICES ASSUME TypeOK, AccessInv, row.created, row.completed = 0, Quiet
               PROVE  \/ TokenParts \in links
                      \/ row.suspended = 0 /\ (cutOff \/ \E b \in Owners : stored[b].has)
    BY DEF AccessNotLost
  <2>1. row.suspended \in Nat
    BY DEF TypeOK, Row
  <2>2. CASE row.suspended > 0
    BY <2>2 DEF AccessInv, SuspendedIsLinked
  <2>3. CASE row.suspended = 0
    BY <2>3 DEF AccessInv, HeldOrCompleting, Quiet, At
  <2> QED
    BY <2>1, <2>2, <2>3
<1> QED
  BY <1>1, <1>2, <1>3, PTL DEF Spec

=============================================================================
