-------------------------- MODULE AppointmentsProofs --------------------------
(***************************************************************************)
(* Proofs about Appointments, for any number of chains and any bounds.     *)
(***************************************************************************)
EXTENDS Appointments, TLAPS

-----------------------------------------------------------------------------
\* The inductive invariant

\* Nobody but the chain knows an appointment it has not stored yet, though the tasks of two
\* chains may overlap.
Held ==
  /\ \A c \in Chains :
       At(c, "store") =>
         /\ chain[c].id \in booked
         /\ chain[c].id # info.id
         /\ chain[c].id # cancel.id
  /\ \A c, d \in Chains : At(c, "store") /\ At(d, "store") /\ chain[c].id = chain[d].id => c = d

\* What the info and a request to cancel name was booked before.
NamedWasMade == info.id <= made /\ cancel.id <= made

\* The appointment a request has deleted at the plugin is gone.
DeletedIsGone == cancel.pc = "deleted" => cancel.id \notin booked

Inv ==
  /\ TypeOK
  /\ Held
  /\ NamedWasMade
  /\ DeletedIsGone
  /\ InfoIsLive
  /\ NothingElseIsLive

\* The initial state.
LEMMA InitInv == Init => Inv
<1> SUFFICES ASSUME Init PROVE Inv
  OBVIOUS
<1>1. PICK c \in Chains :
        chain = [d \in Chains |-> IF d = c THEN [Idle EXCEPT !.pc = "appointment"] ELSE Idle]
  BY DEF Init
<1>2. MaxBookings \in Nat /\ MaxEvents \in Nat /\ MaxKilled \in Nat
  BY ConstantsAssumption DEF ConstantsAssumption
<1>3. chain \in [Chains -> ChainState]
  BY <1>1, <1>2 DEF Idle, ChainState, AppointmentPCs
<1>4. \A d \in Chains : chain[d].pc \in {"idle", "appointment"} /\ (d # c => chain[d].pc = "idle")
  BY <1>1 DEF Idle
<1>5. info \in Info /\ cancel \in Cancel /\ info.status = "none" /\ cancel.pc = "idle"
      /\ info.id = 0 /\ cancel.id = 0
  BY <1>2 DEF Init, Info, Cancel, NoInfo, NoCancel
<1>6. removal \in Removal /\ registration \in RegistrationStatuses
  BY DEF Init, Removal, NoRemoval, RegistrationStatuses
<1>7. TypeOK
  <2>1. {exists, cleaned, linkMailed, inSession, past, cut} \subseteq BOOLEAN
    BY DEF Init
  <2>2. made \in 0..MaxBookings /\ events \in 0..MaxEvents /\ killed \in 0..MaxKilled
    BY <1>2 DEF Init
  <2>3. booked \subseteq 1..made /\ leftBehind \subseteq 0..MaxBookings /\ expired \subseteq Limits
    BY DEF Init
  <2> QED
    BY <1>3, <1>5, <1>6, <2>1, <2>2, <2>3 DEF TypeOK
<1>8. Held
  BY <1>4 DEF Held, At
<1>9. NamedWasMade /\ DeletedIsGone /\ InfoIsLive /\ NothingElseIsLive
  BY <1>5 DEF Init, NamedWasMade, DeletedIsGone, InfoIsLive, NothingElseIsLive
<1> QED
  BY <1>7, <1>8, <1>9 DEF Inv

-----------------------------------------------------------------------------
\* Types

\* The types of the values the actions build.
LEMMA Values ==
  /\ NoInfo \in Info /\ NoCancel \in Cancel /\ NoRemoval \in Removal
  /\ Idle \in ChainState
  /\ [status |-> "failed", id |-> 0] \in Info
  /\ NoInfo.status = "none" /\ NoInfo.id = 0
  /\ NoCancel.pc = "idle" /\ NoCancel.id = 0
  /\ Idle.pc = "idle" /\ Idle.id = 0
BY ConstantsAssumption
   DEF ConstantsAssumption, NoInfo, NoCancel, NoRemoval, Idle, Info, Cancel, Removal, ChainState,
       InfoStatuses, RegistrationStatuses

\* A chain in a slot is replaced by one of the right type.
LEMMA ChainType ==
  ASSUME TypeOK, NEW c \in Chains, NEW s \in ChainState, chain' = [chain EXCEPT ![c] = s]
  PROVE  /\ chain' \in [Chains -> ChainState]
         /\ chain'[c] = s
         /\ \A d \in Chains \ {c} : chain'[d] = chain[d]
BY DEF TypeOK

\* The same, for the fields of a chain that goes on.
LEMMA ChainGoesOn ==
  ASSUME TypeOK, NEW c \in Chains, NEW id \in 0..MaxBookings,
         NEW pc \in {"idle", "register", "registering", "final"} \cup AppointmentPCs,
         chain' = [chain EXCEPT ![c].pc = pc, ![c].id = id]
  PROVE  /\ chain' \in [Chains -> ChainState]
         /\ chain'[c].pc = pc /\ chain'[c].id = id
         /\ \A d \in Chains \ {c} : chain'[d] = chain[d]
<1>1. chain[c] \in ChainState
  BY DEF TypeOK
<1> DEFINE s == [chain[c] EXCEPT !.pc = pc, !.id = id]
<1>2. s \in ChainState /\ s.pc = pc /\ s.id = id
  BY <1>1 DEF ChainState
<1>3. chain' = [chain EXCEPT ![c] = s]
  BY DEF TypeOK
<1> HIDE DEF s
<1> QED
  BY <1>2, <1>3, ChainType

\* The same, when only its place changes.
LEMMA ChainMoves ==
  ASSUME TypeOK, NEW c \in Chains,
         NEW pc \in {"idle", "register", "registering", "final"} \cup AppointmentPCs,
         chain' = [chain EXCEPT ![c].pc = pc]
  PROVE  /\ chain' \in [Chains -> ChainState]
         /\ chain'[c].pc = pc
         /\ \A d \in Chains \ {c} : chain'[d] = chain[d]
<1>1. chain[c] \in ChainState
  BY DEF TypeOK
<1> DEFINE s == [chain[c] EXCEPT !.pc = pc]
<1>2. s \in ChainState /\ s.pc = pc
  BY <1>1 DEF ChainState
<1>3. chain' = [chain EXCEPT ![c] = s]
  BY DEF TypeOK
<1> HIDE DEF s
<1> QED
  BY <1>2, <1>3, ChainType

\* The plugin books a new appointment.
LEMMA BooksNew ==
  ASSUME TypeOK, PluginBooks
  PROVE  /\ made' = made + 1 /\ made' \in 1..MaxBookings /\ made' \in 0..MaxBookings
         /\ booked' = booked \cup {made'} /\ booked' \subseteq 1..made'
         /\ made' \notin booked
BY ConstantsAssumption DEF ConstantsAssumption, TypeOK, PluginBooks

\* What a chain does: one slot changes, to a state of the right type; and where it goes.
LEMMA ChainStepType ==
  ASSUME TypeOK, NEW c \in Chains, ChainStep(c) \/ Crash(c)
  PROVE  /\ chain' \in [Chains -> ChainState]
         /\ \A d \in Chains \ {c} : chain'[d] = chain[d]
         /\ DeleteInfo(c) => chain'[c].pc \in {"book", "idle"}
         /\ Book(c) => chain'[c].pc = "store" /\ chain'[c].id = made'
         /\ BookFails(c) => chain'[c].pc = "idle"
         /\ StoreInfo(c) => chain'[c].pc \in {"register", "idle"}
         /\ RegisterStart(c) => chain'[c].pc \in {"registering", "final", "idle"}
         /\ RegisterEnd(c) => chain'[c].pc \in {"final", "idle"}
         /\ Finalise(c) => chain'[c].pc = "idle"
         /\ Crash(c) =>
              \/ chain'[c].pc = "idle"
              \/ chain'[c].pc = "register" /\ chain[c].pc = "registering"
              \/ chain'[c].pc = "appointment" /\ chain[c].pc \in AppointmentPCs
<1> USE Values
<1>1. 0 \in 0..MaxBookings /\ chain[c] \in ChainState
  BY ConstantsAssumption DEF ConstantsAssumption, TypeOK
<1> DEFINE Stays == /\ chain' \in [Chains -> ChainState]
                    /\ \A d \in Chains \ {c} : chain'[d] = chain[d]
<1>2. ASSUME DeleteInfo(c) PROVE Stays /\ chain'[c].pc \in {"book", "idle"}
  BY <1>2, ChainType, ChainMoves DEF DeleteInfo, AppointmentPCs
<1>3. ASSUME Book(c) PROVE Stays /\ chain'[c].pc = "store" /\ chain'[c].id = made'
  <2>1. made' \in 0..MaxBookings
    BY <1>3, BooksNew DEF Book
  <2>2. chain' = [chain EXCEPT ![c].pc = "store", ![c].id = made']
    BY <1>3 DEF Book
  <2> DEFINE s == [chain[c] EXCEPT !.pc = "store", !.id = made']
  <2>3. s \in ChainState /\ s.pc = "store" /\ s.id = made'
    BY <1>1, <2>1 DEF ChainState, AppointmentPCs
  <2>4. chain' = [chain EXCEPT ![c] = s]
    BY <2>2 DEF TypeOK
  <2>5. PICK t \in ChainState : t = s
    BY <2>3
  <2>6. chain' = [chain EXCEPT ![c] = t]
    BY <2>4, <2>5
  <2>7. Stays /\ chain'[c] = t
    BY <2>6, ChainType
  <2> QED
    BY <2>3, <2>5, <2>7
<1>4. ASSUME BookFails(c) PROVE Stays /\ chain'[c].pc = "idle"
  BY <1>4, ChainType DEF BookFails
<1>5. ASSUME StoreInfo(c) PROVE Stays /\ chain'[c].pc \in {"register", "idle"}
  BY <1>1, <1>5, ChainType, ChainGoesOn DEF StoreInfo
<1>6. ASSUME RegisterStart(c) PROVE Stays /\ chain'[c].pc \in {"registering", "final", "idle"}
  BY <1>6, ChainType, ChainMoves DEF RegisterStart
<1>7. ASSUME RegisterEnd(c) PROVE Stays /\ chain'[c].pc \in {"final", "idle"}
  <2>1. \/ chain' = [chain EXCEPT ![c] = Idle]
        \/ chain' = [chain EXCEPT ![c] = [chain[c] EXCEPT !.pc = "final"]]
    BY <1>7 DEF RegisterEnd, TypeOK
  <2>2. [chain[c] EXCEPT !.pc = "final"] \in ChainState
        /\ [chain[c] EXCEPT !.pc = "final"].pc = "final"
    BY <1>1 DEF ChainState
  <2> QED
    BY <2>1, <2>2, ChainType
<1>8. ASSUME Finalise(c) PROVE Stays /\ chain'[c].pc = "idle"
  BY <1>8, ChainType DEF Finalise
<1>9. ASSUME Crash(c)
      PROVE  /\ Stays
             /\ \/ chain'[c].pc = "idle"
                \/ chain'[c].pc = "register" /\ chain[c].pc = "registering"
                \/ chain'[c].pc = "appointment" /\ chain[c].pc \in AppointmentPCs
  <2>1. CASE chain' = [chain EXCEPT ![c] = Idle]
    BY <2>1, ChainType
  <2>2. CASE chain' # [chain EXCEPT ![c] = Idle]
    <3> DEFINE pc == IF chain[c].pc = "registering" THEN "register" ELSE "appointment"
    <3>1. chain' = [chain EXCEPT ![c].pc = pc, ![c].id = 0]
      BY <1>9, <2>2 DEF Crash, TypeOK
    <3>2. pc \in {"register"} \cup AppointmentPCs
      BY DEF AppointmentPCs
    <3>3. Stays /\ chain'[c].pc = pc
      <4> HIDE DEF pc
      <4> QED BY <1>1, <3>1, <3>2, ChainGoesOn
    <3>4. chain[c].pc \in {"book", "store", "registering"}
      BY <1>9 DEF Crash
    <3> QED
      BY <3>3, <3>4 DEF AppointmentPCs
  <2> QED
    BY <2>1, <2>2
<1>10. Stays
  BY <1>2, <1>3, <1>4, <1>5, <1>6, <1>7, <1>8, <1>9 DEF ChainStep
<1> QED
  BY <1>2, <1>3, <1>4, <1>5, <1>6, <1>7, <1>8, <1>9, <1>10

\* What a chain does keeps the types.
LEMMA ChainTypeStep ==
  ASSUME TypeOK, NEW c \in Chains, ChainStep(c) \/ Crash(c)
  PROVE  TypeOK'
<1> USE Values
<1>1. /\ chain' \in [Chains -> ChainState]
      /\ chain[c] \in ChainState
      /\ chain[c].id \in 0..MaxBookings
  BY ChainStepType DEF TypeOK, ChainState
<1>2. CASE DeleteInfo(c)
  <2>1. info' \in Info /\ leftBehind' \subseteq 0..MaxBookings
    BY <1>2 DEF DeleteInfo, TypeOK, Info
  <2> QED
    BY <1>1, <1>2, <2>1 DEF DeleteInfo, TypeOK, submissionVars, pluginVars, userVars, nightVars
<1>3. CASE Book(c)
  <2>1. made' \in 0..MaxBookings /\ booked' \subseteq 1..made'
    BY <1>3, BooksNew DEF Book
  <2> QED
    BY <1>1, <1>3, <2>1 DEF Book, TypeOK, submissionVars, userVars, nightVars
<1>4. CASE BookFails(c)
  <2>1. made' \in 0..MaxBookings /\ booked' \subseteq 1..made' /\ leftBehind' \subseteq 0..MaxBookings
    BY <1>4, BooksNew DEF BookFails, TypeOK, pluginVars
  <2>2. info' \in Info
    BY <1>4 DEF BookFails, TypeOK
  <2> QED
    BY <1>1, <1>4, <2>1, <2>2 DEF BookFails, TypeOK, submissionVars, userVars, nightVars
<1>5. CASE StoreInfo(c)
  <2>1. info' \in Info /\ leftBehind' \subseteq 0..MaxBookings
    BY <1>1, <1>5 DEF StoreInfo, TypeOK, Info, InfoStatuses
  <2> QED
    BY <1>1, <1>5, <2>1 DEF StoreInfo, TypeOK, submissionVars, pluginVars, userVars, nightVars
<1>6. CASE RegisterStart(c)
  <2>1. registration' \in RegistrationStatuses
    BY <1>6 DEF RegisterStart, TypeOK, RegistrationStatuses
  <2> QED
    BY <1>1, <1>6, <2>1 DEF RegisterStart, TypeOK, pluginVars, userVars, nightVars
<1>7. CASE RegisterEnd(c)
  <2>1. registration' \in RegistrationStatuses
    BY <1>7 DEF RegisterEnd, TypeOK, RegistrationStatuses
  <2>2. UNCHANGED <<exists, cleaned, info, pluginVars, userVars, nightVars, events, killed,
                    leftBehind>>
    BY <1>7 DEF RegisterEnd
  <2> QED
    BY <1>1, <2>1, <2>2 DEF TypeOK, pluginVars, userVars, nightVars
<1>8. CASE Finalise(c)
  BY <1>1, <1>8 DEF Finalise, TypeOK, submissionVars, pluginVars, nightVars
<1>9. CASE Crash(c)
  <2>1. killed' \in 0..MaxKilled
    BY <1>9, ConstantsAssumption DEF Crash, TypeOK, ConstantsAssumption
  <2>2. leftBehind' \subseteq 0..MaxBookings
    BY <1>1, <1>9 DEF Crash, TypeOK
  <2>3. UNCHANGED <<submissionVars, info, pluginVars, userVars, nightVars, events>>
    BY <1>9 DEF Crash
  <2> QED
    BY <1>1, <2>1, <2>2, <2>3 DEF TypeOK, submissionVars, pluginVars, userVars, nightVars
<1> QED
  BY <1>2, <1>3, <1>4, <1>5, <1>6, <1>7, <1>8, <1>9 DEF ChainStep

\* Every step keeps the types.
LEMMA TypeStep ==
  ASSUME TypeOK, [Next]_vars
  PROVE  TypeOK'
<1> USE Values
<1>1. CASE UNCHANGED vars
  BY <1>1 DEF TypeOK, vars
<1>2. ASSUME NEW c \in Chains, NEW event \in {"on_retry", "other"}, Send(c, event)
      PROVE  TypeOK'
  <2> DEFINE s == [pc |-> "appointment", event |-> event, id |-> 0]
  <2>1. s \in ChainState
    BY ConstantsAssumption DEF ConstantsAssumption, ChainState, AppointmentPCs
  <2>2. chain' \in [Chains -> ChainState]
    BY <1>2, <2>1, ChainType DEF Send
  <2>3. events' \in 0..MaxEvents
    BY <1>2, ConstantsAssumption DEF Send, TypeOK, ConstantsAssumption
  <2> QED
    BY <1>2, <2>2, <2>3 DEF Send, TypeOK, submissionVars, pluginVars, userVars, nightVars
<1>3. ASSUME NEW c \in Chains, ChainStep(c) \/ Crash(c) PROVE TypeOK'
  BY <1>3, ChainTypeStep
<1>4. CASE OpenLink
  BY <1>4 DEF OpenLink, TypeOK, submissionVars, pluginVars, nightVars
<1>5. CASE CancelBegin
  <2>1. cancel' \in Cancel
    BY <1>5 DEF CancelBegin, TypeOK, Info, Cancel
  <2> QED
    BY <1>5, <2>1 DEF CancelBegin, TypeOK, submissionVars, pluginVars, nightVars
<1>6. CASE CancelAtPlugin
  <2>1. cancel' \in Cancel /\ booked' \subseteq 1..made
    BY <1>6 DEF CancelAtPlugin, TypeOK, Cancel
  <2> QED
    BY <1>6, <2>1 DEF CancelAtPlugin, TypeOK, submissionVars, nightVars
<1>7. CASE CancelStore
  <2>1. info' \in Info /\ cancel' \in Cancel
    BY <1>7 DEF CancelStore, TypeOK, Info, InfoStatuses, Cancel
  <2> QED
    BY <1>7, <2>1 DEF CancelStore, TypeOK, submissionVars, pluginVars, nightVars
<1>8. CASE CancelKilled
  <2>1. killed' \in 0..MaxKilled
    BY <1>8, ConstantsAssumption DEF CancelKilled, TypeOK, ConstantsAssumption
  <2> QED
    BY <1>8, <2>1 DEF CancelKilled, TypeOK, submissionVars, pluginVars, nightVars
<1>9. CASE AppointmentPasses
  BY <1>9 DEF AppointmentPasses, TypeOK, submissionVars, pluginVars, userVars
<1>10. ASSUME NEW limit \in Limits, LimitPasses(limit) PROVE TypeOK'
  BY <1>10 DEF LimitPasses, TypeOK, submissionVars, pluginVars, userVars
<1>11. CASE DeleteFind \/ CleanFind
  <2>1. removal' \in Removal
    BY <1>11 DEF DeleteFind, CleanFind, TypeOK, Removal
  <2> QED
    BY <1>11, <2>1 DEF DeleteFind, CleanFind, TypeOK, submissionVars, pluginVars, userVars
<1>12. CASE DeleteDo
  <2>1. leftBehind' \subseteq 0..MaxBookings
    BY <1>12 DEF DeleteDo, TypeOK, Info
  <2> QED
    BY <1>12, <2>1 DEF DeleteDo, TypeOK, pluginVars, userVars
<1>13. CASE CleanDo
  <2>1. registration' \in RegistrationStatuses
    BY <1>13 DEF CleanDo, TypeOK, Removal
  <2> QED
    BY <1>13, <2>1 DEF CleanDo, TypeOK, pluginVars, userVars
<1> QED
  BY <1>1, <1>2, <1>3, <1>4, <1>5, <1>6, <1>7, <1>8, <1>9, <1>10, <1>11, <1>12, <1>13
     DEF Next, Night

\* Types of the state: the submission, its appointment, the chains and the nightly task.
THEOREM TypeCorrect == Spec => []TypeOK
<1>1. Init => TypeOK
  BY InitInv DEF Inv
<1>2. TypeOK /\ [Next]_vars => TypeOK'
  BY TypeStep
<1> QED
  BY <1>1, <1>2, PTL DEF Spec

-----------------------------------------------------------------------------
\* What is live

\* The facts about live appointments, together: they need each other.
Live ==
  Held /\ NamedWasMade /\ DeletedIsGone /\ InfoIsLive /\ NothingElseIsLive

\* A step after which the chains, the plugin and the names are as before.
LEMMA LiveKept ==
  ASSUME Inv, UNCHANGED <<info, booked, made, cancel, cut, leftBehind>>,
         \A c \in Chains :
           chain'[c] # chain[c] => chain[c].pc # "store" /\ chain'[c].pc # "store"
  PROVE  Live'
BY DEF Inv, Live, Held, NamedWasMade, DeletedIsGone, InfoIsLive, NothingElseIsLive, At

\* The appointment task.
LEMMA LiveTask ==
  ASSUME Inv, NEW c \in Chains, DeleteInfo(c) \/ Book(c) \/ BookFails(c) \/ StoreInfo(c) \/ Crash(c)
  PROVE  Live'
<1> USE Values
<1>1. /\ \A d \in Chains \ {c} : chain'[d] = chain[d]
      /\ cancel' = cancel /\ cut' = cut
  BY ChainStepType DEF Inv, ChainStep, DeleteInfo, Book, BookFails, StoreInfo, Crash, userVars
<1>2. /\ info \in Info /\ cancel \in Cancel /\ made \in Nat /\ booked \subseteq 1..made
      /\ info.id \in Nat /\ cancel.id \in Nat
  BY ConstantsAssumption DEF ConstantsAssumption, Inv, TypeOK, Info, Cancel
<1>3. \A d \in Chains : At(d, "store") => chain[d].id \in 1..made
  BY <1>2 DEF Inv, Held
<1>4. \A d \in Chains \ {c} : At(d, "store")' <=> At(d, "store")
  BY <1>1 DEF At
<1> USE DEF Live, Held, NamedWasMade, DeletedIsGone, InfoIsLive, NothingElseIsLive
<1>5. CASE DeleteInfo(c)
  <2>1. chain[c].pc = "appointment" /\ chain'[c].pc # "store" /\ UNCHANGED <<booked, made>>
    BY <1>5, ChainStepType DEF DeleteInfo, At, Inv, ChainStep, pluginVars
  <2>2. ~At(c, "store") /\ ~At(c, "store")'
    BY <1>1, <1>4, <2>1 DEF At
  <2>3. CASE exists
    <3>1. /\ info' = NoInfo
          /\ leftBehind' = IF info.status = "success" THEN leftBehind \cup {info.id} ELSE leftBehind
      BY <1>5, <2>3 DEF DeleteInfo
    <3> QED
      BY <1>1, <1>2, <1>4, <2>1, <2>2, <3>1 DEF Inv
  <2>4. CASE ~exists
    BY <1>1, <1>4, <1>5, <2>1, <2>2, <2>4 DEF DeleteInfo, Inv
  <2> QED
    BY <2>3, <2>4
<1>6. CASE Book(c)
  <2>1. /\ chain[c].pc = "book" /\ chain'[c].pc = "store" /\ chain'[c].id = made'
        /\ UNCHANGED <<info, leftBehind>>
    BY <1>6, ChainStepType DEF Book, At, Inv, ChainStep
  <2>2. made' = made + 1 /\ booked' = booked \cup {made'}
    BY <1>6, BooksNew DEF Book, Inv
  <2>3. ~At(c, "store") /\ At(c, "store")'
    BY <2>1 DEF At
  <2>4. Held' /\ NamedWasMade' /\ DeletedIsGone' /\ InfoIsLive'
    BY <1>1, <1>2, <1>3, <1>4, <2>1, <2>2, <2>3 DEF Inv
  <2>5. NothingElseIsLive'
    BY <1>1, <1>4, <2>1, <2>2, <2>3 DEF Inv
  <2> QED
    BY <2>4, <2>5
<1>7. CASE BookFails(c)
  <2>1. chain[c].pc = "book" /\ chain'[c].pc = "idle"
    BY <1>7, ChainStepType DEF BookFails, At, Inv, ChainStep
  <2>2. \/ UNCHANGED <<booked, made, leftBehind>>
        \/ /\ made' = made + 1 /\ booked' = booked \cup {made'}
           /\ leftBehind' = leftBehind \cup {made'}
    BY <1>7, BooksNew DEF BookFails, Inv, pluginVars
  <2>3. \/ info' = info
        \/ info.status = "none" /\ info' = [status |-> "failed", id |-> 0]
    BY <1>7 DEF BookFails, CanInsertInfo
  <2>4. ~At(c, "store") /\ ~At(c, "store")'
    BY <1>1, <1>4, <2>1 DEF At
  <2>5. Held' /\ NamedWasMade' /\ DeletedIsGone' /\ InfoIsLive'
    BY <1>1, <1>2, <1>3, <1>4, <2>2, <2>3, <2>4 DEF Inv
  <2>6. NothingElseIsLive'
    <3> SUFFICES ASSUME NEW id \in (booked \ leftBehind)'
                 PROVE  \/ info' = [status |-> "success", id |-> id]
                        \/ \E d \in Chains : At(d, "store")' /\ chain'[d].id = id
      OBVIOUS
    <3>1. id \in booked \ leftBehind
      BY <2>2
    <3>2. CASE info = [status |-> "success", id |-> id]
      BY <2>3, <3>2
    <3>3. CASE \E d \in Chains : At(d, "store") /\ chain[d].id = id
      BY <1>1, <1>4, <2>4, <3>3
    <3> QED
      BY <3>1, <3>2, <3>3 DEF Inv
  <2> QED
    BY <2>5, <2>6
<1>8. CASE StoreInfo(c)
  <2>1. /\ At(c, "store") /\ chain[c].pc = "store" /\ chain'[c].pc # "store"
        /\ UNCHANGED <<booked, made>>
    BY <1>8, ChainStepType DEF StoreInfo, At, Inv, ChainStep, pluginVars
  <2>2. ~At(c, "store")'
    BY <2>1 DEF At
  <2>3. \/ /\ info' = [status |-> "success", id |-> chain[c].id]
           /\ info.status = "none" /\ leftBehind' = leftBehind
        \/ info' = info /\ leftBehind' = leftBehind \cup {chain[c].id}
    BY <1>8 DEF StoreInfo, CanInsertInfo
  <2>4. Held' /\ NamedWasMade' /\ DeletedIsGone' /\ InfoIsLive'
    BY <1>1, <1>2, <1>3, <1>4, <2>1, <2>2, <2>3 DEF Inv
  <2>5. NothingElseIsLive'
    BY <1>1, <1>4, <2>1, <2>2, <2>3 DEF Inv
  <2> QED
    BY <2>4, <2>5
<1>9. CASE Crash(c)
  <2>1. /\ chain'[c].pc # "store"
        /\ UNCHANGED <<info, booked, made>>
        /\ leftBehind' = IF At(c, "store") THEN leftBehind \cup {chain[c].id} ELSE leftBehind
    BY <1>9, ChainStepType DEF Crash, Inv, pluginVars
  <2>2. \A d \in Chains : At(d, "store")' => At(d, "store") /\ chain'[d] = chain[d]
    BY <1>1, <2>1 DEF At
  <2>3. Held' /\ NamedWasMade' /\ DeletedIsGone' /\ InfoIsLive'
    BY <1>1, <2>1, <2>2 DEF Inv
  <2>4. NothingElseIsLive'
    BY <1>1, <2>1, <2>2 DEF Inv, At
  <2> QED
    BY <2>3, <2>4
<1> QED
  BY <1>5, <1>6, <1>7, <1>8, <1>9

\* The user, and the nightly deletion.
LEMMA LiveOthers ==
  ASSUME Inv, CancelBegin \/ CancelAtPlugin \/ CancelStore \/ CancelKilled \/ DeleteDo
  PROVE  Live'
<1> USE Values DEF Live, Held, NamedWasMade, DeletedIsGone, InfoIsLive, NothingElseIsLive
<1>1. /\ info \in Info /\ cancel \in Cancel /\ made \in Nat /\ booked \subseteq 1..made
      /\ info.id \in Nat /\ cancel.id \in Nat
  BY ConstantsAssumption DEF ConstantsAssumption, Inv, TypeOK, Info, Cancel
<1>2. \A d \in Chains : At(d, "store") => chain[d].id \in 1..made
  BY <1>1 DEF Inv
<1>3. UNCHANGED <<chain, made>>
  BY DEF CancelBegin, CancelAtPlugin, CancelStore, CancelKilled, DeleteDo, pluginVars
<1>4. CASE CancelBegin
  <2>1. cancel'.pc = "checked" /\ cancel'.id = info.id /\ cancel.pc = "idle"
    BY <1>4 DEF CancelBegin
  <2>2. UNCHANGED <<info, booked, cut, leftBehind>>
    BY <1>4 DEF CancelBegin, pluginVars
  <2> QED
    BY <1>3, <2>1, <2>2 DEF Inv, At
<1>5. CASE CancelAtPlugin
  <2>1. /\ cancel.pc = "checked" /\ UNCHANGED <<info, cut, leftBehind>>
        /\ \/ /\ booked' = booked \ {cancel.id}
              /\ cancel'.pc = "deleted" /\ cancel'.id = cancel.id
           \/ cancel'.pc = "idle" /\ cancel'.id = 0 /\ booked' = booked
    BY <1>1, <1>5 DEF CancelAtPlugin, Cancel
  <2>2. Held' /\ NamedWasMade' /\ DeletedIsGone'
    BY <1>1, <1>2, <1>3, <2>1 DEF Inv, At
  <2>3. InfoIsLive'
    BY <1>1, <2>1 DEF Inv
  <2>4. NothingElseIsLive'
    BY <1>3, <2>1 DEF Inv, At
  <2> QED
    BY <2>2, <2>3, <2>4
<1>6. CASE CancelStore
  <2>1. /\ cancel.pc = "deleted" /\ cancel'.pc = "idle" /\ cancel'.id = 0
        /\ UNCHANGED <<booked, cut, leftBehind>>
        /\ \/ /\ info' = [status |-> "cancelled", id |-> cancel.id]
              /\ info.status = "none" \/ info.id = cancel.id
           \/ info' = info /\ info.id # cancel.id
    BY <1>6 DEF CancelStore, CanInsertInfo, pluginVars
  <2>2. Held'
    BY <1>1, <1>2, <1>3, <2>1 DEF Inv, At
  <2>3. NamedWasMade' /\ DeletedIsGone'
    BY <1>1, <1>3, <2>1 DEF Inv
  <2>4. InfoIsLive'
    BY <2>1 DEF Inv
  <2>5. NothingElseIsLive'
    BY <1>3, <2>1 DEF Inv, At
  <2> QED
    BY <2>2, <2>3, <2>4, <2>5
<1>7. CASE CancelKilled
  <2>1. /\ cancel'.pc = "idle" /\ cancel'.id = 0
        /\ UNCHANGED <<info, booked, leftBehind>>
        /\ cut' = (cut \/ cancel.pc = "deleted")
    BY <1>7 DEF CancelKilled, pluginVars
  <2>2. Held' /\ NamedWasMade' /\ DeletedIsGone'
    BY <1>1, <1>2, <1>3, <2>1 DEF Inv, At
  <2>3. InfoIsLive'
    BY <2>1 DEF Inv, TypeOK
  <2>4. NothingElseIsLive'
    BY <1>3, <2>1 DEF Inv, At
  <2> QED
    BY <2>2, <2>3, <2>4
<1>8. CASE DeleteDo
  <2>1. /\ info' = NoInfo /\ UNCHANGED <<booked, cancel, cut>>
        /\ leftBehind' = IF info.status = "success" THEN leftBehind \cup {info.id} ELSE leftBehind
    BY <1>8 DEF DeleteDo, pluginVars, userVars
  <2>2. Held' /\ NamedWasMade' /\ DeletedIsGone' /\ InfoIsLive'
    BY <1>1, <1>2, <1>3, <2>1 DEF Inv, At
  <2>3. NothingElseIsLive'
    BY <1>3, <2>1 DEF Inv, At
  <2> QED
    BY <2>2, <2>3
<1> QED
  BY <1>4, <1>5, <1>6, <1>7, <1>8

\* Every step keeps the invariant.
LEMMA InvStep ==
  ASSUME Inv, [Next]_vars
  PROVE  Inv'
<1>1. TypeOK'
  BY TypeStep DEF Inv
<1>2. UNCHANGED vars => Live'
  BY LiveKept DEF vars
<1>3. ASSUME NEW c \in Chains, NEW event \in {"on_retry", "other"}, Send(c, event) PROVE Live'
  <2>1. \A d \in Chains :
          chain'[d] # chain[d] => chain[d].pc # "store" /\ chain'[d].pc # "store"
    BY <1>3 DEF Send, At, Inv, TypeOK
  <2> QED
    BY <1>3, <2>1, LiveKept DEF Send, pluginVars, userVars
<1>4. ASSUME NEW c \in Chains, RegisterStart(c) \/ RegisterEnd(c) \/ Finalise(c) PROVE Live'
  <2>1. \A d \in Chains :
          chain'[d] # chain[d] => chain[d].pc # "store" /\ chain'[d].pc # "store"
    <3>1. chain[c].pc # "store"
      BY <1>4 DEF RegisterStart, RegisterEnd, Finalise, At
    <3> QED
      BY <1>4, <3>1, ChainStepType DEF ChainStep, Inv
  <2>2. UNCHANGED <<info, booked, made, cancel, cut, leftBehind>>
    BY <1>4 DEF RegisterStart, RegisterEnd, Finalise, pluginVars, userVars
  <2> QED
    BY <2>1, <2>2, LiveKept
<1>5. ASSUME NEW c \in Chains,
             DeleteInfo(c) \/ Book(c) \/ BookFails(c) \/ StoreInfo(c) \/ Crash(c)
      PROVE  Live'
  BY <1>5, LiveTask
<1>6. CancelBegin \/ CancelAtPlugin \/ CancelStore \/ CancelKilled \/ DeleteDo => Live'
  BY LiveOthers
<1>7. ASSUME OpenLink \/ AppointmentPasses \/ DeleteFind \/ CleanFind \/ CleanDo PROVE Live'
  <2>1. UNCHANGED <<chain, info, booked, made, cancel, cut, leftBehind>>
    BY <1>7 DEF OpenLink, AppointmentPasses, DeleteFind, CleanFind, CleanDo, pluginVars, userVars
  <2> QED
    BY <2>1, LiveKept
<1>8. ASSUME NEW limit \in Limits, LimitPasses(limit) PROVE Live'
  BY <1>8, LiveKept DEF LimitPasses, pluginVars, userVars
<1>9. Live'
  BY <1>2, <1>3, <1>4, <1>5, <1>6, <1>7, <1>8 DEF Next, Night, ChainStep
<1> QED
  BY <1>1, <1>9 DEF Inv, Live

\* The invariant holds.
LEMMA InvHolds == Spec => []Inv
<1>1. Inv /\ [Next]_vars => Inv'
  BY InvStep
<1> QED
  BY InitInv, <1>1, PTL DEF Spec

\* An info that says success is about an appointment that is there.
THEOREM UsersSeeLive == Spec => []InfoIsLive
<1>1. Inv => InfoIsLive
  BY DEF Inv
<1> QED
  BY InvHolds, <1>1, PTL

\* An appointment that is there is known, about to be known, or was left behind in one of the
\* four known ways.
THEOREM LiveIsAccounted == Spec => []NothingElseIsLive
<1>1. Inv => NothingElseIsLive
  BY DEF Inv
<1> QED
  BY InvHolds, <1>1, PTL

=============================================================================
