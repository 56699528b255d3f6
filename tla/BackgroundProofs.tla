--------------------------- MODULE BackgroundProofs --------------------------
(* Theorems about what the agent does in the background, for all values of  *)
(* the constants: DidResolverCache (Spec) and SyncTimer (TimerSpec).        *)
EXTENDS MCBackground, TLAPS

-----------------------------------------------------------------------------
(* SyncTimer: one run, one timer, and a timer or a run of the interval       *)
(* exactly while periodic sync is wanted.                                    *)

\* The two invariants hold each other up: a tick that ends sets the interval
\* again because its timer, the only one, was put away when it began.
TimerInvariant == OneTimer /\ ArmedWhileWanted

\* The initial state: no timer, no run, nothing wanted (lines 71-72).
LEMMA TimerBegins == ASSUME TimerInit PROVE TimerInvariant
  <1>1. NotStopping \in NotStopping .. Polls
    BY TimerAssumption DEF NotStopping
  <1>2. TimerTypeOK
    BY <1>1 DEF TimerInit, TimerTypeOK
  <1>3. OneRun
    BY DEF TimerInit, OneRun
  <1>4. NoStrayTimer
    BY DEF TimerInit, NoStrayTimer
  <1>5. ArmedWhileWanted
    BY DEF TimerInit, ArmedWhileWanted, Kind
  <1>6. QED
    BY <1>2, <1>3, <1>4, <1>5 DEF TimerInvariant, OneTimer

\* A run that begins while the lock is free is the only one (lines 315-322).
LEMMA BeginKeeps ==
  ASSUME NEW k \in Kind, TimerTypeOK, OneRun, ~syncLock, Begin(k)
  PROVE  /\ syncLock' \in BOOLEAN /\ running' \in [Kind -> Nat] /\ OneRun'
         /\ running'[k] = 1 /\ \A j \in Kind \ {k} : running'[j] = 0
  <1>1. \A j \in Kind : running[j] = 0
    BY DEF TimerTypeOK, OneRun
  <1>2. running' = [running EXCEPT ![k] = running[k] + 1] /\ syncLock' = TRUE
    BY DEF Begin
  <1>3. \A j \in Kind : running'[j] = IF j = k THEN 1 ELSE 0
    BY <1>1, <1>2 DEF TimerTypeOK
  <1>4. QED
    BY <1>2, <1>3 DEF TimerTypeOK, OneRun

\* setInterval() leaves one timer, which is the one it returns (lines 353-358).
LEMMA SetKeeps ==
  ASSUME TimerTypeOK, NoStrayTimer, SetInterval
  PROVE  /\ live' \subseteq Timer /\ syncIntervalId' \in Timer
         /\ NoStrayTimer' /\ syncIntervalId' # NoTimer
  BY DEF TimerTypeOK, NoStrayTimer, SetInterval, Timer, NoTimer

\* clearInterval() leaves none (lines 339-340, 382-385).
LEMMA ClearKeeps ==
  ASSUME TimerTypeOK, NoStrayTimer, ClearInterval
  PROVE  live' = {} /\ syncIntervalId' = NoTimer /\ NoStrayTimer'
  BY DEF TimerTypeOK, NoStrayTimer, ClearInterval, Timer, NoTimer

\* Every step keeps both, whoever takes it.
LEMMA TimerStep ==
  ASSUME TimerInvariant, [TimerNext]_timerVars
  PROVE  TimerInvariant'
  <1> USE DEF TimerInvariant, OneTimer
  <1>1. CASE Sync
    <2>1. /\ running'["call"] = 1 /\ running'["tick"] = 0 /\ OneRun'
          /\ syncLock' \in BOOLEAN /\ running' \in [Kind -> Nat]
      BY <1>1, BeginKeeps, "call" \in Kind, "tick" \in Kind \ {"call"} DEF Sync, Kind
    <2>2. running["tick"] = 0
      BY <1>1 DEF Sync, OneRun, TimerTypeOK, Kind
    <2>3. QED
      BY <1>1, <2>1, <2>2 DEF Sync, TimerTypeOK, NoStrayTimer, ArmedWhileWanted
  <1>2. CASE StartSync
    <2>1. syncLock' \in BOOLEAN /\ running' \in [Kind -> Nat] /\ OneRun'
      <3>1. CASE syncLock
        BY <1>2, <3>1 DEF StartSync, TimerTypeOK, OneRun
      <3>2. CASE ~syncLock
        BY <1>2, <3>2, BeginKeeps, "start" \in Kind DEF StartSync, Kind
      <3>3. QED
        BY <3>1, <3>2
    <2>2. QED
      BY <1>2, <2>1, SetKeeps DEF StartSync, TimerTypeOK, ArmedWhileWanted
  <1>3. ASSUME NEW t \in Timer, IntervalSync(t)
        PROVE  TimerInvariant'
    <2>1. running'["tick"] = 1 /\ OneRun' /\ syncLock' \in BOOLEAN /\ running' \in [Kind -> Nat]
      BY <1>3, BeginKeeps, "tick" \in Kind DEF IntervalSync, Kind
    <2>2. wanted
      BY <1>3 DEF IntervalSync, NoStrayTimer, ArmedWhileWanted
    <2>3. QED
      BY <1>3, <2>1, <2>2, ClearKeeps DEF IntervalSync, TimerTypeOK, ArmedWhileWanted
  <1>4. ASSUME NEW k \in Kind, RunEnds(k)
        PROVE  TimerInvariant'
    <2>1. running[k] = 1 /\ \A j \in Kind \ {k} : running[j] = 0
      BY <1>4 DEF RunEnds, OneRun, TimerTypeOK
    <2>2. running' = [running EXCEPT ![k] = running[k] - 1] /\ syncLock' = FALSE
      BY <1>4 DEF RunEnds
    <2>3. \A j \in Kind : running'[j] = 0
      BY <2>1, <2>2 DEF TimerTypeOK
    <2>4. syncLock' \in BOOLEAN /\ running' \in [Kind -> Nat] /\ OneRun'
      <3>1. running' \in [Kind -> Nat]
        BY <2>1, <2>2, <2>3 DEF TimerTypeOK
      <3>2. OneRun'
        BY <2>2, <2>3 DEF OneRun
      <3>3. QED
        BY <2>2, <3>1, <3>2
    <2>5. /\ live' \subseteq Timer /\ syncIntervalId' \in Timer \cup {NoTimer} /\ NoStrayTimer'
          /\ wanted <=> syncIntervalId' # NoTimer
      <3>1. CASE k = "tick" /\ syncIntervalId = NoTimer
        <4>1. SetInterval /\ wanted
          BY <1>4, <2>1, <3>1 DEF RunEnds, ArmedWhileWanted
        <4>2. QED
          BY <4>1, SetKeeps
      <3>2. CASE ~(k = "tick" /\ syncIntervalId = NoTimer)
        <4>1. wanted <=> syncIntervalId # NoTimer
          BY <2>1, <3>2 DEF ArmedWhileWanted, Kind
        <4>2. QED
          BY <1>4, <3>2, <4>1 DEF RunEnds, TimerTypeOK, NoStrayTimer
      <3>3. QED
        BY <3>1, <3>2
    <2>6. running'["tick"] = 0
      BY <2>3 DEF Kind
    <2>7. stopping' = stopping /\ wanted' = wanted
      BY <1>4 DEF RunEnds
    <2>8. TimerTypeOK'
      BY <2>4, <2>5, <2>7 DEF TimerTypeOK
    <2>9. ArmedWhileWanted'
      <3>1. ~(running'["tick"] > 0)
        BY <2>6
      <3>2. QED
        BY <2>5, <2>7, <3>1 DEF ArmedWhileWanted
    <2>10. QED
      BY <2>4, <2>5, <2>8, <2>9
  <1>5. ASSUME NEW s \in Stopper, Stop(s)
        PROVE  TimerInvariant'
    <2>1. stopping' \in [Stopper -> NotStopping .. Polls]
      BY <1>5, TimerAssumption DEF Stop, StopSync, StopSyncWaits, StopSyncReturns,
                                   StopSyncThrows, TimerTypeOK, NotStopping
    <2>2. syncLock' = syncLock /\ running' = running
      BY <1>5 DEF Stop, StopSync, StopSyncWaits, StopSyncReturns, StopSyncThrows
    <2>3. CASE StopSync(s) \/ StopSyncReturns(s)
      <3>1. ClearInterval /\ ~wanted' /\ ~syncLock
        BY <2>3 DEF StopSync, StopSyncReturns
      <3>2. running["tick"] = 0
        BY <3>1 DEF OneRun, TimerTypeOK, Kind
      <3>3. live' = {} /\ syncIntervalId' = NoTimer /\ NoStrayTimer' /\ wanted' = FALSE
        <4>1. wanted' = FALSE
          BY <2>3 DEF StopSync, StopSyncReturns
        <4>2. QED
          BY <3>1, <4>1, ClearKeeps
      <3>4. TimerTypeOK'
        BY <2>1, <2>2, <3>3 DEF TimerTypeOK
      <3>5. OneRun'
        BY <2>2 DEF OneRun
      <3>6. ~(running'["tick"] > 0)
        BY <2>2, <3>2
      <3>7. ArmedWhileWanted'
        BY <3>3, <3>6 DEF ArmedWhileWanted
      <3>8. QED
        BY <3>3, <3>4, <3>5, <3>7
    <2>4. CASE StopSyncWaits(s) \/ StopSyncThrows(s)
      BY <2>1, <2>2, <2>4 DEF StopSyncWaits, StopSyncThrows, TimerTypeOK, OneRun, NoStrayTimer,
                              ArmedWhileWanted
    <2>5. QED
      BY <1>5, <2>3, <2>4 DEF Stop
  <1>6. CASE UNCHANGED timerVars
    BY <1>6 DEF timerVars, TimerTypeOK, OneRun, NoStrayTimer, ArmedWhileWanted
  <1>7. QED
    BY <1>1, <1>2, <1>3, <1>4, <1>5, <1>6 DEF TimerNext

\* However startSync(), ticks, sync() and stopSync() interleave, there is one
\* run, which has the lock, and one timer, which stopSync() would clear.
THEOREM OneTimerHolds == TimerSpec => []OneTimer
  <1>1. TimerInit => TimerInvariant
    BY TimerBegins
  <1>2. TimerInvariant /\ [TimerNext]_timerVars => TimerInvariant'
    BY TimerStep
  <1>3. TimerInvariant => OneTimer
    BY DEF TimerInvariant
  <1>4. QED
    BY <1>1, <1>2, <1>3, PTL DEF TimerSpec

\* A periodic sync that was started and not stopped is armed or running, after
\* failed runs and failed attempts to stop it too; one that was stopped is not.
THEOREM ArmedWhileWantedHolds == TimerSpec => []ArmedWhileWanted
  <1>1. TimerInit => TimerInvariant
    BY TimerBegins
  <1>2. TimerInvariant /\ [TimerNext]_timerVars => TimerInvariant'
    BY TimerStep
  <1>3. TimerInvariant => ArmedWhileWanted
    BY DEF TimerInvariant
  <1>4. QED
    BY <1>1, <1>2, <1>3, PTL DEF TimerSpec

-----------------------------------------------------------------------------
(* DidResolverCache: one refresh, and a cached copy of what is managed      *)

RefreshInvariant == OneRefresh /\ RefreshSteps

-----------------------------------------------------------------------------
(* The helpers the actions are built from *)

\* Setting the record of a caller.
LEMMA RecordSet ==
    ASSUME TypeOK, NEW c \in Caller, NEW r \in Call,
           call' = [call EXCEPT ![c] = r]
    PROVE  /\ call' \in [Caller -> Call]
           /\ \A b \in Caller : b # c => call'[b] = call[b]
           /\ call'[c] = r
BY DEF TypeOK

\* The records of a call with a document, and of one without.
LEMMA WithDocument ==
    ASSUME NEW s \in Step \ WithRecord, NEW d \in Did, NEW doc \in Doc,
           NEW r \in BOOLEAN
    PROVE  At(s, d, doc, r) \in Call
BY CacheAssumption DEF At, Call, Doc, NoDoc

LEMMA WithoutDocument ==
    ASSUME NEW s \in Step \ (WithDoc \cup WithRecord), NEW d \in Did,
           NEW r \in BOOLEAN
    PROVE  At(s, d, NoDoc, r) \in Call
BY DEF At, Call

\* Goto moves a caller and leaves the rest of its record alone.
LEMMA RecordMoved ==
    ASSUME TypeOK, NEW c \in Caller, NEW s \in Step \ WithRecord,
           s \in WithDoc => call[c].doc # NoDoc, Goto(c, s)
    PROVE  /\ call' \in [Caller -> Call]
           /\ \A b \in Caller : b # c => call'[b] = call[b]
           /\ call'[c] = [call[c] EXCEPT !.at = s]
<1>1. call[c] \in Call
  BY DEF TypeOK
<1>2. [call[c] EXCEPT !.at = s] \in Call
  BY <1>1 DEF Call
<1> QED
  BY <1>2 DEF TypeOK, Goto

\* Find moves a caller, too, and gives it the record it has found.
LEMMA RecordFound ==
    ASSUME TypeOK, NEW c \in Caller, NEW s \in WithRecord,
           s \in WithDoc => call[c].doc # NoDoc, Find(c, s)
    PROVE  /\ call' \in [Caller -> Call]
           /\ \A b \in Caller : b # c => call'[b] = call[b]
           /\ call'[c].at = s /\ call'[c].did = call[c].did
           /\ call'[c].refreshing = call[c].refreshing
<1>1. PICK r \in Record :
         call' = [call EXCEPT ![c].at = s, ![c].record = r]
  BY DEF Find
<1>2. call[c] \in Call /\ s \in Step /\ r # NoRecord
  BY DEF TypeOK, WithRecord, Step, Record, NoRecord
<1>3. [call[c] EXCEPT !.at = s, !.record = r] \in Call
  BY <1>2 DEF Call
<1>4. call' = [call EXCEPT ![c] = [call[c] EXCEPT !.at = s, !.record = r]]
  BY <1>1
<1>5. /\ call' \in [Caller -> Call]
      /\ \A b \in Caller : b # c => call'[b] = call[b]
      /\ call'[c] = [call[c] EXCEPT !.at = s, !.record = r]
  BY <1>3, <1>4 DEF TypeOK
<1> QED
  BY <1>2, <1>5 DEF Call

\* A document written to a record, and one that is taken away.
LEMMA StoredIsTyped ==
    ASSUME TypeOK, NEW d, NEW r, NEW doc \in Doc \cup {NoDoc},
           stored' = [stored EXCEPT ![d][r] = doc]
    PROVE  stored' \in [Did -> [Record -> Doc \cup {NoDoc}]]
BY DEF TypeOK

\* Ends leaves the caller idle.
LEMMA RecordEnded ==
    ASSUME TypeOK, NEW c \in Caller, Ends(c)
    PROVE  /\ call' \in [Caller -> Call]
           /\ \A b \in Caller : b # c => call'[b] = call[b]
           /\ call'[c] = Idle(call[c].did)
           /\ resolving' \subseteq Did
<1>1. call[c].did \in Did
  BY DEF TypeOK, Call
<1>2. "idle" \in Step \ (WithDoc \cup WithRecord)
  BY DEF Step, WithDoc, WithRecord
<1>3. Idle(call[c].did) \in Call
  BY <1>1, <1>2, WithoutDocument DEF Idle
<1>4. call' = [call EXCEPT ![c] = Idle(call[c].did)]
  BY DEF Ends
<1> QED
  BY <1>1, <1>3, <1>4, RecordSet DEF Ends, TypeOK

-----------------------------------------------------------------------------
(* What keeps the invariant *)

\* A step of a caller that keeps its part in the refresh of its DID.
LEMMA StepKeeps ==
    ASSUME RefreshInvariant, NEW c \in Caller,
           \A b \in Caller : b # c => call'[b] = call[b],
           call'[c].refreshing <=> call[c].refreshing,
           call[c].refreshing => call'[c].did = call[c].did,
           call'[c].at \in {"lookup", "resolveAgain"} => call'[c].refreshing,
           call'[c].at = "idle" => ~call'[c].refreshing,
           resolving' = resolving, threw' = threw
    PROVE  RefreshInvariant'
<1>1. \A b \in Caller, d \in Did : Refreshing(b, d)' <=> Refreshing(b, d)
  <2> SUFFICES ASSUME NEW b \in Caller, NEW d \in Did
               PROVE  Refreshing(b, d)' <=> Refreshing(b, d)
    OBVIOUS
  <2>1. CASE b = c
    BY <2>1 DEF Refreshing
  <2>2. CASE b # c
    BY <2>2 DEF Refreshing
  <2> QED
    BY <2>1, <2>2
<1>2. OneRefresh'
  BY <1>1 DEF OneRefresh, RefreshInvariant
<1>3. RefreshSteps'
  <2> SUFFICES ASSUME NEW b \in Caller
               PROVE  /\ call'[b].at \in {"lookup", "resolveAgain"}
                              => call'[b].refreshing
                      /\ call'[b].at = "idle" => ~call'[b].refreshing
    BY DEF RefreshSteps
  <2> QED
    BY DEF RefreshSteps, RefreshInvariant
<1> QED
  BY <1>2, <1>3 DEF RefreshInvariant

\* A call that ends, and takes its mark away if it is a refresh.
LEMMA EndKeeps ==
    ASSUME TypeOK, RefreshInvariant, NEW c \in Caller, Ends(c), threw' = threw
    PROVE  RefreshInvariant'
<1>1. /\ \A b \in Caller : b # c => call'[b] = call[b]
      /\ call'[c] = Idle(call[c].did)
  BY RecordEnded
<1>2. call'[c].at = "idle" /\ ~call'[c].refreshing
  BY <1>1 DEF Idle, At
<1>3. CASE ~call[c].refreshing
  <2>1. resolving' = resolving
    BY <1>3 DEF Ends
  <2> QED
    BY <1>1, <1>2, <1>3, <2>1, StepKeeps
<1>4. CASE call[c].refreshing
  <2>1. resolving' = resolving \ {call[c].did}
    BY <1>4 DEF Ends
  <2>2. \A b \in Caller, d \in Did :
           Refreshing(b, d)' <=> b # c /\ Refreshing(b, d)
    BY <1>1, <1>2 DEF Refreshing
  <2>3. \A b \in Caller, d \in Did :
           b # c /\ Refreshing(b, d) => d # call[c].did
    BY <1>4 DEF Refreshing, OneRefresh, RefreshInvariant
  <2>4. OneRefresh'
    <3> SUFFICES ASSUME NEW d \in Did
                 PROVE  /\ \A a, b \in Caller :
                              Refreshing(a, d)' /\ Refreshing(b, d)' => a = b
                        /\ \A b \in Caller :
                              Refreshing(b, d)' => d \in resolving'
                        /\ d \in resolving' => \/ d \in threw'
                                               \/ \E b \in Caller :
                                                     Refreshing(b, d)'
      BY DEF OneRefresh
    <3>1. CASE d = call[c].did
      BY <2>1, <2>2, <2>3, <3>1
    <3>2. CASE d # call[c].did
      <4>1. \A b \in Caller : Refreshing(b, d)' <=> Refreshing(b, d)
        BY <2>2, <3>2 DEF Refreshing
      <4> QED
        BY <2>1, <3>2, <4>1 DEF OneRefresh, RefreshInvariant
    <3> QED
      BY <3>1, <3>2
  <2>5. RefreshSteps'
    BY <1>1, <1>2 DEF RefreshSteps, RefreshInvariant
  <2> QED
    BY <2>4, <2>5 DEF RefreshInvariant
<1> QED
  BY <1>3, <1>4

-----------------------------------------------------------------------------
(* The steps of a caller *)

\* A call that begins: only the refresh marks its DID, which nobody has marked.
LEMMA BeginsKeeps ==
    ASSUME TypeOK, RefreshInvariant, NEW c \in Caller, Begins(c)
    PROVE  TypeOK' /\ RefreshInvariant'
<1> USE CacheAssumption
<1>1. PICK d \in Did :
         \/ Resolve(c, d) \/ Update(c, d) \/ Delete(c, d)
         \/ \E store \in BOOLEAN : Create(c, d, store)
         \/ \E doc \in Doc : Import(c, d, doc)
  BY DEF Begins
<1>2. ~call[c].refreshing
  BY <1>1 DEF RefreshInvariant, RefreshSteps, Resolve, Update, Delete, Create,
              Import
<1>3. ASSUME NEW s \in Step \ ({"idle", "lookup", "resolveAgain"} \cup WithRecord), NEW doc,
             At(s, d, doc, FALSE) \in Call,
             call' = [call EXCEPT ![c] = At(s, d, doc, FALSE)],
             UNCHANGED <<resolving, threw>>
      PROVE  call' \in [Caller -> Call] /\ RefreshInvariant'
  <2>1. /\ call' \in [Caller -> Call]
        /\ \A b \in Caller : b # c => call'[b] = call[b]
        /\ call'[c] = At(s, d, doc, FALSE)
    BY <1>3, RecordSet
  <2>2. call'[c].at = s /\ ~call'[c].refreshing
    BY <2>1 DEF At
  <2> QED
    BY <1>2, <1>3, <2>1, <2>2, StepKeeps
<1>4. CASE Resolve(c, d)
  <2>1. CASE entry[d] = NoEntry
    <3>1. /\ call' = [call EXCEPT ![c] = At("ask", d, NoDoc, FALSE)]
          /\ UNCHANGED <<resolving, threw>>
      BY <1>4, <2>1 DEF Resolve
    <3>2. /\ "ask" \in Step \ ({"idle", "lookup", "resolveAgain"} \cup WithRecord)
          /\ "ask" \in Step \ (WithDoc \cup WithRecord)
      BY DEF Step, WithDoc, WithRecord
    <3>3. At("ask", d, NoDoc, FALSE) \in Call
      BY <3>2, WithoutDocument
    <3>4. call' \in [Caller -> Call] /\ RefreshInvariant'
      BY <1>3, <3>1, <3>2, <3>3
    <3> QED
      BY <1>4, <3>1, <3>4 DEF Resolve, copies, TypeOK
  <2>2. CASE entry[d] # NoEntry
    <3>1. /\ d \notin resolving
          /\ resolving' = resolving \cup {d}
          /\ call' = [call EXCEPT ![c] = At("lookup", d, NoDoc, TRUE)]
          /\ UNCHANGED <<copies, latest, evicting, threw, givenUp>>
      BY <1>4, <2>2 DEF Resolve
    <3>2. /\ call' \in [Caller -> Call]
          /\ \A b \in Caller : b # c => call'[b] = call[b]
          /\ call'[c] = At("lookup", d, NoDoc, TRUE)
      <4>1. "lookup" \in Step \ (WithDoc \cup WithRecord)
        BY DEF Step, WithDoc, WithRecord
      <4>2. At("lookup", d, NoDoc, TRUE) \in Call
        BY <4>1, WithoutDocument
      <4> QED
        BY <3>1, <4>2, RecordSet
    <3>3. /\ call'[c].at = "lookup" /\ call'[c].did = d
          /\ call'[c].refreshing
      BY <3>2 DEF At
    <3>4. TypeOK'
      BY <3>1, <3>2 DEF TypeOK, copies
    <3>5. \A b \in Caller, e \in Did :
             Refreshing(b, e)' <=> (b = c /\ e = d) \/ Refreshing(b, e)
      <4> SUFFICES ASSUME NEW b \in Caller, NEW e \in Did
                   PROVE  Refreshing(b, e)' <=>
                             (b = c /\ e = d) \/ Refreshing(b, e)
        OBVIOUS
      <4>1. CASE b = c
        BY <1>2, <3>3, <4>1 DEF Refreshing
      <4>2. CASE b # c
        BY <3>2, <4>2 DEF Refreshing
      <4> QED
        BY <4>1, <4>2
    <3>6. \A b \in Caller : ~Refreshing(b, d)
      BY <3>1 DEF OneRefresh, RefreshInvariant
    <3>7. OneRefresh'
      BY <3>1, <3>5, <3>6 DEF OneRefresh, RefreshInvariant
    <3>8. RefreshSteps'
      BY <3>2, <3>3 DEF RefreshSteps, RefreshInvariant
    <3> QED
      BY <3>4, <3>7, <3>8 DEF RefreshInvariant
  <2> QED
    BY <2>1, <2>2
<1>5. CASE Update(c, d)
  <2>1. latest[d] + 1 \in Doc
    BY <1>5 DEF Update, TypeOK, Doc, NoDoc
  <2>2. /\ call' = [call EXCEPT ![c] = At("compare", d, latest[d] + 1, FALSE)]
        /\ UNCHANGED <<resolving, threw>>
    BY <1>5 DEF Update
  <2>3. "compare" \in Step \ ({"idle", "lookup", "resolveAgain"} \cup WithRecord)
    BY DEF Step, WithRecord
  <2>4. At("compare", d, latest[d] + 1, FALSE) \in Call
    BY <2>1, <2>3, WithDocument
  <2>5. call' \in [Caller -> Call] /\ RefreshInvariant'
    BY <1>3, <2>2, <2>3, <2>4
  <2> QED
    BY <1>5, <2>1, <2>2, <2>5 DEF Update, copies, TypeOK
<1>6. CASE Delete(c, d)
  <2>1. /\ call' = [call EXCEPT ![c] = At("deleteCache", d, NoDoc, FALSE)]
        /\ UNCHANGED <<resolving, threw>>
    BY <1>6 DEF Delete
  <2>2. /\ "deleteCache" \in Step \ ({"idle", "lookup", "resolveAgain"} \cup WithRecord)
        /\ "deleteCache" \in Step \ (WithDoc \cup WithRecord)
    BY DEF Step, WithDoc, WithRecord
  <2>3. At("deleteCache", d, NoDoc, FALSE) \in Call
    BY <2>2, WithoutDocument
  <2>4. call' \in [Caller -> Call] /\ RefreshInvariant'
    BY <1>3, <2>1, <2>2, <2>3
  <2> QED
    BY <1>6, <2>1, <2>4 DEF Delete, copies, TypeOK
<1>7. ASSUME NEW store \in BOOLEAN, Create(c, d, store)
      PROVE  TypeOK' /\ RefreshInvariant'
  <2> DEFINE next == IF store THEN "createCache" ELSE "cacheResult"
  <2>1. 1 \in Doc
    BY DEF Doc
  <2>2. next \in Step \ ({"idle", "lookup", "resolveAgain"} \cup WithRecord)
    BY DEF Step, WithRecord
  <2>3. /\ call' = [call EXCEPT ![c] = At(next, d, 1, FALSE)]
        /\ UNCHANGED <<resolving, threw>>
    BY <1>7 DEF Create
  <2> HIDE DEF next
  <2>4. At(next, d, 1, FALSE) \in Call
    BY <2>1, <2>2, WithDocument
  <2>5. call' \in [Caller -> Call] /\ RefreshInvariant'
    BY <1>3, <2>2, <2>3, <2>4
  <2> QED
    BY <1>7, <2>1, <2>3, <2>5 DEF Create, TypeOK
<1>8. ASSUME NEW doc \in Doc, Import(c, d, doc)
      PROVE  TypeOK' /\ RefreshInvariant'
  <2>1. /\ call' = [call EXCEPT ![c] = At("importCache", d, doc, FALSE)]
        /\ UNCHANGED <<resolving, threw>>
    BY <1>8 DEF Import
  <2>2. "importCache" \in Step \ ({"idle", "lookup", "resolveAgain"} \cup WithRecord)
    BY DEF Step, WithRecord
  <2>3. At("importCache", d, doc, FALSE) \in Call
    BY <2>2, WithDocument
  <2>4. call' \in [Caller -> Call] /\ RefreshInvariant'
    BY <1>3, <2>1, <2>2, <2>3
  <2> QED
    BY <1>8, <2>1, <2>4 DEF Import, copies, TypeOK
<1> QED
  BY <1>1, <1>4, <1>5, <1>6, <1>7, <1>8

\* A call that goes on.
LEMMA ContinuesKeeps ==
    ASSUME TypeOK, RefreshInvariant, NEW c \in Caller, Continues(c)
    PROVE  TypeOK' /\ RefreshInvariant'
<1> USE CacheAssumption
<1>1. /\ call[c] \in Call /\ call[c].did \in Did
      /\ call[c].doc \in Doc \cup {NoDoc} /\ call[c].refreshing \in BOOLEAN
  BY DEF TypeOK, Call
<1>2. ASSUME NEW s \in Step \ ({"idle", "lookup"} \cup WithRecord), Goto(c, s),
             s \in WithDoc => call[c].doc # NoDoc,
             s = "resolveAgain" => call[c].refreshing,
             UNCHANGED <<resolving, threw>>
      PROVE  call' \in [Caller -> Call] /\ RefreshInvariant'
  <2>1. /\ call' \in [Caller -> Call]
        /\ \A b \in Caller : b # c => call'[b] = call[b]
        /\ call'[c] = [call[c] EXCEPT !.at = s]
    BY <1>2, RecordMoved
  <2>2. /\ call'[c].at = s /\ call'[c].did = call[c].did
        /\ call'[c].refreshing = call[c].refreshing
    BY <1>1, <2>1 DEF Call
  <2>3. call'[c].refreshing <=> call[c].refreshing
    BY <2>2
  <2>4. /\ call'[c].at \in {"lookup", "resolveAgain"} => call'[c].refreshing
        /\ call'[c].at = "idle" => ~call'[c].refreshing
    BY <1>2, <2>2, <2>3
  <2> QED
    BY <1>2, <2>1, <2>2, <2>3, <2>4, StepKeeps
<1>3. ASSUME NEW s \in Step \ ({"idle", "lookup", "resolveAgain"} \cup WithRecord),
             NEW doc \in Doc, NEW r \in BOOLEAN, r <=> call[c].refreshing,
             call' = [call EXCEPT ![c] = At(s, call[c].did, doc, r)],
             UNCHANGED <<resolving, threw>>
      PROVE  call' \in [Caller -> Call] /\ RefreshInvariant'
  <2> DEFINE record == At(s, call[c].did, doc, r)
  <2>1. /\ call' \in [Caller -> Call]
        /\ \A b \in Caller : b # c => call'[b] = call[b]
        /\ call'[c] = record
    <3>1. record \in Call
      BY <1>1, WithDocument
    <3>2. call' = [call EXCEPT ![c] = record]
      BY <1>3
    <3> HIDE DEF record
    <3> QED
      BY <3>1, <3>2, RecordSet
  <2>2. /\ call'[c].at = s /\ call'[c].did = call[c].did
        /\ call'[c].refreshing = r
    BY <2>1 DEF At
  <2>3. call'[c].refreshing <=> call[c].refreshing
    BY <1>3, <2>2
  <2> QED
    BY <1>3, <2>1, <2>2, <2>3, StepKeeps
<1>4. ASSUME Ends(c), UNCHANGED threw
      PROVE  /\ call' \in [Caller -> Call] /\ resolving' \subseteq Did
             /\ RefreshInvariant'
  BY <1>4, RecordEnded, EndKeeps
<1>5. ASSUME NEW doc \in Doc, Put(call[c].did, doc)
      PROVE  entry' \in [Did -> Entry \cup {NoEntry}]
  BY <1>1, <1>5 DEF Put, TypeOK, Entry
<1>6. CASE Answered(c)
  <2>1. /\ call' = [call EXCEPT ![c] =
                       At("cacheResult", call[c].did, published[call[c].did],
                          call[c].refreshing)]
        /\ UNCHANGED <<resolving, threw>>
        /\ published[call[c].did] \in Doc /\ NoDoc \notin Doc
    BY <1>1, <1>6 DEF Answered, TypeOK, Doc, NoDoc
  <2>2. call' \in [Caller -> Call] /\ RefreshInvariant'
    BY <1>1, <1>3, <2>1 DEF Step, WithRecord
  <2> QED
    BY <1>6, <2>1, <2>2 DEF Answered, copies, TypeOK
<1>7. CASE Unanswered(c)
  BY <1>4, <1>7 DEF Unanswered, copies, TypeOK
<1>8. ASSUME NEW doc, Put(call[c].did, doc)
      PROVE  givenUp' \subseteq Did
  BY <1>8 DEF Put, TypeOK
<1>9. CASE Lookup(c)
  <2>1. CASE Managed(call[c].did)
    <3>1. Goto(c, "resolveAgain") /\ UNCHANGED <<evicting, resolving, threw, givenUp>>
      BY <1>9, <2>1 DEF Lookup
    <3>2. call[c].refreshing
      BY <1>9 DEF Lookup, RefreshSteps, RefreshInvariant
    <3>3. call' \in [Caller -> Call] /\ RefreshInvariant'
      BY <1>2, <3>1, <3>2 DEF Step, WithDoc, WithRecord
    <3> QED
      BY <1>9, <3>1, <3>3 DEF Lookup, copies, TypeOK
  <2>2. CASE ~Managed(call[c].did)
    <3>1. Goto(c, "unmanaged") /\ UNCHANGED <<evicting, resolving, threw>>
          /\ givenUp' = givenUp \cup {call[c].did}
      BY <1>9, <2>2 DEF Lookup
    <3>2. call' \in [Caller -> Call] /\ RefreshInvariant'
      BY <1>2, <3>1 DEF Step, WithDoc, WithRecord
    <3> QED
      BY <1>1, <1>9, <3>1, <3>2 DEF Lookup, copies, TypeOK
  <2> QED
    BY <2>1, <2>2
<1>10. CASE Unmanaged(c)
  BY <1>1, <1>4, <1>10 DEF Unmanaged, copies, TypeOK
<1>11. CASE LookupFails(c)
  <2>1. /\ call' = [call EXCEPT ![c] = At("idle", call[c].did, NoDoc, FALSE)]
        /\ threw' = threw \cup {call[c].did}
        /\ UNCHANGED <<copies, latest, resolving, evicting, givenUp>>
    BY <1>11 DEF LookupFails, Idle
  <2>2. /\ call' \in [Caller -> Call]
        /\ \A b \in Caller : b # c => call'[b] = call[b]
        /\ call'[c] = At("idle", call[c].did, NoDoc, FALSE)
    <3>1. "idle" \in Step \ (WithDoc \cup WithRecord)
      BY DEF Step, WithDoc, WithRecord
    <3>2. At("idle", call[c].did, NoDoc, FALSE) \in Call
      BY <1>1, <3>1, WithoutDocument
    <3> QED
      BY <2>1, <3>2, RecordSet
  <2>3. call'[c].at = "idle" /\ ~call'[c].refreshing
    BY <2>2 DEF At
  <2>4. \A b \in Caller, d \in Did :
           Refreshing(b, d)' <=> b # c /\ Refreshing(b, d)
    BY <2>2, <2>3 DEF Refreshing
  <2>5. \A d \in Did : Refreshing(c, d) => d \in threw'
    BY <2>1 DEF Refreshing
  <2>6. OneRefresh'
    <3> SUFFICES ASSUME NEW d \in Did
                 PROVE  /\ \A a, b \in Caller :
                              Refreshing(a, d)' /\ Refreshing(b, d)' => a = b
                        /\ \A b \in Caller :
                              Refreshing(b, d)' => d \in resolving'
                        /\ d \in resolving' => \/ d \in threw'
                                               \/ \E b \in Caller :
                                                     Refreshing(b, d)'
      BY DEF OneRefresh
    <3>1. /\ \A a, b \in Caller : Refreshing(a, d) /\ Refreshing(b, d) => a = b
          /\ \A b \in Caller : Refreshing(b, d) => d \in resolving
          /\ d \in resolving => d \in threw \/ \E b \in Caller : Refreshing(b, d)
      BY DEF OneRefresh, RefreshInvariant
    <3> QED
      BY <2>1, <2>4, <2>5, <3>1
  <2>7. RefreshSteps'
    BY <2>2, <2>3 DEF RefreshSteps, RefreshInvariant
  <2> QED
    BY <1>1, <2>1, <2>2, <2>6, <2>7 DEF RefreshInvariant, copies, TypeOK
<1>12. CASE ResolveAgain(c)
  <2>1. call[c].refreshing
    BY <1>12 DEF ResolveAgain, RefreshSteps, RefreshInvariant
  <2>2. CASE entry[call[c].did] = NoEntry
    <3>1. Goto(c, "ask") /\ UNCHANGED <<resolving, threw>>
      BY <1>12, <2>2 DEF ResolveAgain
    <3>2. call' \in [Caller -> Call] /\ RefreshInvariant'
      BY <1>2, <3>1 DEF Step, WithDoc, WithRecord
    <3> QED
      BY <1>12, <3>1, <3>2 DEF ResolveAgain, copies, TypeOK
  <2>3. CASE entry[call[c].did] # NoEntry
    <3>1. entry[call[c].did].doc \in Doc
      BY <1>1, <2>3 DEF TypeOK, Entry
    <3>2. /\ call' = [call EXCEPT ![c] = At("compare", call[c].did,
                                            entry[call[c].did].doc, TRUE)]
          /\ UNCHANGED <<resolving, threw>>
      BY <1>12, <2>3 DEF ResolveAgain
    <3>3. call' \in [Caller -> Call] /\ RefreshInvariant'
      <4>1. "compare" \in Step \ ({"idle", "lookup", "resolveAgain"} \cup WithRecord)
        BY DEF Step, WithRecord
      <4> QED
        BY <1>3, <2>1, <3>1, <3>2, <4>1
    <3> QED
      BY <1>12, <3>2, <3>3 DEF ResolveAgain, copies, TypeOK
  <2> QED
    BY <2>2, <2>3
<1>13. CASE CacheResult(c)
  <2>1. /\ call[c].doc \in Doc /\ givenUp' \subseteq Did
        /\ entry' \in [Did -> Entry \cup {NoEntry}]
    BY <1>1, <1>5, <1>8, <1>13 DEF CacheResult, Call, WithDoc, Step
  <2>2. CASE call[c].refreshing
    <3>1. call' \in [Caller -> Call] /\ RefreshInvariant'
      BY <1>2, <1>13, <2>1, <2>2 DEF CacheResult, Step, Doc, NoDoc, WithRecord
    <3> QED
      BY <1>13, <2>1, <2>2, <3>1 DEF CacheResult, TypeOK
  <2>3. CASE ~call[c].refreshing
    BY <1>4, <1>13, <2>1, <2>3 DEF CacheResult, TypeOK
  <2> QED
    BY <2>2, <2>3
<1>14. CASE UpdateAborts(c)
  BY <1>4, <1>14 DEF UpdateAborts, copies, TypeOK
<1>15. CASE UpdateProceeds(c)
  <2>1. call[c].doc # NoDoc
    BY <1>1, <1>15 DEF UpdateProceeds, Call, WithDoc
  <2>2. call' \in [Caller -> Call] /\ RefreshInvariant'
    BY <1>2, <1>15, <2>1 DEF UpdateProceeds, Step, WithRecord
  <2> QED
    BY <1>15, <2>2 DEF UpdateProceeds, copies, TypeOK
<1>16. CASE UpdateCache(c)
  <2>1. /\ call[c].doc \in Doc /\ givenUp' \subseteq Did
        /\ entry' \in [Did -> Entry \cup {NoEntry}]
    BY <1>1, <1>5, <1>8, <1>16 DEF UpdateCache, Call, WithDoc, Step
  <2>2. call' \in [Caller -> Call] /\ RefreshInvariant'
    BY <1>2, <1>16, <2>1 DEF UpdateCache, Step, Doc, NoDoc, WithRecord
  <2> QED
    BY <1>16, <2>1, <2>2 DEF UpdateCache, TypeOK
<1>17. ASSUME NEW s \in WithRecord, Find(c, s),
              s \in WithDoc => call[c].doc # NoDoc, UNCHANGED <<resolving, threw>>
       PROVE  call' \in [Caller -> Call] /\ RefreshInvariant'
  <2>1. /\ call' \in [Caller -> Call]
        /\ \A b \in Caller : b # c => call'[b] = call[b]
        /\ call'[c].at = s /\ call'[c].did = call[c].did
        /\ call'[c].refreshing = call[c].refreshing
    BY <1>17, RecordFound
  <2>2. s \notin {"lookup", "resolveAgain", "idle"}
    BY DEF WithRecord
  <2> QED
    BY <1>17, <2>1, <2>2, StepKeeps
<1>18. CASE UpdateStore(c)
  <2>1. call[c].doc # NoDoc /\ "updateWrite" \in WithRecord
    BY <1>1, <1>18 DEF UpdateStore, Call, WithDoc, WithRecord, Step
  <2> QED
    BY <1>18, <1>17, <2>1 DEF UpdateStore, copies, TypeOK
<1>19. CASE UpdateWrite(c)
  <2>1. stored' \in [Did -> [Record -> Doc \cup {NoDoc}]]
    BY <1>1, <1>19, StoredIsTyped DEF UpdateWrite
  <2>2. call[c].doc # NoDoc
    BY <1>1, <1>19 DEF UpdateWrite, Call, WithDoc, Step
  <2>3. CASE call[c].refreshing
    BY <1>4, <1>19, <2>1, <2>3 DEF UpdateWrite, AfterUpdate, TypeOK
  <2>4. CASE ~call[c].refreshing
    <3>1. call' \in [Caller -> Call] /\ RefreshInvariant'
      BY <1>2, <1>19, <2>2, <2>4 DEF UpdateWrite, AfterUpdate, Step, WithRecord
    <3> QED
      BY <1>19, <2>1, <2>4, <3>1 DEF UpdateWrite, AfterUpdate, TypeOK
  <2> QED
    BY <2>3, <2>4
<1>20. CASE Publish(c)
  <2>1. published' \in [Did -> Doc \cup {NoDoc}]
    BY <1>1, <1>20 DEF Publish, TypeOK
  <2> QED
    BY <1>4, <1>20, <2>1 DEF Publish, TypeOK
<1>21. CASE CacheNew(c)
  <2> DEFINE next == IF call[c].at = "createCache" THEN "createStore"
                     ELSE "importStore"
  <2>1. /\ call[c].doc \in Doc /\ givenUp' \subseteq Did
        /\ entry' \in [Did -> Entry \cup {NoEntry}]
    BY <1>1, <1>5, <1>8, <1>21 DEF CacheNew, Call, WithDoc, Step
  <2>2. next \in Step \ ({"idle", "lookup", "resolveAgain"} \cup WithRecord)
    BY DEF Step, WithRecord
  <2>3. Goto(c, next) /\ UNCHANGED <<resolving, threw>>
    BY <1>21 DEF CacheNew
  <2> HIDE DEF next
  <2>4. call' \in [Caller -> Call] /\ RefreshInvariant'
    BY <1>2, <2>1, <2>2, <2>3 DEF Doc, NoDoc
  <2> QED
    BY <1>21, <2>1, <2>4 DEF CacheNew, TypeOK
<1>22. CASE ImportStore(c)
  <2>1. call[c].doc # NoDoc
    BY <1>1, <1>22 DEF ImportStore, Call, WithDoc, Step
  <2>2. call' \in [Caller -> Call] /\ RefreshInvariant'
    BY <1>2, <1>22, <2>1 DEF ImportStore, Step, WithRecord
  <2> QED
    BY <1>22, <2>2 DEF ImportStore, copies, TypeOK
<1>23. CASE StoreNew(c)
  <2>1. stored' \in [Did -> [Record -> Doc \cup {NoDoc}]]
    BY <1>1, <1>23, StoredIsTyped DEF StoreNew
  <2> QED
    BY <1>4, <1>23, <2>1 DEF StoreNew, TypeOK
<1>24. CASE DeleteCache(c)
  <2>1. call' \in [Caller -> Call] /\ RefreshInvariant'
    BY <1>2, <1>24 DEF DeleteCache, Step, WithDoc, WithRecord
  <2> QED
    BY <1>1, <1>24, <2>1 DEF DeleteCache, TypeOK
<1>25. CASE DeleteStore(c)
  <2>1. CASE Find(c, "deleteWrite") /\ UNCHANGED resolving
    <3>1. "deleteWrite" \in WithRecord \ WithDoc
      BY DEF WithRecord, WithDoc
    <3> QED
      BY <1>25, <1>17, <2>1, <3>1 DEF DeleteStore, copies, TypeOK
  <2>2. CASE Ends(c)
    BY <1>4, <1>25, <2>2 DEF DeleteStore, copies, TypeOK
  <2> QED
    BY <1>25, <2>1, <2>2 DEF DeleteStore
<1>26. CASE DeleteWrite(c)
  <2>1. stored' \in [Did -> [Record -> Doc \cup {NoDoc}]]
    BY <1>1, <1>26, StoredIsTyped DEF DeleteWrite
  <2> QED
    BY <1>4, <1>26, <2>1 DEF DeleteWrite, TypeOK
<1>27. CASE StoreFails(c)
  BY <1>4, <1>27 DEF StoreFails, copies, TypeOK
<1> QED
  BY <1>6, <1>7, <1>9, <1>10, <1>11, <1>12, <1>13, <1>14, <1>15, <1>16, <1>18,
     <1>19, <1>20, <1>21, <1>22, <1>23, <1>24, <1>25, <1>26, <1>27 DEF Continues

-----------------------------------------------------------------------------
(* The theorems *)

LEMMA InitHolds == Init => TypeOK /\ RefreshInvariant
<1> SUFFICES ASSUME Init PROVE TypeOK /\ RefreshInvariant
  OBVIOUS
<1>1. PICK d \in Did : call = [c \in Caller |-> Idle(d)]
  BY DEF Init
<1>2. /\ Idle(d) \in Call
      /\ Idle(d).at = "idle" /\ ~Idle(d).refreshing
  BY DEF Idle, At, Call, Step, WithDoc, WithRecord
<1>3. TypeOK
  BY <1>1, <1>2 DEF Init, TypeOK
<1>4. \A c \in Caller : call[c].at = "idle" /\ ~call[c].refreshing
  BY <1>1, <1>2
<1> QED
  BY <1>3, <1>4 DEF Init, RefreshInvariant, OneRefresh, RefreshSteps,
                    Refreshing

LEMMA NextKeeps ==
    TypeOK /\ RefreshInvariant /\ [Next]_vars => TypeOK' /\ RefreshInvariant'
<1> SUFFICES ASSUME TypeOK, RefreshInvariant, [Next]_vars
             PROVE  TypeOK' /\ RefreshInvariant'
  OBVIOUS
<1> USE CacheAssumption
<1>1. ASSUME UNCHANGED <<call, resolving, threw>>
      PROVE  RefreshInvariant'
  BY <1>1 DEF RefreshInvariant, OneRefresh, RefreshSteps, Refreshing
<1>2. CASE \E c \in Caller : Begins(c) \/ Continues(c)
  BY <1>2, BeginsKeeps, ContinuesKeeps
<1>3. ASSUME NEW d \in Did, Expire(d) PROVE TypeOK' /\ RefreshInvariant'
  <2>1. entry[d] \in Entry
    BY <1>3 DEF Expire, TypeOK, NoEntry
  <2>2. [entry[d] EXCEPT !.fresh = FALSE] \in Entry
    BY <2>1 DEF Entry
  <2>3. entry' = [entry EXCEPT ![d] = [entry[d] EXCEPT !.fresh = FALSE]]
    BY <1>3 DEF Expire
  <2> QED
    BY <1>1, <1>3, <2>2, <2>3 DEF Expire, TypeOK
<1>4. ASSUME NEW d \in Did, Evict(d) PROVE TypeOK' /\ RefreshInvariant'
  BY <1>1, <1>4 DEF Evict, TypeOK
<1>5. ASSUME NEW d \in Did, PublishElsewhere(d)
      PROVE  TypeOK' /\ RefreshInvariant'
  <2>1. latest[d] + 1 \in Doc
    BY <1>5 DEF PublishElsewhere, TypeOK, Doc, NoDoc
  <2> QED
    BY <1>1, <1>5, <2>1 DEF PublishElsewhere, TypeOK
<1>6. CASE Crash
  <2>1. \A c \in Caller : /\ Idle(call[c].did) \in Call
                          /\ Idle(call[c].did).at = "idle"
                          /\ ~Idle(call[c].did).refreshing
    BY DEF TypeOK, Idle, At, Call, Step, WithDoc, WithRecord
  <2>2. call' = [c \in Caller |-> Idle(call[c].did)]
    BY <1>6 DEF Crash
  <2>3. TypeOK'
    BY <1>6, <2>1, <2>2 DEF Crash, copies, TypeOK
  <2>4. \A c \in Caller : call'[c].at = "idle" /\ ~call'[c].refreshing
    BY <2>1, <2>2
  <2> QED
    BY <1>6, <2>3, <2>4 DEF Crash, RefreshInvariant, OneRefresh, RefreshSteps,
                            Refreshing
<1>7. CASE UNCHANGED vars
  BY <1>1, <1>7 DEF vars, TypeOK
<1> QED
  BY <1>2, <1>3, <1>4, <1>5, <1>6, <1>7 DEF Next

\* Every variable keeps its type, whatever the DIDs, callers and failures.
THEOREM CacheTypeCorrect == Spec => []TypeOK
<1>1. TypeOK /\ RefreshInvariant /\ [Next]_vars
         => (TypeOK /\ RefreshInvariant)'
  BY NextKeeps
<1> QED
  BY <1>1, InitHolds, PTL DEF Spec

\* However many calls resolve a DID at once, one of them refreshes it, and
\* the mark that keeps the others out goes with it unless the lookup throws
\* (agent-did-resolver-cache.ts lines 49-85).
THEOREM OneRefreshHolds == Spec => []OneRefresh
<1>1. TypeOK /\ RefreshInvariant /\ [Next]_vars
         => (TypeOK /\ RefreshInvariant)'
  BY NextKeeps
<1>2. RefreshInvariant => OneRefresh
  BY DEF RefreshInvariant
<1> QED
  BY <1>1, <1>2, InitHolds, PTL DEF Spec

-----------------------------------------------------------------------------
(* A managed DID is cached.                                                 *)

CachedInvariant == ManagedCached /\ EvictionExcused

\* What ManagedCached says of a managed DID, and the steps just before the
\* store has it.
Covered(d) == entry[d] # NoEntry \/ d \in givenUp
Storing == {"createStore", "importStore", "importWrite"}

\* Goto moves a caller, with whatever it holds.
LEMMA Moved ==
    ASSUME TypeOK, NEW c \in Caller, NEW s, Goto(c, s)
    PROVE  /\ \A b \in Caller : b # c => call'[b] = call[b]
           /\ call'[c].at = s /\ call'[c].did = call[c].did
<1>1. call[c] \in Call
  BY DEF TypeOK
<1>2. call' = [call EXCEPT ![c] = [call[c] EXCEPT !.at = s]]
  BY DEF Goto
<1>3. /\ \A b \in Caller : b # c => call'[b] = call[b]
      /\ call'[c] = [call[c] EXCEPT !.at = s]
  BY <1>2 DEF TypeOK
<1> QED
  BY <1>1, <1>3 DEF Call

\* A step of one caller that uncovers no DID, stores only what is covered and
\* evicts only what is given up.
LEMMA CallerKeeps ==
    ASSUME CachedInvariant, NEW c \in Caller,
           \A b \in Caller : b # c => call'[b] = call[b],
           \A d \in Did : Covered(d) => Covered(d)',
           \A d \in Did : Managed(d)' => Managed(d) \/ Covered(d)',
           \A d \in Did : ToBeEvicted(d) => d \in givenUp',
           \A d \in Did : d \in evicting' => d \in evicting \/ d \in givenUp',
           call'[c].at = "unmanaged" => call'[c].did \in givenUp',
           call'[c].at \in Storing => Covered(call[c].did)',
           \A b \in Caller : call[b].did \in Did
    PROVE  CachedInvariant'
<1>1. ManagedCached'
  BY DEF CachedInvariant, ManagedCached, Covered
<1>2. \A d \in Did : ToBeEvicted(d)' => d \in givenUp'
  <2> SUFFICES ASSUME NEW d \in Did, ToBeEvicted(d)' PROVE d \in givenUp'
    OBVIOUS
  <2>1. CASE d \in evicting'
    BY <2>1 DEF ToBeEvicted
  <2>2. ASSUME NEW b \in Caller, call'[b].at = "unmanaged", call'[b].did = d
        PROVE  d \in givenUp'
    <3>1. CASE b = c
      BY <2>2, <3>1
    <3>2. CASE b # c
      BY <2>2, <3>2 DEF ToBeEvicted
    <3> QED
      BY <3>1, <3>2
  <2> QED
    BY <2>1, <2>2 DEF ToBeEvicted
<1>3. \A b \in Caller : call'[b].at \in Storing => Covered(call[b].did)'
  <2> SUFFICES ASSUME NEW b \in Caller, call'[b].at \in Storing
               PROVE  Covered(call[b].did)'
    OBVIOUS
  <2>1. CASE b # c
    <3>1. Covered(call[b].did) /\ call'[b] = call[b]
      BY <2>1 DEF CachedInvariant, EvictionExcused, Covered, Storing
    <3> QED
      BY <3>1 DEF Covered
  <2> QED
    BY <2>1
<1> QED
  BY <1>1, <1>2, <1>3 DEF CachedInvariant, EvictionExcused, Covered, Storing

\* A step that leaves cache, store and evictions alone.
LEMMA QuietKeeps ==
    ASSUME TypeOK, CachedInvariant, NEW c \in Caller,
           UNCHANGED <<entry, stored, evicting, givenUp>>,
           \A b \in Caller : b # c => call'[b] = call[b],
           call'[c].at \notin {"unmanaged"} \cup Storing
    PROVE  CachedInvariant'
<1>1. \A d \in Did : (Covered(d) <=> Covered(d)') /\ (Managed(d) <=> Managed(d)')
  BY DEF Covered, Managed, Documents
<1>2. \A d \in Did : ToBeEvicted(d) => d \in givenUp'
  BY DEF CachedInvariant, EvictionExcused
<1>3. \A b \in Caller : call[b].did \in Did
  BY DEF TypeOK, Call
<1> QED
  BY <1>1, <1>2, <1>3, CallerKeeps

\* A caller puts the document it holds into the cache.
LEMMA PutKeeps ==
    ASSUME TypeOK, CachedInvariant, NEW c \in Caller, call[c].at \in WithDoc,
           Put(call[c].did, call[c].doc), UNCHANGED <<stored, evicting>>,
           \A b \in Caller : b # c => call'[b] = call[b],
           call'[c].did = call[c].did, call'[c].at # "unmanaged"
    PROVE  CachedInvariant'
<1>1. call[c].doc \in Doc /\ call[c].doc # NoDoc /\ call[c].did \in Did
  BY DEF TypeOK, Call
<1>2. [doc |-> call[c].doc, fresh |-> TRUE] # NoEntry
  BY <1>1 DEF NoEntry
<1>3. /\ entry'[call[c].did] # NoEntry
      /\ \A d \in Did : d # call[c].did => entry'[d] = entry[d]
  BY <1>1, <1>2 DEF Put, TypeOK
<1>4. /\ \A d \in Did : d # call[c].did /\ d \in givenUp => d \in givenUp'
      /\ ToBeEvicted(call[c].did) => givenUp' = givenUp
  BY DEF Put
<1>5. \A d \in Did : Covered(d) => Covered(d)'
  BY <1>3, <1>4 DEF Covered
<1>6. \A d \in Did : Managed(d)' => Managed(d)
  BY DEF Managed, Documents
<1>7. \A d \in Did : ToBeEvicted(d) => d \in givenUp'
  BY <1>4 DEF CachedInvariant, EvictionExcused
<1>8. Covered(call[c].did)'
  BY <1>3 DEF Covered
<1>9. \A b \in Caller : call[b].did \in Did
  BY DEF TypeOK, Call
<1> QED
  BY <1>5, <1>6, <1>7, <1>8, <1>9, CallerKeeps

\* A call that begins changes neither cache nor store.
LEMMA BeginsCovered ==
    ASSUME TypeOK, CachedInvariant, NEW c \in Caller, Begins(c)
    PROVE  CachedInvariant'
<1>1. PICK d \in Did :
         \/ Resolve(c, d) \/ Update(c, d) \/ Delete(c, d)
         \/ \E store \in BOOLEAN : Create(c, d, store)
         \/ \E doc \in Doc : Import(c, d, doc)
  BY DEF Begins
<1>2. UNCHANGED <<entry, stored, evicting, givenUp>>
  BY <1>1 DEF Resolve, Update, Delete, Create, Import, copies
<1> DEFINE Entering == {"ask", "lookup", "compare", "deleteCache", "createCache",
                        "cacheResult", "importCache"}
<1>3. PICK s \in Entering, doc \in Doc \cup {NoDoc}, r \in BOOLEAN :
         call' = [call EXCEPT ![c] = At(s, d, doc, r)]
  <2> SUFFICES \E s \in Entering, doc \in Doc \cup {NoDoc}, r \in BOOLEAN :
                  call' = [call EXCEPT ![c] = At(s, d, doc, r)]
    OBVIOUS
  <2>0. MaxDoc \in Nat \ {0}
    BY CacheAssumption
  <2>1. CASE Resolve(c, d)
    BY <2>1 DEF Resolve
  <2>2. CASE Update(c, d)
    <3>1. latest[d] \in 1..(MaxDoc - 1)
      BY <2>2 DEF Update
    <3>2. latest[d] + 1 \in Doc
      BY <2>0, <3>1 DEF Doc
    <3>3. call' = [call EXCEPT ![c] = At("compare", d, latest[d] + 1, FALSE)]
      BY <2>2 DEF Update
    <3> QED
      BY <3>2, <3>3
  <2>3. CASE Delete(c, d)
    BY <2>3 DEF Delete
  <2>4. ASSUME NEW store \in BOOLEAN, Create(c, d, store)
        PROVE  \E s \in Entering, doc \in Doc \cup {NoDoc}, r \in BOOLEAN :
                  call' = [call EXCEPT ![c] = At(s, d, doc, r)]
    <3>1. 1 \in Doc
      BY <2>0 DEF Doc
    <3>2. \E s \in Entering : call' = [call EXCEPT ![c] = At(s, d, 1, FALSE)]
      BY <2>4 DEF Create
    <3> QED
      BY <3>1, <3>2
  <2>5. ASSUME NEW doc \in Doc, Import(c, d, doc)
        PROVE  call' = [call EXCEPT ![c] = At("importCache", d, doc, FALSE)]
    BY <2>5 DEF Import
  <2> QED
    BY <1>1, <2>1, <2>2, <2>3, <2>4, <2>5
<1>4. /\ \A b \in Caller : b # c => call'[b] = call[b]
      /\ call'[c].at = s
  BY <1>3 DEF TypeOK, At
<1> QED
  BY <1>2, <1>3, <1>4, QuietKeeps DEF Storing

\* A call that goes on.
LEMMA ContinuesCovered ==
    ASSUME TypeOK, CachedInvariant, NEW c \in Caller, Continues(c)
    PROVE  CachedInvariant'
<1>1. call[c] \in Call /\ call[c].did \in Did
  BY DEF TypeOK, Call
<1>2. \A b \in Caller : call[b].did \in Did
  BY DEF TypeOK, Call
<1>3. \A d \in Did : ToBeEvicted(d) => d \in givenUp
  BY DEF CachedInvariant, EvictionExcused
<1>4. Ends(c) => /\ \A b \in Caller : b # c => call'[b] = call[b]
                 /\ call'[c].at = "idle" /\ call'[c].did = call[c].did
  <2> SUFFICES ASSUME Ends(c)
               PROVE  /\ \A b \in Caller : b # c => call'[b] = call[b]
                      /\ call'[c].at = "idle" /\ call'[c].did = call[c].did
    OBVIOUS
  <2>1. /\ \A b \in Caller : b # c => call'[b] = call[b]
        /\ call'[c] = Idle(call[c].did)
    BY RecordEnded
  <2> QED
    BY <2>1 DEF Idle, At
<1>5. CASE Unanswered(c) \/ LookupFails(c) \/ UpdateAborts(c) \/ Publish(c)
            \/ StoreFails(c)
  <2>1. UNCHANGED <<entry, stored, evicting, givenUp>>
    BY <1>5 DEF Unanswered, LookupFails, UpdateAborts, Publish, StoreFails, copies
  <2>2. /\ \A b \in Caller : b # c => call'[b] = call[b]
        /\ call'[c].at = "idle"
    <3>1. CASE LookupFails(c)
      BY <3>1 DEF LookupFails, Idle, At, TypeOK
    <3>2. CASE ~LookupFails(c)
      BY <1>4, <1>5, <3>2 DEF Unanswered, UpdateAborts, Publish, StoreFails
    <3> QED
      BY <3>1, <3>2
  <2> QED
    BY <2>1, <2>2, QuietKeeps DEF Storing
<1>6. CASE Answered(c) \/ ResolveAgain(c) \/ UpdateProceeds(c) \/ UpdateStore(c)
  <2>1. UNCHANGED <<entry, stored, evicting, givenUp>>
    BY <1>6 DEF Answered, ResolveAgain, UpdateProceeds, UpdateStore, copies
  <2>2. /\ \A b \in Caller : b # c => call'[b] = call[b]
        /\ call'[c].at \in {"cacheResult", "ask", "compare", "updateCache",
                           "updateWrite"}
    <3>1. CASE Answered(c)
      BY <3>1 DEF Answered, At, TypeOK
    <3>2. CASE ResolveAgain(c)
      <4>1. CASE entry[call[c].did] = NoEntry
        BY <3>2, <4>1, Moved DEF ResolveAgain
      <4>2. CASE entry[call[c].did] # NoEntry
        BY <3>2, <4>2 DEF ResolveAgain, At, TypeOK
      <4> QED
        BY <4>1, <4>2
    <3>3. CASE UpdateProceeds(c)
      BY <3>3, Moved DEF UpdateProceeds
    <3>4. CASE UpdateStore(c)
      <4>1. PICK r \in Record :
               call' = [call EXCEPT ![c].at = "updateWrite", ![c].record = r]
        BY <3>4 DEF UpdateStore, Find
      <4> QED
        BY <1>1, <4>1 DEF TypeOK, Call
    <3> QED
      BY <1>6, <3>1, <3>2, <3>3, <3>4
  <2> QED
    BY <2>1, <2>2, QuietKeeps DEF Storing
<1>7. CASE CacheResult(c) \/ UpdateCache(c) \/ CacheNew(c)
  <2>1. /\ Put(call[c].did, call[c].doc) /\ UNCHANGED <<stored, evicting>>
        /\ call[c].at \in WithDoc
    BY <1>7 DEF CacheResult, UpdateCache, CacheNew, WithDoc, Step
  <2>2. /\ \A b \in Caller : b # c => call'[b] = call[b]
        /\ call'[c].did = call[c].did /\ call'[c].at # "unmanaged"
    <3>1. Ends(c) \/ \E s \in {"compare", "updateStore", "createStore",
                              "importStore"} : Goto(c, s)
      BY <1>7 DEF CacheResult, UpdateCache, CacheNew
    <3> QED
      BY <1>4, <3>1, Moved
  <2> QED
    BY <2>1, <2>2, PutKeeps
<1>8. CASE Lookup(c)
  <2>1. UNCHANGED <<entry, stored, evicting>> /\ givenUp \subseteq givenUp'
    BY <1>8 DEF Lookup, copies
  <2>2. /\ \A b \in Caller : b # c => call'[b] = call[b]
        /\ call'[c].did = call[c].did
        /\ \/ call'[c].at = "resolveAgain"
           \/ call'[c].at = "unmanaged" /\ call[c].did \in givenUp'
    <3>1. \/ Goto(c, "resolveAgain")
          \/ Goto(c, "unmanaged") /\ call[c].did \in givenUp'
      BY <1>8 DEF Lookup
    <3> QED
      BY <3>1, Moved
  <2>3. \A d \in Did : Covered(d) => Covered(d)'
    BY <2>1 DEF Covered
  <2>4. \A d \in Did : Managed(d)' => Managed(d)
    BY <2>1 DEF Managed, Documents
  <2>5. \A d \in Did : ToBeEvicted(d) => d \in givenUp'
    BY <1>3, <2>1
  <2> QED
    BY <1>2, <2>1, <2>2, <2>3, <2>4, <2>5, CallerKeeps DEF Storing
<1>9. CASE Unmanaged(c)
  <2>1. /\ UNCHANGED <<entry, stored, givenUp>> /\ Ends(c)
        /\ evicting' = evicting \cup {call[c].did} /\ call[c].at = "unmanaged"
    BY <1>9 DEF Unmanaged, copies
  <2>2. call[c].did \in givenUp
    BY <1>1, <1>3, <2>1 DEF ToBeEvicted
  <2>3. \A d \in Did : Covered(d) => Covered(d)'
    BY <2>1 DEF Covered
  <2>4. \A d \in Did : Managed(d)' => Managed(d)
    BY <2>1 DEF Managed, Documents
  <2> QED
    BY <1>2, <1>3, <1>4, <2>1, <2>2, <2>3, <2>4, CallerKeeps DEF Storing
<1>10. CASE UpdateWrite(c)
  <2>1. /\ UNCHANGED <<entry, evicting, givenUp>>
        /\ stored' = [stored EXCEPT ![call[c].did][call[c].record] = call[c].doc]
        /\ stored[call[c].did][call[c].record] # NoDoc
        /\ call[c].record \in Record
    BY <1>1, <1>10 DEF UpdateWrite, Call, WithRecord
  <2>2. \A d \in Did : Managed(d)' => Managed(d)
    <3>1. Managed(call[c].did)
      BY <2>1 DEF Managed, Documents
    <3>2. \A d \in Did : d # call[c].did => stored'[d] = stored[d]
      BY <1>1, <2>1 DEF TypeOK
    <3> QED
      BY <3>1, <3>2 DEF Managed, Documents
  <2>3. /\ \A b \in Caller : b # c => call'[b] = call[b]
        /\ call'[c].at \in {"idle", "publish"}
    <3>1. Ends(c) \/ Goto(c, "publish")
      BY <1>10 DEF UpdateWrite, AfterUpdate
    <3> QED
      BY <1>4, <3>1, Moved
  <2>4. \A d \in Did : Covered(d) => Covered(d)'
    BY <2>1 DEF Covered
  <2> QED
    BY <1>2, <1>3, <2>1, <2>2, <2>3, <2>4, CallerKeeps DEF Storing
<1>11. CASE ImportStore(c)
  <2>1. UNCHANGED <<entry, stored, evicting, givenUp>>
    BY <1>11 DEF ImportStore, copies
  <2>2. /\ \A b \in Caller : b # c => call'[b] = call[b]
        /\ call'[c].at = "importWrite" /\ call'[c].did = call[c].did
    BY <1>11, Moved DEF ImportStore
  <2>3. \A d \in Did : (Covered(d) => Covered(d)') /\ (Managed(d)' => Managed(d))
    BY <2>1 DEF Covered, Managed, Documents
  <2>4. Covered(call[c].did)'
    BY <1>11, <2>1, <2>2 DEF ImportStore, CachedInvariant, EvictionExcused, Covered
  <2> QED
    BY <1>2, <1>3, <2>1, <2>2, <2>3, <2>4, CallerKeeps
<1>12. CASE StoreNew(c)
  <2>1. /\ UNCHANGED <<entry, evicting, givenUp>> /\ Ends(c)
        /\ call[c].at \in Storing
    BY <1>12 DEF StoreNew, Storing
  <2>2. PICK r \in Record : stored' = [stored EXCEPT ![call[c].did][r] = call[c].doc]
    BY <1>12 DEF StoreNew
  <2>3. Covered(call[c].did)
    BY <2>1 DEF CachedInvariant, EvictionExcused, Covered, Storing
  <2>4. \A d \in Did : Covered(d) => Covered(d)'
    BY <2>1 DEF Covered
  <2>5. \A d \in Did : Managed(d)' => Managed(d) \/ Covered(d)'
    <3>1. \A d \in Did : d # call[c].did => stored'[d] = stored[d]
      BY <1>1, <2>2 DEF TypeOK
    <3>2. \A d \in Did : d # call[c].did => (Managed(d)' => Managed(d))
      BY <3>1 DEF Managed, Documents
    <3> QED
      BY <1>1, <2>3, <2>4, <3>2
  <2> QED
    BY <1>2, <1>3, <1>4, <2>1, <2>4, <2>5, CallerKeeps DEF Storing
<1>13. CASE DeleteCache(c)
  <2>1. /\ UNCHANGED <<stored, evicting>> /\ Goto(c, "deleteStore")
        /\ entry' = [entry EXCEPT ![call[c].did] = NoEntry]
        /\ givenUp' = givenUp \cup {call[c].did}
    BY <1>13 DEF DeleteCache
  <2>2. \A d \in Did : Covered(d) => Covered(d)'
    BY <1>1, <2>1 DEF Covered, TypeOK
  <2>3. \A d \in Did : Managed(d)' => Managed(d)
    BY <2>1 DEF Managed, Documents
  <2> QED
    BY <1>2, <1>3, <2>1, <2>2, <2>3, Moved, CallerKeeps DEF Storing
<1>14. CASE DeleteStore(c)
  <2>1. UNCHANGED <<entry, stored, evicting, givenUp>>
    BY <1>14 DEF DeleteStore, copies
  <2>2. /\ \A b \in Caller : b # c => call'[b] = call[b]
        /\ call'[c].at \in {"idle", "deleteWrite"}
    <3>1. CASE Find(c, "deleteWrite")
      <4>1. PICK r \in Record :
               call' = [call EXCEPT ![c].at = "deleteWrite", ![c].record = r]
        BY <3>1 DEF Find
      <4> QED
        BY <1>1, <4>1 DEF TypeOK, Call
    <3> QED
      BY <1>4, <1>14, <3>1 DEF DeleteStore
  <2> QED
    BY <2>1, <2>2, QuietKeeps DEF Storing
<1>15. CASE DeleteWrite(c)
  <2>1. /\ UNCHANGED <<entry, evicting, givenUp>> /\ Ends(c)
        /\ stored' = [stored EXCEPT ![call[c].did][call[c].record] = NoDoc]
    BY <1>15 DEF DeleteWrite
  <2>2. \A d \in Did : Covered(d) => Covered(d)'
    BY <2>1 DEF Covered
  <2>3. \A d \in Did : Managed(d)' => Managed(d)
    <3>1. \A d \in Did, r \in Record : stored'[d][r] # NoDoc => stored[d][r] # NoDoc
      BY <1>1, <2>1 DEF TypeOK
    <3> QED
      BY <3>1 DEF Managed, Documents
  <2> QED
    BY <1>2, <1>3, <1>4, <2>1, <2>2, <2>3, CallerKeeps DEF Storing
<1> QED
  BY <1>5, <1>6, <1>7, <1>8, <1>9, <1>10, <1>11, <1>12, <1>13, <1>14, <1>15
  DEF Continues

LEMMA CachedStep ==
    ASSUME TypeOK, CachedInvariant, [Next]_vars
    PROVE  CachedInvariant'
<1>1. CASE \E c \in Caller : Begins(c) \/ Continues(c)
  BY <1>1, BeginsCovered, ContinuesCovered
<1>2. ASSUME UNCHANGED <<stored, call, givenUp>>, evicting' \subseteq evicting,
             \A d \in Did : Covered(d) => Covered(d)'
      PROVE  CachedInvariant'
  <2>1. ManagedCached'
    BY <1>2 DEF CachedInvariant, ManagedCached, Covered, Managed, Documents
  <2>2. \A d \in Did : ToBeEvicted(d)' => d \in givenUp'
    BY <1>2 DEF CachedInvariant, EvictionExcused, ToBeEvicted
  <2>3. \A c \in Caller : call[c].did \in Did
    BY DEF TypeOK, Call
  <2>4. \A c \in Caller : call'[c].at \in Storing => Covered(call[c].did)'
    BY <1>2, <2>3 DEF CachedInvariant, EvictionExcused, Covered, Storing
  <2> QED
    BY <2>1, <2>2, <2>4 DEF CachedInvariant, EvictionExcused, Covered, Storing
<1>3. ASSUME NEW d \in Did, Expire(d) PROVE CachedInvariant'
  <2>1. entry[d] \in Entry /\ NoDoc \notin Doc
    BY <1>3 DEF Expire, TypeOK, NoEntry, Doc, NoDoc
  <2>2. [entry[d] EXCEPT !.fresh = FALSE] # NoEntry
    BY <2>1 DEF Entry, NoEntry
  <2>3. entry' = [entry EXCEPT ![d] = [entry[d] EXCEPT !.fresh = FALSE]]
    BY <1>3 DEF Expire
  <2>4. \A e \in Did : Covered(e) => Covered(e)'
    BY <1>3, <2>2, <2>3 DEF Expire, TypeOK, Covered
  <2> QED
    BY <1>2, <1>3, <2>4 DEF Expire
<1>4. ASSUME NEW d \in Did, Evict(d) PROVE CachedInvariant'
  <2>1. d \in givenUp
    BY <1>4 DEF Evict, CachedInvariant, EvictionExcused, ToBeEvicted
  <2>2. \A e \in Did : Covered(e) => Covered(e)'
    BY <1>4, <2>1 DEF Evict, TypeOK, Covered
  <2> QED
    BY <1>2, <1>4, <2>2 DEF Evict
<1>5. ASSUME NEW d \in Did, PublishElsewhere(d) PROVE CachedInvariant'
  BY <1>2, <1>5 DEF PublishElsewhere, Covered
<1>6. CASE Crash
  <2>1. /\ UNCHANGED <<entry, stored, givenUp>> /\ evicting' = {}
        /\ \A c \in Caller : call'[c].at = "idle"
    BY <1>6 DEF Crash, copies, Idle, At
  <2>2. ManagedCached'
    BY <2>1 DEF CachedInvariant, ManagedCached, Managed, Documents
  <2>3. EvictionExcused'
    BY <2>1 DEF EvictionExcused, ToBeEvicted
  <2> QED
    BY <2>2, <2>3 DEF CachedInvariant
<1>7. CASE UNCHANGED vars
  BY <1>2, <1>7 DEF vars, Covered
<1> QED
  BY <1>1, <1>3, <1>4, <1>5, <1>6, <1>7 DEF Next

\* Whatever creates, imports, updates, refreshes and deletes DIDs at once, a
\* DID that the agent manages can be resolved from the cache, unless a delete()
\* has taken it from there or the agent did not manage it yet when a refresh
\* asked (agent-did-resolver-cache.ts lines 54-85, did-api.ts lines 171-357).
THEOREM ManagedCachedHolds == Spec => []ManagedCached
<1>1. Init => CachedInvariant
  <2> SUFFICES ASSUME Init PROVE CachedInvariant
    OBVIOUS
  <2>1. \A d \in Did : ~Managed(d)
    BY DEF Init, Managed, Documents
  <2>2. \A c \in Caller : call[c].at = "idle"
    BY DEF Init, Idle, At
  <2> QED
    BY <2>1, <2>2 DEF Init, CachedInvariant, ManagedCached, EvictionExcused,
                      ToBeEvicted
<1>2. TypeOK /\ CachedInvariant /\ [Next]_vars => CachedInvariant'
  BY CachedStep
<1>3. CachedInvariant => ManagedCached
  BY DEF CachedInvariant
<1> QED
  BY <1>1, <1>2, <1>3, CacheTypeCorrect, PTL DEF Spec
=============================================================================
