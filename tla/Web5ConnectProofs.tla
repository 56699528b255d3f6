-------------------------- MODULE Web5ConnectProofs --------------------------
(* Theorems about Web5Connect, for any protocols and requests, any endpoints *)
(* of the wallet's DID and any of them that answer for what is sent, and any *)
(* numbers of sessions and submissions, whatever fails, is late or stops.    *)
EXTENDS Web5Connect, TLAPS

-----------------------------------------------------------------------------
(* The invariant of the wallet and of the server *)

\* A request is pushed when its session begins; a session that has its answer
\* knows a delegate.
SessionsHold ==
    \A a \in Session :
        /\ a \in pushed => session[a] # "new"
        /\ session[a] \in {"pin", "done"} => received[a] \in Submission

\* What the job of a protocol has brought about so far.
Job(s, p) ==
    LET job == wallet[s].job[p] IN
    /\ job = "none" => p \notin DOMAIN asked[wallet[s].session]
    /\ job \in {"process", "create", "deliver", "done"} => p \in RemoteProtocols
    /\ job \in {"deliver", "done"} => JobGrants(s, p) \subseteq grants[Local]
    /\ job = "done" => JobGrants(s, p) \subseteq RemoteGrants

\* A submission works for a session that has begun, whose request is fixed.
JobsHold ==
    \A s \in Submission :
        IF wallet[s].at = "idle"
        THEN \A p \in Protocol : wallet[s].job[p] = "none"
        ELSE /\ wallet[s].session \in Session
             /\ session[wallet[s].session] # "new"
             /\ \A p \in Protocol : Job(s, p)
             /\ wallet[s].at = "posted" =>
                   \A p \in Protocol : wallet[s].job[p] \in {"none", "done"}

\* A response comes from a submission that is over, for that session alone.
AnswersHold ==
    \A a \in Session : \A s \in {response[a], received[a]} \ {Nobody} :
        wallet[s].at = "posted" /\ wallet[s].session = a

ConnectInvariant == ConnectTypeOK /\ SessionsHold /\ JobsHold /\ AnswersHold

\* What a step may do to the sessions, the server and the wallet.
Stops ==
    /\ poll' = [a \in Session |-> "off"]
    /\ session' = [a \in Session |->
                      IF session[a] \in {"polling", "pin"} THEN "failed"
                      ELSE session[a]]
    /\ UNCHANGED <<asked, pushed, response, received, issue>>

ConnectStep ==
    \/ \E a \in Session, ask \in Asks : InitClient(a, ask)
    \/ ConnectNext
    \/ Stops
    \/ UNCHANGED <<connect, issue>>

-----------------------------------------------------------------------------
(* Scopes and grants *)

\* The scopes of a request are of its protocols, and each protocol has the
\* basic ones.
LEMMA ScopesOfAsk ==
    ASSUME NEW ask \in Asks \cup {<< >>}
    PROVE  /\ DOMAIN ask \subseteq Protocol
           /\ Scopes(ask) \subseteq Scope
           /\ \A x \in Scopes(ask) : x.protocol \in DOMAIN ask
           /\ \A p \in DOMAIN ask, t \in BaseTypes :
                 [protocol |-> p, messageType |-> t] \in Scopes(ask)
<1>1. DOMAIN ask \subseteq Protocol
         /\ \A p \in DOMAIN ask : ask[p] \subseteq Permissions
  <2>1. CASE ask \in Asks
    BY <2>1, ConnectAssumption
  <2>2. CASE ask = << >>
    <3>1. DOMAIN ask = {}
      BY <2>2
    <3> QED
      BY <3>1
  <2> QED
    BY <2>1, <2>2
<1>2. BaseTypes \subseteq MessageType
  BY DEF BaseTypes, MessageType
<1>3. \A x \in Permissions : TypeOf(x) \in MessageType
  BY DEF Permissions, TypeOf, MessageType, RecordsType
<1>4. ASSUME NEW x \in Scopes(ask) PROVE x \in Scope /\ x.protocol \in DOMAIN ask
  <2>1. PICK p \in DOMAIN ask :
            x \in CreatePermissionRequestForProtocol(p, ask[p])
    BY <1>4 DEF Scopes
  <2>2. x \in [protocol : {p}, messageType : BaseTypes \cup {TypeOf(y) : y \in ask[p]}]
    BY <2>1 DEF CreatePermissionRequestForProtocol
  <2>3. x = [protocol |-> p, messageType |-> x.messageType] /\ x.protocol = p
    BY <2>2
  <2>4. x.messageType \in MessageType
    BY <2>2, <1>1, <1>2, <1>3
  <2> QED
    BY <1>1, <2>3, <2>4 DEF Scope
<1>5. ASSUME NEW p \in DOMAIN ask, NEW t \in BaseTypes
      PROVE  [protocol |-> p, messageType |-> t] \in Scopes(ask)
  <2>1. [protocol |-> p, messageType |-> t]
            \in CreatePermissionRequestForProtocol(p, ask[p])
    BY <1>5 DEF CreatePermissionRequestForProtocol
  <2> QED
    BY <2>1 DEF Scopes
<1> QED
  BY <1>1, <1>4, <1>5

LEMMA GrantTyped ==
    ASSUME NEW s \in Submission, NEW x \in Scope
    PROVE  GrantOf(s, x) \in Grant
BY DEF GrantOf, Grant, ShouldUseDelegatePermission

LEMMA JobGrantsTyped ==
    ASSUME ConnectTypeOK, NEW s \in Submission, NEW p, wallet[s].session \in Session
    PROVE  JobGrants(s, p) \subseteq Grant
<1>1. asked[wallet[s].session] \in Asks \cup {<< >>}
  BY DEF ConnectTypeOK
<1>2. JobScopes(s, p) \subseteq Scope
  BY <1>1, ScopesOfAsk DEF JobScopes
<1> QED
  BY <1>2, GrantTyped DEF JobGrants

\* Submissions are no one else.
LEMMA NobodyApart == Nobody \notin Submission /\ Nobody \notin Session
BY ConnectAssumption DEF Nobody, Submission, Session

-----------------------------------------------------------------------------
(* The steps of the wallet *)

\* A job that goes on keeps the invariant when it has done what its new step
\* tells.
LEMMA JobStepKeeps ==
    ASSUME ConnectInvariant, NEW s \in Submission, NEW p \in Protocol,
           NEW step \in JobStep, step # "none",
           wallet[s].job[p] \notin {"none", "done"},
           JobGoes(s, p, step), UNCHANGED connect,
           protocols' \in [Node -> SUBSET Protocol],
           grants' \in [Node -> SUBSET Grant],
           RemoteProtocols \subseteq RemoteProtocols',
           grants[Local] \subseteq grants'[Local],
           RemoteGrants \subseteq RemoteGrants',
           step \in {"process", "create", "deliver", "done"}
              => p \in RemoteProtocols',
           step \in {"deliver", "done"} => JobGrants(s, p) \subseteq grants'[Local],
           step = "done" => JobGrants(s, p) \subseteq RemoteGrants'
    PROVE  ConnectInvariant'
<1> USE DEF ConnectInvariant
<1>1. wallet \in [Submission -> Wallet]
  BY DEF ConnectTypeOK
<1>2. wallet[s].at \notin {"idle", "posted"}
  BY DEF JobsHold
<1>3. wallet' \in [Submission -> Wallet]
  BY <1>1 DEF JobGoes, Wallet
<1>4. \A q \in Submission \ {s} : wallet'[q] = wallet[q]
  BY <1>1 DEF JobGoes
<1>5. /\ wallet'[s].session = wallet[s].session
      /\ wallet'[s].at \in {wallet[s].at, "failed"}
      /\ \A q \in Protocol : wallet'[s].job[q] = IF q = p THEN step
                                                 ELSE wallet[s].job[q]
  BY <1>1 DEF JobGoes, Wallet
<1>6. UNCHANGED <<asked, pushed, response, poll, session, received>>
  BY DEF connect
<1>7. ConnectTypeOK'
  BY <1>3, <1>6 DEF ConnectTypeOK
<1>8. SessionsHold'
  BY <1>6 DEF SessionsHold
<1>9. \A q \in Submission, r \in Protocol : JobGrants(q, r)' = JobGrants(q, r)
  BY <1>4, <1>5, <1>6 DEF JobGrants, JobScopes
<1>10. JobsHold'
  <2>1. SUFFICES ASSUME NEW q \in Submission
                 PROVE  (IF wallet[q].at = "idle"
                         THEN \A r \in Protocol : wallet[q].job[r] = "none"
                         ELSE /\ wallet[q].session \in Session
                              /\ session[wallet[q].session] # "new"
                              /\ \A r \in Protocol : Job(q, r)
                              /\ wallet[q].at = "posted" =>
                                    \A r \in Protocol :
                                        wallet[q].job[r] \in {"none", "done"})'
    BY DEF JobsHold
  <2>2. CASE q = s
    <3>1. wallet'[s].at \notin {"idle", "posted"}
      BY <1>2, <1>5
    <3>2. wallet'[s].session \in Session /\ session'[wallet'[s].session] # "new"
      BY <1>2, <1>5, <1>6 DEF JobsHold
    <3>3. \A r \in Protocol : Job(s, r)'
      <4>1. \A r \in Protocol : Job(s, r)
        BY <1>2 DEF JobsHold
      <4> QED
        BY <1>5, <1>6, <1>9, <4>1 DEF Job
    <3> QED
      BY <2>2, <3>1, <3>2, <3>3
  <2>3. CASE q # s
    <3>1. wallet'[q] = wallet[q]
      BY <1>4, <2>3
    <3>2. ASSUME NEW r \in Protocol, Job(q, r) PROVE Job(q, r)'
      BY <1>6, <1>9, <3>1, <3>2 DEF Job
    <3> QED
      BY <1>6, <3>1, <3>2 DEF JobsHold
  <2> QED
    BY <2>2, <2>3
<1>11. AnswersHold'
  BY <1>2, <1>4, <1>6 DEF AnswersHold, ConnectTypeOK
<1> QED
  BY <1>7, <1>8, <1>10, <1>11

LEMMA QueryProtocolKeeps ==
    ASSUME ConnectInvariant, NEW s \in Submission, NEW p \in Protocol,
           QueryProtocol(s, p)
    PROVE  ConnectInvariant'
<1>1. wallet[s].job[p] = "query" /\ UNCHANGED <<connect, protocols, grants>>
  BY DEF QueryProtocol, JobAt
<1>2. PICK step \in {"resend", "send", "failed"} : JobGoes(s, p, step)
  BY DEF QueryProtocol
<1>3. step \in JobStep /\ step # "none" /\ step \notin {"process", "create", "deliver", "done"}
  BY DEF JobStep
<1>4. protocols' \in [Node -> SUBSET Protocol] /\ grants' \in [Node -> SUBSET Grant]
  BY <1>1 DEF ConnectInvariant, ConnectTypeOK
<1>5. UNCHANGED <<RemoteProtocols, RemoteGrants, grants, connect>>
  BY <1>1 DEF RemoteProtocols, RemoteGrants
<1> QED
  BY <1>1, <1>2, <1>3, <1>4, <1>5, JobStepKeeps

LEMMA SendProtocolKeeps ==
    ASSUME ConnectInvariant, NEW s \in Submission, NEW p \in Protocol,
           SendProtocol(s, p)
    PROVE  ConnectInvariant'
<1>1. wallet[s].job[p] \in {"send", "resend"} /\ UNCHANGED <<connect, grants>>
  BY DEF SendProtocol, JobAt
<1>2. PICK step \in {"process", "create", "failed"} :
          /\ JobGoes(s, p, step)
          /\ \/ \E n \in Remote : protocols' = [protocols EXCEPT ![n] = @ \cup {p}]
             \/ step = "failed" /\ protocols' = protocols
  BY DEF SendProtocol
<1>3. step \in JobStep /\ step \notin {"none", "deliver", "done"}
  BY DEF JobStep
<1>4. protocols \in [Node -> SUBSET Protocol] /\ grants \in [Node -> SUBSET Grant]
  BY DEF ConnectInvariant, ConnectTypeOK
<1>5. /\ protocols' \in [Node -> SUBSET Protocol]
      /\ RemoteProtocols \subseteq RemoteProtocols'
      /\ step # "failed" => p \in RemoteProtocols'
  <2>1. CASE protocols' = protocols /\ step = "failed"
    BY <1>4, <2>1 DEF RemoteProtocols
  <2>2. ASSUME NEW n \in Remote, protocols' = [protocols EXCEPT ![n] = @ \cup {p}]
        PROVE  /\ protocols' \in [Node -> SUBSET Protocol]
               /\ RemoteProtocols \subseteq RemoteProtocols'
               /\ p \in RemoteProtocols'
    <3>1. /\ protocols' \in [Node -> SUBSET Protocol]
          /\ \A m \in Remote : protocols[m] \subseteq protocols'[m]
          /\ p \in protocols'[n]
      BY <1>4, <2>2 DEF Node
    <3> QED
      BY <2>2, <3>1 DEF RemoteProtocols
  <2> QED
    BY <1>2, <2>1, <2>2
<1>6. UNCHANGED <<RemoteGrants, grants>>
  BY <1>1 DEF RemoteGrants
<1> QED
  BY <1>1, <1>2, <1>3, <1>4, <1>5, <1>6, JobStepKeeps

LEMMA ProcessProtocolKeeps ==
    ASSUME ConnectInvariant, NEW s \in Submission, NEW p \in Protocol,
           ProcessProtocol(s, p)
    PROVE  ConnectInvariant'
<1>1. wallet[s].job[p] = "process" /\ UNCHANGED <<connect, grants>>
  BY DEF ProcessProtocol, JobAt
<1>2. PICK step \in {"create", "failed"} :
          /\ JobGoes(s, p, step)
          /\ \/ protocols' = [protocols EXCEPT ![Local] = @ \cup {p}]
             \/ protocols' = protocols
  BY DEF ProcessProtocol
<1>3. step \in JobStep /\ step \notin {"none", "deliver", "done"}
  BY DEF JobStep
<1>4. protocols \in [Node -> SUBSET Protocol] /\ grants \in [Node -> SUBSET Grant]
  BY DEF ConnectInvariant, ConnectTypeOK
<1>5. p \in RemoteProtocols
  BY <1>1 DEF ConnectInvariant, JobsHold, Job
<1>6. /\ protocols' \in [Node -> SUBSET Protocol]
      /\ \A n \in Remote : protocols'[n] = protocols[n]
  BY <1>2, <1>4, ConnectAssumption DEF Node
<1>7. UNCHANGED <<RemoteProtocols, RemoteGrants, grants>>
  BY <1>1, <1>6 DEF RemoteProtocols, RemoteGrants
<1> QED
  BY <1>1, <1>2, <1>3, <1>4, <1>5, <1>6, <1>7, JobStepKeeps

\* What is issued goes where the route tells, and all of it when it succeeds.
LEMMA IssueSteps ==
    ASSUME ConnectInvariant, NEW s \in Submission, NEW p \in Protocol,
           NEW at \in {"create", "deliver"}, NEW route,
           NEW next \in {"deliver", "done"}, Issue(s, p, at, route, next)
    PROVE  /\ wallet[s].job[p] = at /\ UNCHANGED <<connect, protocols>>
           /\ p \in RemoteProtocols
           /\ \A g \in JobGrants(s, p) : g \in Grant /\ g.scope.messageType \in MessageType
           /\ at = "deliver" => JobGrants(s, p) \subseteq grants[Local]
           /\ grants' \in [Node -> SUBSET Grant]
           /\ \A n \in Node : grants[n] \subseteq grants'[n]
           /\ \E step \in {next, "failed"} :
                 /\ JobGoes(s, p, step)
                 /\ step = next =>
                       \A g \in JobGrants(s, p), n \in Node :
                           route[g.scope.messageType] = n => g \in grants'[n]
<1>1. wallet[s].job[p] = at /\ UNCHANGED <<connect, protocols>>
  BY DEF Issue, JobAt
<1>2. /\ wallet[s].session \in Session /\ p \in RemoteProtocols
      /\ at = "deliver" => JobGrants(s, p) \subseteq grants[Local]
  BY <1>1 DEF ConnectInvariant, JobsHold, Job
<1>3. JobGrants(s, p) \subseteq Grant
  BY <1>2, JobGrantsTyped DEF ConnectInvariant
<1>4. \A g \in JobGrants(s, p) : g \in Grant /\ g.scope.messageType \in MessageType
  BY <1>3 DEF Grant, Scope
<1>5. PICK step \in {next, "failed"}, G \in SUBSET JobGrants(s, p) :
          /\ JobGoes(s, p, step)
          /\ grants' = [n \in Node |-> grants[n] \cup
                          {g \in G : route[g.scope.messageType] = n}]
          /\ step = next => G = JobGrants(s, p)
  <2>1. AllButOne(JobGrants(s, p)) \in SUBSET JobGrants(s, p)
    BY DEF AllButOne
  <2> QED
    BY <2>1 DEF Issue
<1>6. grants \in [Node -> SUBSET Grant]
  BY DEF ConnectInvariant, ConnectTypeOK
<1>7. /\ grants' \in [Node -> SUBSET Grant]
      /\ \A n \in Node : grants[n] \subseteq grants'[n]
  BY <1>3, <1>5, <1>6
<1>8. step = next => \A g \in JobGrants(s, p), n \in Node :
          route[g.scope.messageType] = n => g \in grants'[n]
  BY <1>5
<1> QED
  BY <1>1, <1>2, <1>4, <1>5, <1>7, <1>8

LEMMA CreateGrantsKeeps ==
    ASSUME ConnectInvariant, NEW s \in Submission, NEW p \in Protocol,
           CreateGrants(s, p)
    PROVE  ConnectInvariant'
<1> DEFINE route == [t \in MessageType |-> Local]
<1>1. Issue(s, p, "create", route, "deliver")
  BY DEF CreateGrants
<1> HIDE DEF route
<1>2. /\ wallet[s].job[p] = "create" /\ UNCHANGED <<connect, protocols>>
      /\ p \in RemoteProtocols
      /\ \A g \in JobGrants(s, p) : g.scope.messageType \in MessageType
      /\ grants' \in [Node -> SUBSET Grant]
      /\ \A n \in Node : grants[n] \subseteq grants'[n]
  BY <1>1, IssueSteps
<1>3. PICK step \in {"deliver", "failed"} :
          /\ JobGoes(s, p, step)
          /\ step = "deliver" =>
                \A g \in JobGrants(s, p), n \in Node :
                    route[g.scope.messageType] = n => g \in grants'[n]
  BY <1>1, IssueSteps
<1>4. step = "deliver" => JobGrants(s, p) \subseteq grants'[Local]
  BY <1>2, <1>3 DEF route, Node
<1>5. step \in JobStep /\ step \notin {"none", "done"}
  BY DEF JobStep
<1>6. protocols' \in [Node -> SUBSET Protocol]
  BY <1>2 DEF ConnectInvariant, ConnectTypeOK
<1>7. UNCHANGED RemoteProtocols
  BY <1>2 DEF RemoteProtocols
<1>8. RemoteGrants \subseteq RemoteGrants' /\ grants[Local] \subseteq grants'[Local]
  BY <1>2 DEF RemoteGrants, Node
<1> QED
  BY <1>2, <1>3, <1>4, <1>5, <1>6, <1>7, <1>8, JobStepKeeps

LEMMA DeliverGrantsKeeps ==
    ASSUME ConnectInvariant, NEW s \in Submission, NEW p \in Protocol,
           DeliverGrants(s, p)
    PROVE  ConnectInvariant'
<1>1. PICK route \in Routes : Issue(s, p, "deliver", route, "done")
  BY DEF DeliverGrants
<1>2. /\ wallet[s].job[p] = "deliver" /\ UNCHANGED <<connect, protocols>>
      /\ p \in RemoteProtocols
      /\ \A g \in JobGrants(s, p) : g.scope.messageType \in MessageType
      /\ JobGrants(s, p) \subseteq grants[Local]
      /\ grants' \in [Node -> SUBSET Grant]
      /\ \A n \in Node : grants[n] \subseteq grants'[n]
  BY <1>1, IssueSteps
<1>3. PICK step \in {"done", "failed"} :
          /\ JobGoes(s, p, step)
          /\ step = "done" =>
                \A g \in JobGrants(s, p), n \in Node :
                    route[g.scope.messageType] = n => g \in grants'[n]
  BY <1>1, IssueSteps
<1>4. step = "done" => JobGrants(s, p) \subseteq RemoteGrants'
  <2>1. SUFFICES ASSUME step = "done", NEW g \in JobGrants(s, p)
                 PROVE  \E n \in Remote : g \in grants'[n]
    BY DEF RemoteGrants
  <2>2. route[g.scope.messageType] \in Remote
    BY <1>2, ConnectAssumption
  <2> QED
    BY <1>3, <2>1, <2>2 DEF Node
<1>5. step \in JobStep /\ step # "none"
  BY DEF JobStep
<1>6. protocols' \in [Node -> SUBSET Protocol]
  BY <1>2 DEF ConnectInvariant, ConnectTypeOK
<1>7. UNCHANGED RemoteProtocols
  BY <1>2 DEF RemoteProtocols
<1>8. RemoteGrants \subseteq RemoteGrants' /\ grants[Local] \subseteq grants'[Local]
  BY <1>2 DEF RemoteGrants, Node
<1>9. JobGrants(s, p) \subseteq grants'[Local]
  BY <1>2, <1>8
<1> QED
  BY <1>2, <1>3, <1>4, <1>5, <1>6, <1>7, <1>8, <1>9, JobStepKeeps

\* What the claims about submissions and answers are made of stays when only
\* polls and sessions go on.
LEMMA SessionStepKeeps ==
    ASSUME ConnectInvariant, UNCHANGED <<pushed, response, issue>>,
           asked' \in [Session -> Asks \cup {<< >>}],
           poll' \in [Session -> {"off", "timer", "fetch"}],
           session' \in [Session -> {"new", "polling", "pin", "failed", "done"}],
           received' \in [Session -> Submission \cup {Nobody}],
           \A a \in Session : session[a] # "new" =>
               session'[a] # "new" /\ asked'[a] = asked[a],
           \A a \in Session : received'[a] \in {received[a], response[a]},
           \A a \in Session : session'[a] \in {"pin", "done"} =>
               received'[a] \in Submission
    PROVE  ConnectInvariant'
<1> USE DEF ConnectInvariant
<1>1. UNCHANGED <<wallet, protocols, grants>>
  BY DEF issue
<1>2. ConnectTypeOK'
  BY <1>1 DEF ConnectTypeOK
<1>3. SessionsHold'
  BY DEF SessionsHold, ConnectTypeOK
<1>4. \A s \in Submission : wallet[s].at # "idle" =>
          /\ wallet[s].session \in Session
          /\ session'[wallet[s].session] # "new"
          /\ asked'[wallet[s].session] = asked[wallet[s].session]
  BY DEF JobsHold
<1>5. ASSUME NEW s \in Submission, wallet[s].at # "idle", NEW p \in Protocol
      PROVE  Job(s, p)'
  <2>1. Job(s, p)
    BY <1>5 DEF JobsHold
  <2>2. JobGrants(s, p)' = JobGrants(s, p)
    BY <1>1, <1>4, <1>5 DEF JobGrants, JobScopes
  <2> QED
    BY <1>1, <1>4, <1>5, <2>1, <2>2 DEF Job, RemoteProtocols, RemoteGrants
<1>6. JobsHold'
  BY <1>1, <1>4, <1>5 DEF JobsHold
<1>7. AnswersHold'
  BY <1>1 DEF AnswersHold
<1> QED
  BY <1>2, <1>3, <1>6, <1>7

LEMMA InitClientKeeps ==
    ASSUME ConnectInvariant, NEW a \in Session, NEW ask \in Asks,
           InitClient(a, ask)
    PROVE  ConnectInvariant'
<1> USE DEF ConnectInvariant
<1>1. /\ session[a] = "new" /\ UNCHANGED <<response, received, issue>>
      /\ asked' = [asked EXCEPT ![a] = ask]
  BY DEF InitClient
<1>2. PICK step \in {"polling", "failed"} :
          session' = [session EXCEPT ![a] = step]
  BY DEF InitClient
<1>3. pushed' \in SUBSET Session /\ pushed' \subseteq pushed \cup {a}
  BY DEF InitClient, ConnectTypeOK
<1>4. /\ asked' \in [Session -> Asks \cup {<< >>}]
      /\ poll' \in [Session -> {"off", "timer", "fetch"}]
      /\ session' \in [Session -> {"new", "polling", "pin", "failed", "done"}]
      /\ received' = received
  <2>1. poll' \in [Session -> {"off", "timer", "fetch"}]
    BY DEF InitClient, ConnectTypeOK
  <2> QED
    BY <1>1, <1>2, <2>1 DEF ConnectTypeOK
<1>5. UNCHANGED <<wallet, protocols, grants>>
  BY <1>1 DEF issue
<1>6. ConnectTypeOK'
  BY <1>1, <1>3, <1>4, <1>5 DEF ConnectTypeOK
<1>7. SessionsHold'
  BY <1>1, <1>2, <1>3 DEF SessionsHold, ConnectTypeOK
<1>8. \A s \in Submission : wallet[s].at # "idle" =>
          /\ wallet[s].session \in Session
          /\ session'[wallet[s].session] # "new"
          /\ asked'[wallet[s].session] = asked[wallet[s].session]
  BY <1>1, <1>2 DEF JobsHold, ConnectTypeOK
<1>9. ASSUME NEW s \in Submission, wallet[s].at # "idle", NEW p \in Protocol
      PROVE  Job(s, p)'
  <2>1. Job(s, p)
    BY <1>9 DEF JobsHold
  <2>2. JobGrants(s, p)' = JobGrants(s, p)
    BY <1>5, <1>8, <1>9 DEF JobGrants, JobScopes
  <2> QED
    BY <1>5, <1>8, <1>9, <2>1, <2>2 DEF Job, RemoteProtocols, RemoteGrants
<1>10. JobsHold'
  BY <1>5, <1>8, <1>9 DEF JobsHold
<1>11. AnswersHold'
  BY <1>1, <1>5 DEF AnswersHold
<1> QED
  BY <1>6, <1>7, <1>10, <1>11

LEMMA PollKeeps ==
    ASSUME ConnectInvariant, NEW a \in Session, PollNext(a) \/ EnterPin(a)
    PROVE  ConnectInvariant'
<1> USE DEF ConnectInvariant
<1>1. UNCHANGED <<asked, pushed, response, issue>>
  BY DEF PollNext, Poll, PollEnds, PollFetched, PollRejected, EnterPin
<1>2. poll' \in [Session -> {"off", "timer", "fetch"}]
  BY DEF PollNext, Poll, PollEnds, PollFetched, PollRejected, EnterPin, ConnectTypeOK
<1>3. /\ session' \in [Session -> {"new", "polling", "pin", "failed", "done"}]
      /\ \A b \in Session : session[b] # "new" => session'[b] # "new"
  BY DEF PollNext, Poll, PollEnds, PollFetched, PollRejected, EnterPin, Settles,
         ConnectTypeOK
<1>4. /\ received' \in [Session -> Submission \cup {Nobody}]
      /\ \A b \in Session : received'[b] \in {received[b], response[b]}
  BY DEF PollNext, Poll, PollEnds, PollFetched, PollRejected, EnterPin, ConnectTypeOK
<1>5. ASSUME NEW b \in Session, session'[b] \in {"pin", "done"}
      PROVE  received'[b] \in Submission
  <2>1. CASE PollFetched(a)
    BY <1>5, <2>1 DEF PollFetched, Settles, SessionsHold, ConnectTypeOK
  <2>2. CASE Poll(a) \/ PollEnds(a) \/ PollRejected(a) \/ EnterPin(a)
    <3>1. received' = received
      BY <2>2 DEF Poll, PollEnds, PollRejected, EnterPin
    <3>2. session'[b] = session[b] \/ session'[b] = "failed"
             \/ session[b] = "pin"
      BY <2>2 DEF Poll, PollEnds, PollRejected, EnterPin, Settles, ConnectTypeOK
    <3> QED
      BY <1>5, <3>1, <3>2 DEF SessionsHold
  <2> QED
    BY <2>1, <2>2 DEF PollNext
<1>6. asked' \in [Session -> Asks \cup {<< >>}]
  BY <1>1 DEF ConnectTypeOK
<1> QED
  BY <1>1, <1>2, <1>3, <1>4, <1>5, <1>6, SessionStepKeeps

LEMMA StopsKeeps ==
    ASSUME ConnectInvariant, Stops
    PROVE  ConnectInvariant'
<1> USE DEF ConnectInvariant
<1>1. UNCHANGED <<asked, pushed, response, received, issue>>
  BY DEF Stops
<1>2. poll' \in [Session -> {"off", "timer", "fetch"}]
  BY DEF Stops
<1>3. /\ session' \in [Session -> {"new", "polling", "pin", "failed", "done"}]
      /\ \A a \in Session : session'[a] \in {session[a], "failed"}
  BY DEF Stops, ConnectTypeOK
<1>4. \A a \in Session : session'[a] \in {"pin", "done"} => received'[a] \in Submission
  BY <1>1, <1>3 DEF SessionsHold
<1> QED
  BY <1>1, <1>2, <1>3, <1>4, SessionStepKeeps DEF ConnectTypeOK

LEMMA SubmitKeeps ==
    ASSUME ConnectInvariant, NEW s \in Submission, NEW a \in Session,
           SubmitAuthResponse(s, a)
    PROVE  ConnectInvariant'
<1> USE DEF ConnectInvariant
<1> DEFINE jobs == [p \in Protocol |-> IF p \in DOMAIN asked[a] THEN "query" ELSE "none"]
<1>1. /\ wallet[s].at = "idle" /\ a \in pushed
      /\ wallet' = [wallet EXCEPT ![s] = [at |-> "running", session |-> a, job |-> jobs]]
      /\ UNCHANGED <<connect, protocols, grants>>
  BY DEF SubmitAuthResponse
<1>2. jobs \in [Protocol -> JobStep]
      /\ \A p \in Protocol : /\ jobs[p] \in {"query", "none"}
                             /\ jobs[p] = "none" => p \notin DOMAIN asked[a]
  BY DEF JobStep
<1> HIDE DEF jobs
<1>3. UNCHANGED <<asked, pushed, response, poll, session, received, protocols, grants>>
  BY <1>1 DEF connect
<1>4. /\ wallet' \in [Submission -> Wallet]
      /\ wallet'[s] = [at |-> "running", session |-> a, job |-> jobs]
      /\ \A q \in Submission \ {s} : wallet'[q] = wallet[q]
  BY <1>1, <1>2 DEF ConnectTypeOK, Wallet
<1>5. ConnectTypeOK' /\ SessionsHold'
  BY <1>3, <1>4 DEF ConnectTypeOK, SessionsHold
<1>6. \A p \in Protocol : Job(s, p)'
  BY <1>2, <1>3, <1>4 DEF Job
<1>7. session[a] # "new"
  BY <1>1 DEF SessionsHold
<1>8. ASSUME NEW q \in Submission \ {s}, NEW p \in Protocol, Job(q, p)
      PROVE  Job(q, p)'
  <2>1. JobGrants(q, p)' = JobGrants(q, p)
    BY <1>3, <1>4 DEF JobGrants, JobScopes
  <2> QED
    BY <1>3, <1>4, <1>8, <2>1 DEF Job, RemoteProtocols, RemoteGrants
<1>9. JobsHold'
  <2>1. SUFFICES ASSUME NEW q \in Submission
                 PROVE  (IF wallet[q].at = "idle"
                         THEN \A r \in Protocol : wallet[q].job[r] = "none"
                         ELSE /\ wallet[q].session \in Session
                              /\ session[wallet[q].session] # "new"
                              /\ \A r \in Protocol : Job(q, r)
                              /\ wallet[q].at = "posted" =>
                                    \A r \in Protocol :
                                        wallet[q].job[r] \in {"none", "done"})'
    BY DEF JobsHold
  <2>2. CASE q = s
    BY <1>3, <1>4, <1>6, <1>7, <2>2
  <2>3. CASE q # s
    BY <1>3, <1>4, <1>8, <2>3 DEF JobsHold
  <2> QED
    BY <2>2, <2>3
<1>10. AnswersHold'
  BY <1>1, <1>3, <1>4 DEF AnswersHold, ConnectTypeOK
<1> QED
  BY <1>5, <1>9, <1>10

LEMMA PostResponseKeeps ==
    ASSUME ConnectInvariant, NEW s \in Submission, PostResponse(s)
    PROVE  ConnectInvariant'
<1> USE DEF ConnectInvariant
<1> DEFINE a == wallet[s].session
<1>1. /\ wallet[s].at = "running"
      /\ \A p \in Protocol : wallet[s].job[p] \in {"none", "done"}
      /\ wallet' = [wallet EXCEPT ![s].at = "posted"]
      /\ UNCHANGED <<asked, pushed, poll, session, received, protocols, grants>>
      /\ response' \in {response, [response EXCEPT ![a] = s]}
  BY DEF PostResponse
<1>2. a \in Session /\ session[a] # "new" /\ \A p \in Protocol : Job(s, p)
  BY <1>1 DEF JobsHold
<1>3. /\ wallet' \in [Submission -> Wallet]
      /\ wallet'[s].at = "posted" /\ wallet'[s].session = a
      /\ wallet'[s].job = wallet[s].job
      /\ \A q \in Submission \ {s} : wallet'[q] = wallet[q]
  BY <1>1 DEF ConnectTypeOK, Wallet
<1> HIDE DEF a
<1>4. /\ response' \in [Session -> Submission \cup {Nobody}]
      /\ \A b \in Session : response'[b] = response[b] \/ (b = a /\ response'[b] = s)
  BY <1>1, <1>2 DEF ConnectTypeOK
<1>5. ConnectTypeOK' /\ SessionsHold'
  BY <1>1, <1>3, <1>4 DEF ConnectTypeOK, SessionsHold
<1>6. \A q \in Submission : wallet'[q].session = wallet[q].session
                            /\ wallet'[q].job = wallet[q].job
  BY <1>3 DEF a
<1>7. ASSUME NEW q \in Submission, NEW p \in Protocol, Job(q, p)
      PROVE  Job(q, p)'
  <2>1. JobGrants(q, p)' = JobGrants(q, p)
    BY <1>1, <1>6 DEF JobGrants, JobScopes
  <2> QED
    BY <1>1, <1>6, <1>7, <2>1 DEF Job, RemoteProtocols, RemoteGrants
<1>8. JobsHold'
  <2>1. SUFFICES ASSUME NEW q \in Submission
                 PROVE  (IF wallet[q].at = "idle"
                         THEN \A r \in Protocol : wallet[q].job[r] = "none"
                         ELSE /\ wallet[q].session \in Session
                              /\ session[wallet[q].session] # "new"
                              /\ \A r \in Protocol : Job(q, r)
                              /\ wallet[q].at = "posted" =>
                                    \A r \in Protocol :
                                        wallet[q].job[r] \in {"none", "done"})'
    BY DEF JobsHold
  <2>2. CASE q = s
    BY <1>1, <1>2, <1>3, <1>7, <2>2
  <2>3. CASE q # s
    BY <1>1, <1>3, <1>7, <2>3 DEF JobsHold
  <2> QED
    BY <2>2, <2>3
<1>9. AnswersHold'
  <2>1. SUFFICES ASSUME NEW b \in Session, NEW x, x \in {response'[b], received'[b]},
                        x # Nobody
                 PROVE  wallet'[x].at = "posted" /\ wallet'[x].session = b
    BY DEF AnswersHold
  <2>2. CASE x = s /\ b = a
    BY <1>3, <2>2
  <2>3. CASE x \in {response[b], received[b]}
    <3>1. x \in Submission /\ wallet[x].at = "posted" /\ wallet[x].session = b
      BY <2>1, <2>3 DEF AnswersHold, ConnectTypeOK
    <3>2. x # s
      BY <1>1, <3>1
    <3> QED
      BY <1>3, <3>1, <3>2
  <2> QED
    BY <1>1, <1>4, <2>1, <2>2, <2>3
<1> QED
  BY <1>5, <1>8, <1>9

LEMMA ConnectInvariantKept ==
    ASSUME ConnectInvariant, ConnectStep
    PROVE  ConnectInvariant'
<1>1. CASE \E a \in Session, ask \in Asks : InitClient(a, ask)
  BY <1>1, InitClientKeeps
<1>2. CASE \E a \in Session : PollNext(a) \/ EnterPin(a)
  BY <1>2, PollKeeps
<1>3. CASE WalletNext
  <2>1. PICK s \in Submission :
            \/ \E a \in Session : SubmitAuthResponse(s, a)
            \/ \E p \in Protocol :
                  \/ QueryProtocol(s, p) \/ SendProtocol(s, p)
                  \/ ProcessProtocol(s, p) \/ CreateGrants(s, p)
                  \/ DeliverGrants(s, p)
            \/ PostResponse(s)
    BY <1>3 DEF WalletNext
  <2>2. CASE \E a \in Session : SubmitAuthResponse(s, a)
    BY <2>2, SubmitKeeps
  <2>3. CASE PostResponse(s)
    BY <2>3, PostResponseKeeps
  <2>4. ASSUME NEW p \in Protocol, QueryProtocol(s, p) PROVE ConnectInvariant'
    BY <2>4, QueryProtocolKeeps
  <2>5. ASSUME NEW p \in Protocol, SendProtocol(s, p) PROVE ConnectInvariant'
    BY <2>5, SendProtocolKeeps
  <2>6. ASSUME NEW p \in Protocol, ProcessProtocol(s, p) PROVE ConnectInvariant'
    BY <2>6, ProcessProtocolKeeps
  <2>7. ASSUME NEW p \in Protocol, CreateGrants(s, p) PROVE ConnectInvariant'
    BY <2>7, CreateGrantsKeeps
  <2>8. ASSUME NEW p \in Protocol, DeliverGrants(s, p) PROVE ConnectInvariant'
    BY <2>8, DeliverGrantsKeeps
  <2> QED
    BY <2>1, <2>2, <2>3, <2>4, <2>5, <2>6, <2>7, <2>8
<1>4. CASE Stops
  BY <1>4, StopsKeeps
<1>5. CASE UNCHANGED <<connect, issue>>
  <2>1. UNCHANGED <<asked, pushed, response, poll, session, received, wallet,
                    protocols, grants>>
    BY <1>5 DEF connect, issue
  <2>2. ConnectTypeOK' /\ SessionsHold' /\ AnswersHold'
    BY <2>1 DEF ConnectInvariant, ConnectTypeOK, SessionsHold, AnswersHold
  <2>3. JobsHold'
    BY <2>1 DEF ConnectInvariant, JobsHold, Job, JobGrants, JobScopes,
                RemoteProtocols, RemoteGrants
  <2> QED
    BY <2>2, <2>3 DEF ConnectInvariant
<1> QED
  BY <1>1, <1>2, <1>3, <1>4, <1>5 DEF ConnectStep, ConnectNext

\* A session that has begun keeps its request, and one that has its answer keeps
\* it for good.
LEMMA SessionsStay ==
    ASSUME ConnectInvariant, ConnectStep, NEW a \in Session
    PROVE  /\ session[a] # "new" => session'[a] # "new" /\ asked'[a] = asked[a]
           /\ session[a] = "done" => session'[a] = "done" /\ received'[a] = received[a]
<1> USE DEF ConnectInvariant, ConnectTypeOK
<1>1. CASE \E b \in Session, ask \in Asks : InitClient(b, ask)
  BY <1>1 DEF InitClient
<1>2. CASE \E b \in Session : PollNext(b) \/ EnterPin(b)
  BY <1>2 DEF PollNext, Poll, PollEnds, PollFetched, PollRejected, EnterPin, Settles
<1>3. CASE WalletNext
  <2>1. UNCHANGED <<asked, session, received>>
    BY <1>3 DEF WalletNext, SubmitAuthResponse, PostResponse, QueryProtocol,
                SendProtocol, ProcessProtocol, CreateGrants, DeliverGrants, Issue,
                connect
  <2> QED
    BY <2>1
<1>4. CASE Stops
  BY <1>4 DEF Stops
<1>5. CASE UNCHANGED <<connect, issue>>
  BY <1>5 DEF connect
<1> QED
  BY <1>1, <1>2, <1>3, <1>4, <1>5 DEF ConnectStep, ConnectNext

\* Two sessions never have the same answer.
LEMMA AnswersApart ==
    ASSUME ConnectInvariant, NEW a \in Session, NEW b \in Session,
           received[a] = received[b], received[a] # Nobody
    PROVE  a = b
BY DEF ConnectInvariant, AnswersHold

\* What the wallet has granted for an answer.
LEMMA GrantedWhenAnswered ==
    ASSUME ConnectInvariant
    PROVE  GrantedBeforeAnswered
<1> USE DEF ConnectInvariant
<1>1. SUFFICES ASSUME NEW a \in Session, NEW s \in {response[a], received[a]} \ {Nobody}
               PROVE  /\ DOMAIN asked[a] \subseteq RemoteProtocols
                      /\ {GrantOf(s, x) : x \in Scopes(asked[a])}
                             \subseteq grants[Local] \cap RemoteGrants
  BY DEF GrantedBeforeAnswered
<1>2. s \in Submission /\ wallet[s].at = "posted" /\ wallet[s].session = a
  BY DEF AnswersHold, ConnectTypeOK
<1>3. \A p \in Protocol : Job(s, p) /\ wallet[s].job[p] \in {"none", "done"}
  BY <1>2 DEF JobsHold
<1>4. asked[a] \in Asks \cup {<< >>}
  BY DEF ConnectTypeOK
<1>5. ASSUME NEW p \in DOMAIN asked[a]
      PROVE  p \in RemoteProtocols /\ JobGrants(s, p) \subseteq grants[Local] \cap RemoteGrants
  BY <1>2, <1>3, <1>4, ScopesOfAsk DEF Job
<1>6. ASSUME NEW x \in Scopes(asked[a]) 
      PROVE  GrantOf(s, x) \in grants[Local] \cap RemoteGrants
  <2>1. x.protocol \in DOMAIN asked[a]
    BY <1>4, ScopesOfAsk
  <2>2. GrantOf(s, x) \in JobGrants(s, x.protocol)
    BY <1>2 DEF JobGrants, JobScopes
  <2> QED
    BY <1>5, <2>1, <2>2
<1> QED
  BY <1>5, <1>6

-----------------------------------------------------------------------------
(* The invariant of the application *)

Asking    == {"idle", "launch", "start", "find", "wallet", "createDid"}
Importing == {"importDid", "importIdentity", "grants", "cleanDid", "cleanIdentity"}
Serving   == {"register", "registerSync", "pull", "connected"}
Early     == {"wallet", "importDid", "importIdentity"}

Delegates(b, i) == b \in Session /\ session[b] = "done" /\ received[b] = i
GrantsOf(b)     == {GrantOf(received[b], x) : x \in Scopes(asked[b])}
StoredFor(i)    == {g \in stored : g.grantedTo = i}
ProtocolsFor(i) == {g.scope.protocol : g \in StoredFor(i)}

\* What connect() knows at each of its steps.
AppHolds ==
    /\ app.at \in Asking => app.identity = Nobody
    /\ app.at \in {"launch", "start", "find"} =>
          ~app.registerSync /\ app.session = Nobody
    /\ app.at \in Asking \cup {"importDid", "importIdentity", "createIdentity"} =>
          app.protocols = {}
    /\ app.session # Nobody => session[app.session] # "new"
    /\ app.at \in Importing =>
          app.registerSync /\ Delegates(app.session, app.identity)
    /\ app.at = "grants" =>
          app.protocols = ProtocolsFor(app.identity)
    /\ app.at \in {"createIdentity", "registerSync", "pull"} => app.registerSync
    /\ app.at = "wallet" /\ app.session # Nobody => app.registerSync
    /\ app.at = "createIdentity" => app.identity \in Created
    /\ app.at \in Serving /\ app.registerSync /\ Connected(app.identity) =>
          /\ Delegates(app.session, app.identity)
          /\ app.protocols = DOMAIN asked[app.session]
          /\ GrantsOf(app.session) \subseteq stored

\* A stored grant is one of an answer that was used; nothing is stored for an
\* answer before its identity is.
StoredHolds ==
    \A g \in stored : \E b \in Session :
        /\ session[b] = "done"
        /\ g \in GrantsOf(b)
        /\ b = app.session => app.at \notin Early

\* A delegate syncs what its session asked for, with all its grants.
SyncingHolds ==
    \A r \in syncing : r.delegate # Nobody => \E b \in Session :
        /\ Delegates(b, r.delegate)
        /\ r.protocols = DOMAIN asked[b]
        /\ GrantsOf(b) \subseteq stored
        /\ b = app.session => app.at \in {"pull", "connected"}

DidOf(i) == IF Connected(i) THEN Owner ELSE i

\* connect() has yet to register the identity, or has been told not to sync.
Awaits(i) ==
    /\ app.identity = i /\ app.registerSync
    /\ \/ app.at \in {"grants", "cleanDid", "cleanIdentity", "register", "registerSync"}
       \/ app.at = "connected" /\ ~app.option.sync

\* The stores agree but where connect() is at work or ended too early.
IdentitiesHold ==
    /\ app.at \in {"importIdentity", "createIdentity"} => app.identity \in dids
    /\ app.at \in Serving \cup {"grants"} => app.identity \in identities \cap dids
    /\ \A i \in identities \ cut :
          i \in dids \/ (i = app.identity /\ app.at = "cleanIdentity")
    /\ dids \subseteq keys
    /\ \A i \in identities \ cut :
          Awaits(i) \/ \E r \in syncing : r.did = DidOf(i)

\* What has been imported comes from an answer that was decrypted.
KeysAccepted ==
    \A i \in Submission : i \in keys =>
        \E a \in Session : session[a] = "done" /\ received[a] = i

Web5Invariant ==
    /\ ConnectInvariant /\ TypeOK
    /\ AppHolds /\ StoredHolds /\ SyncingHolds /\ IdentitiesHold
    /\ KeysAccepted

-----------------------------------------------------------------------------
(* What a step leaves alone *)

LEMMA NumbersApart ==
    /\ Submission \subseteq Identity /\ Created \subseteq Identity
    /\ Submission \cap Created = {}
    /\ Nobody \notin Identity /\ Nobody \notin Session /\ Nobody \notin Submission
BY ConnectAssumption, Web5Assumption
   DEF Identity, Created, Submission, Session, Nobody

\* An answer in use is the same after any step.
LEMMA DelegatesStay ==
    ASSUME ConnectInvariant, ConnectStep, NEW b \in Session, session[b] = "done"
    PROVE  /\ session'[b] = "done" /\ received'[b] = received[b]
           /\ asked'[b] = asked[b] /\ GrantsOf(b)' = GrantsOf(b)
<1>1. session'[b] = "done" /\ received'[b] = received[b] /\ asked'[b] = asked[b]
  BY SessionsStay
<1> QED
  BY <1>1 DEF GrantsOf

LEMMA Unmoved ==
    ASSUME UNCHANGED <<connect, issue>>
    PROVE  /\ UNCHANGED <<asked, session, received>>
           /\ ConnectTypeOK' = ConnectTypeOK
           /\ KeysAccepted' = (\A i \in Submission : i \in keys' =>
                 \E a \in Session : session[a] = "done" /\ received[a] = i)
           /\ \A b, i : Delegates(b, i)' = Delegates(b, i)
           /\ \A b : GrantsOf(b)' = GrantsOf(b)
<1>1. UNCHANGED <<asked, pushed, response, poll, session, received, wallet, protocols,
                  grants>>
  BY DEF connect, issue
<1>2. ConnectTypeOK' = ConnectTypeOK
  BY <1>1 DEF ConnectTypeOK
<1>3. \A b, i : Delegates(b, i)' = Delegates(b, i)
  BY <1>1 DEF Delegates
<1>4. \A b : GrantsOf(b)' = GrantsOf(b)
  BY <1>1 DEF GrantsOf
<1>5. KeysAccepted' = (\A i \in Submission : i \in keys' =>
          \E a \in Session : session[a] = "done" /\ received[a] = i)
  BY <1>1 DEF KeysAccepted
<1> QED
  BY <1>1, <1>2, <1>3, <1>4, <1>5

\* The session of connect() is dropped, fresh, or no less far than it was.
SessionKept ==
    \/ app'.session = Nobody
    \/ app'.session = app.session /\ (app'.at \in Early => app.at \in Early)
    \/ session[app'.session] # "done"

LEMMA StoredStays ==
    ASSUME Web5Invariant, ConnectStep, SessionKept, NEW g \in stored
    PROVE  \E b \in Session : /\ session'[b] = "done"
                              /\ g \in GrantsOf(b)'
                              /\ b = app'.session => app'.at \notin Early
<1>1. PICK b \in Session : /\ session[b] = "done" /\ g \in GrantsOf(b)
                           /\ b = app.session => app.at \notin Early
  BY DEF Web5Invariant, StoredHolds
<1>2. session'[b] = "done" /\ GrantsOf(b)' = GrantsOf(b)
  BY <1>1, DelegatesStay DEF Web5Invariant
<1>3. b = app'.session => app'.at \notin Early
  BY <1>1, NumbersApart DEF SessionKept
<1> QED
  BY <1>1, <1>2, <1>3

LEMMA SyncingStays ==
    ASSUME Web5Invariant, ConnectStep, stored \subseteq stored',
           NEW r \in syncing, r.delegate # Nobody,
           \/ app'.session = Nobody
           \/ app'.session = app.session
              /\ (app.at \in {"pull", "connected"} => app'.at \in {"pull", "connected"})
           \/ session[app'.session] # "done"
    PROVE  \E b \in Session : /\ Delegates(b, r.delegate)'
                              /\ r.protocols = DOMAIN asked'[b]
                              /\ GrantsOf(b)' \subseteq stored'
                              /\ b = app'.session => app'.at \in {"pull", "connected"}
<1>1. PICK b \in Session : /\ Delegates(b, r.delegate)
                           /\ r.protocols = DOMAIN asked[b]
                           /\ GrantsOf(b) \subseteq stored
                           /\ b = app.session => app.at \in {"pull", "connected"}
  BY DEF Web5Invariant, SyncingHolds
<1>2. session[b] = "done" /\ received[b] = r.delegate
  BY <1>1 DEF Delegates
<1>3. /\ session'[b] = "done" /\ received'[b] = received[b] /\ asked'[b] = asked[b]
      /\ GrantsOf(b)' = GrantsOf(b)
  BY <1>2, DelegatesStay DEF Web5Invariant
<1>4. Delegates(b, r.delegate)'
  BY <1>2, <1>3 DEF Delegates
<1>5. b = app'.session => app'.at \in {"pull", "connected"}
  BY <1>1, <1>2, NumbersApart
<1> QED
  BY <1>1, <1>3, <1>4, <1>5

LEMMA ImportStays ==
    ASSUME Web5Invariant, ConnectStep, keys' \cap Submission \subseteq keys
    PROVE  KeysAccepted'
<1>1. SUFFICES ASSUME NEW i \in Submission, i \in keys
               PROVE  \E a \in Session : session'[a] = "done" /\ received'[a] = i
  BY DEF KeysAccepted
<1>2. PICK a \in Session : session[a] = "done" /\ received[a] = i
  BY <1>1 DEF Web5Invariant, KeysAccepted
<1>3. session'[a] = "done" /\ received'[a] = received[a]
  BY <1>2, DelegatesStay DEF Web5Invariant
<1> QED
  BY <1>2, <1>3

-----------------------------------------------------------------------------
(* The steps of connect() *)

\* A step that touches no store keeps the invariant when connect() still knows
\* what it must, and goes on awaiting what it awaited.
LEMMA QuietStep ==
    ASSUME Web5Invariant, app' \in App, initialized' \in BOOLEAN,
           UNCHANGED <<connect, issue, keys, dids, identities, stored, syncing,
                       tenants, cut>>,
           AppHolds', app.at # "cleanIdentity",
           \/ app'.session = Nobody
           \/ /\ app'.session = app.session
              /\ app'.at \in Early => app.at \in Early
              /\ app.at \in {"pull", "connected"} => app'.at \in {"pull", "connected"},
           app'.at \in {"importIdentity", "createIdentity"} => app'.identity \in dids,
           app'.at \in Serving \cup {"grants"} => app'.identity \in identities \cap dids,
           \A i \in identities \ cut : Awaits(i) => Awaits(i)'
    PROVE  Web5Invariant'
<1> USE DEF Web5Invariant
<1>1. ConnectStep
  BY DEF ConnectStep
<1>2. ConnectInvariant'
  BY <1>1, ConnectInvariantKept
<1>3. TypeOK'
  BY <1>2 DEF TypeOK, ConnectInvariant
<1>4. StoredHolds'
  BY <1>1, StoredStays DEF StoredHolds, SessionKept
<1>5. SyncingHolds'
  BY <1>1, SyncingStays DEF SyncingHolds
<1>6. IdentitiesHold'
  <2>1. \A i \in identities \ cut : i \in dids
    BY DEF IdentitiesHold
  <2>2. \A i \in identities \ cut : Awaits(i)' \/ \E r \in syncing : r.did = DidOf(i)
    BY DEF IdentitiesHold
  <2>3. \A i : DidOf(i)' = DidOf(i)
    BY DEF DidOf, Connected
  <2> QED
    BY <2>1, <2>2, <2>3 DEF IdentitiesHold
<1>7. KeysAccepted'
  BY <1>1, ImportStays
<1> QED
  BY <1>2, <1>3, <1>4, <1>5, <1>6, <1>7

LEMMA RestingHolds ==
    ASSUME app' = Resting
    PROVE  /\ AppHolds'
           /\ app'.session = Nobody /\ app'.at = "idle" /\ app'.identity = Nobody
<1>1. /\ app'.at = "idle" /\ app'.session = Nobody /\ app'.identity = Nobody
      /\ app'.protocols = {}
  BY DEF Resting
<1> QED
  BY <1>1 DEF AppHolds, Asking, Importing, Serving

LEMMA RestingTyped == Resting \in App
<1>1. NoOption \in Option
  BY DEF NoOption, Option
<1> QED
  BY <1>1 DEF Resting, App, AppStep

\* connect() throws and the stores are as they were.
LEMMA ThrowKeeps ==
    ASSUME Web5Invariant, app' = Resting, initialized' \in BOOLEAN,
           UNCHANGED <<connect, issue, keys, dids, identities, stored, syncing,
                       tenants, cut>>,
           app.at \notin {"grants", "cleanDid", "cleanIdentity", "register",
                          "registerSync", "connected"}
    PROVE  Web5Invariant'
<1>1. AppHolds' /\ app'.session = Nobody /\ app'.at = "idle"
  BY RestingHolds
<1>2. app' \in App
  BY RestingTyped
<1>3. \A i \in identities \ cut : ~Awaits(i)
  BY DEF Awaits
<1> QED
  BY <1>1, <1>2, <1>3, QuietStep DEF Serving

LEMMA ConnectKeeps ==
    ASSUME Web5Invariant, NEW option \in Options, Connect(option)
    PROVE  Web5Invariant'
<1>1. /\ app.at = "idle" /\ app' = [Resting EXCEPT !.at = "launch", !.option = option]
      /\ UNCHANGED <<connect, issue, agent, tenants, cut>>
  BY DEF Connect
<1>2. /\ app'.at = "launch" /\ app'.session = Nobody /\ app'.identity = Nobody
      /\ app'.protocols = {} /\ ~app'.registerSync
  BY <1>1 DEF Resting
<1>3. app' \in App
  BY <1>1, RestingTyped, Web5Assumption DEF App, AppStep
<1>4. AppHolds'
  BY <1>2 DEF AppHolds, Asking, Importing, Serving
<1>5. \A i \in identities \ cut : ~Awaits(i)
  BY <1>1 DEF Awaits
<1> QED
  BY <1>1, <1>2, <1>3, <1>4, <1>5, QuietStep
     DEF Early, Serving, agent, Web5Invariant, TypeOK

\* From one of the first steps to the next, with nothing known but that.
LEMMA AdvanceKeeps ==
    ASSUME Web5Invariant, NEW step \in Asking, Goto(step), initialized' \in BOOLEAN,
           app.at \in {"launch", "start", "find"},
           UNCHANGED <<connect, issue, keys, dids, identities, stored, syncing,
                       tenants, cut>>
    PROVE  Web5Invariant'
<1>1. app' = [app EXCEPT !.at = step]
  BY DEF Goto
<1>2. app \in App /\ step \in AppStep
  BY DEF Web5Invariant, TypeOK, Asking, AppStep
<1>3. /\ app'.at = step /\ app'.session = Nobody /\ app'.identity = Nobody
      /\ app'.protocols = {} /\ ~app'.registerSync
  BY <1>1, <1>2 DEF App, Web5Invariant, AppHolds, Asking
<1>4. app' \in App
  BY <1>1, <1>2 DEF App
<1>5. AppHolds'
  BY <1>3 DEF AppHolds, Asking, Importing, Serving
<1>6. \A i \in identities \ cut : ~Awaits(i)
  BY DEF Awaits
<1> QED
  BY <1>3, <1>4, <1>5, <1>6, QuietStep DEF Asking, Serving

LEMMA LaunchKeeps ==
    ASSUME Web5Invariant, Launch
    PROVE  Web5Invariant'
<1>1. /\ app.at = "launch"
      /\ UNCHANGED <<connect, issue, keys, dids, identities, stored, syncing,
                     tenants, cut>>
      /\ initialized' \in BOOLEAN
      /\ Goto("start") \/ app' = Resting
  BY DEF Launch, Throws, Web5Invariant, TypeOK
<1>2. CASE Goto("start")
  BY <1>1, <1>2, AdvanceKeeps DEF Asking
<1>3. CASE app' = Resting
  BY <1>1, <1>3, ThrowKeeps
<1> QED
  BY <1>1, <1>2, <1>3

LEMMA StartKeeps ==
    ASSUME Web5Invariant, Start
    PROVE  Web5Invariant'
<1>1. /\ app.at = "start"
      /\ UNCHANGED <<connect, issue, keys, dids, identities, stored, syncing,
                     tenants, cut>>
      /\ initialized' \in BOOLEAN
      /\ Goto("find") \/ app' = Resting
  BY DEF Start, Throws, agent, Web5Invariant, TypeOK
<1>2. CASE Goto("find")
  BY <1>1, <1>2, AdvanceKeeps DEF Asking
<1>3. CASE app' = Resting
  BY <1>1, <1>3, ThrowKeeps
<1> QED
  BY <1>1, <1>2, <1>3

LEMMA FindKeeps ==
    ASSUME Web5Invariant, Find
    PROVE  Web5Invariant'
<1>1. /\ app.at = "find"
      /\ UNCHANGED <<connect, issue, keys, dids, identities, stored, syncing,
                     tenants, cut>>
      /\ initialized' \in BOOLEAN
  BY DEF Find, agent, Web5Invariant, TypeOK
<1>2. \/ app' = Resting
      \/ \E i \in identities : Readable /\ Chosen(i)
      \/ Goto("wallet") \/ Goto("createDid")
  BY DEF Find, Throws
<1>3. CASE app' = Resting
  BY <1>1, <1>3, ThrowKeeps
<1>4. CASE Goto("wallet") \/ Goto("createDid")
  BY <1>1, <1>4, AdvanceKeeps DEF Asking
<1>5. ASSUME NEW i \in identities, Readable, Chosen(i) PROVE Web5Invariant'
  <2>1. app' = [app EXCEPT !.at = "register", !.identity = i, !.endpoints = Endpoint]
    BY <1>5 DEF Chosen
  <2>2. app \in App /\ i \in Identity /\ i \in dids
    BY <1>5 DEF Web5Invariant, TypeOK, Readable
  <2>3. /\ app'.at = "register" /\ app'.session = Nobody /\ app'.identity = i
        /\ ~app'.registerSync
    BY <1>1, <2>1, <2>2 DEF App, Web5Invariant, AppHolds
  <2>4. app' \in App
    BY <2>1, <2>2 DEF App, AppStep
  <2>5. AppHolds'
    BY <2>3 DEF AppHolds, Asking, Importing, Serving
  <2>6. \A j \in identities \ cut : ~Awaits(j)
    BY <1>1 DEF Awaits
  <2> QED
    BY <1>1, <2>2, <2>3, <2>4, <2>5, <2>6, QuietStep DEF Serving
<1> QED
  BY <1>2, <1>3, <1>4, <1>5

LEMMA WalletFailedKeeps ==
    ASSUME Web5Invariant, WalletFailed
    PROVE  Web5Invariant'
<1>1. /\ app.at = "wallet" /\ app' = Resting
      /\ UNCHANGED <<connect, issue, keys, dids, identities, stored, syncing,
                     tenants, cut>>
      /\ initialized' \in BOOLEAN
  BY DEF WalletFailed, Throws, agent, Web5Invariant, TypeOK
<1> QED
  BY <1>1, ThrowKeeps

LEMMA WalletAnsweredKeeps ==
    ASSUME Web5Invariant, WalletAnswered
    PROVE  Web5Invariant'
<1>1. PICK a \in Session :
          /\ a = app.session /\ app.at = "wallet" /\ session[a] = "done"
          /\ app' = [app EXCEPT !.at = "importDid", !.identity = received[a]]
          /\ UNCHANGED <<connect, issue, keys, dids, identities, stored, syncing,
                         tenants, cut>>
          /\ initialized' \in BOOLEAN
  BY DEF WalletAnswered, agent, Web5Invariant, TypeOK, App
<1>2. PICK i \in Submission : i = received[a]
  BY <1>1 DEF Web5Invariant, ConnectInvariant, SessionsHold
<1>3. app \in App
  BY DEF Web5Invariant, TypeOK
<1>4. /\ app'.at = "importDid" /\ app'.session = a /\ app'.identity = i
      /\ app'.protocols = app.protocols /\ app'.registerSync = app.registerSync
  BY <1>1, <1>2, <1>3 DEF App
<1>5. app' \in App
  BY <1>1, <1>2, <1>3, NumbersApart DEF App, AppStep
<1>6. app.registerSync /\ app.protocols = {}
  BY <1>1, NumbersApart DEF Web5Invariant, AppHolds, Asking
<1>7. session'[a] = "done" /\ received'[a] = i
  BY <1>1, <1>2, Unmoved
<1>8. AppHolds'
  BY <1>4, <1>6, <1>7 DEF AppHolds, Asking, Importing, Serving, Delegates
<1>9. \A j \in identities \ cut : ~Awaits(j)
  BY <1>1 DEF Awaits
<1> QED
  BY <1>1, <1>4, <1>5, <1>8, <1>9, QuietStep DEF Serving, Early

LEMMA PullKeeps ==
    ASSUME Web5Invariant, Pull
    PROVE  Web5Invariant'
<1>1. /\ app.at = "pull"
      /\ Goto("connected") \/ app' = Resting
      /\ UNCHANGED <<connect, issue, keys, dids, identities, stored, syncing,
                     tenants, cut>>
      /\ initialized' \in BOOLEAN
  BY DEF Pull, Throws, agent, Web5Invariant, TypeOK
<1>2. CASE app' = Resting
  BY <1>1, <1>2, ThrowKeeps
<1>3. CASE Goto("connected")
  <2>1. app' = [app EXCEPT !.at = "connected"] /\ app \in App
    BY <1>3 DEF Goto, Web5Invariant, TypeOK
  <2>2. /\ app'.at = "connected" /\ app'.session = app.session
        /\ app'.identity = app.identity
        /\ app'.protocols = app.protocols /\ app'.registerSync = app.registerSync
    BY <2>1 DEF App
  <2>3. app' \in App
    BY <2>1 DEF App, AppStep
  <2>4. AppHolds'
    <3>1. AppHolds
      BY DEF Web5Invariant
    <3>2. Delegates(app.session, app.identity)' = Delegates(app.session, app.identity)
             /\ GrantsOf(app.session)' = GrantsOf(app.session)
      BY <1>1, <2>2, Unmoved DEF Delegates, GrantsOf
    <3> QED
      BY <1>1, <2>2, <3>1, <3>2, Unmoved
         DEF AppHolds, Asking, Importing, Serving, Connected
  <2>5. \A j \in identities \ cut : ~Awaits(j)
    BY <1>1 DEF Awaits
  <2>6. app.identity \in identities \cap dids
    BY <1>1 DEF Web5Invariant, IdentitiesHold, Serving
  <2> QED
    BY <1>1, <2>2, <2>3, <2>4, <2>5, <2>6, QuietStep DEF Serving, Early
<1> QED
  BY <1>1, <1>2, <1>3

LEMMA AskWalletKeeps ==
    ASSUME Web5Invariant, AskWallet
    PROVE  Web5Invariant'
<1> USE DEF Web5Invariant
<1>1. PICK a \in Session, ask \in Asks :
          /\ InitClient(a, ask)
          /\ app' = [app EXCEPT !.session = a, !.registerSync = TRUE]
          /\ app.at = "wallet" /\ UNCHANGED <<agent, tenants, cut>>
  BY DEF AskWallet
<1>2. ConnectStep
  BY <1>1 DEF ConnectStep
<1>3. ConnectInvariant'
  BY <1>2, ConnectInvariantKept
<1>4. UNCHANGED <<initialized, keys, dids, identities, stored, syncing, tenants, cut>>
  BY <1>1 DEF agent
<1>5. app \in App
  BY DEF TypeOK
<1>6. /\ app'.at = "wallet" /\ app'.session = a /\ app'.identity = app.identity
      /\ app'.protocols = app.protocols /\ app' \in App /\ app'.registerSync
  BY <1>1, <1>5 DEF App
<1>7. session[a] = "new" /\ session'[a] # "new"
  BY <1>1 DEF InitClient, ConnectInvariant, ConnectTypeOK
<1>8. TypeOK'
  BY <1>3, <1>4, <1>6 DEF TypeOK, ConnectInvariant
<1>9. AppHolds'
  <2>1. app.identity = Nobody /\ app.protocols = {}
    BY <1>1 DEF AppHolds, Asking
  <2> QED
    BY <1>6, <1>7, <2>1 DEF AppHolds, Asking, Importing, Serving
<1>10. StoredHolds'
  BY <1>2, <1>4, <1>6, <1>7, StoredStays DEF StoredHolds, SessionKept
<1>11. SyncingHolds'
  BY <1>2, <1>4, <1>6, <1>7, SyncingStays DEF SyncingHolds
<1>12. IdentitiesHold'
  <2>1. /\ \A i \in identities \ cut : i \in dids
        /\ \A i \in identities \ cut : \E r \in syncing : r.did = DidOf(i)
    BY <1>1 DEF IdentitiesHold, Awaits
  <2>2. \A i : DidOf(i)' = DidOf(i)
    BY DEF DidOf, Connected
  <2> QED
    BY <1>4, <1>6, <2>1, <2>2 DEF IdentitiesHold, Serving
<1>13. KeysAccepted'
  BY <1>2, <1>4, ImportStays
<1> QED
  BY <1>3, <1>8, <1>9, <1>10, <1>11, <1>12, <1>13

\* A step of the wallet, of a poll or of the user leaves connect() what it has.
LEMMA OutsideKeeps ==
    ASSUME Web5Invariant, ConnectNext, UNCHANGED Outside
    PROVE  Web5Invariant'
<1> USE DEF Web5Invariant
<1>1. ConnectStep
  BY DEF ConnectStep
<1>2. ConnectInvariant'
  BY <1>1, ConnectInvariantKept
<1>3. UNCHANGED <<app, initialized, keys, dids, identities, stored, syncing, tenants, cut>>
  BY DEF Outside, agent
<1>4. TypeOK'
  BY <1>2, <1>3 DEF TypeOK, ConnectInvariant
<1>5. ASSUME NEW b \in Session, NEW i, Delegates(b, i)
      PROVE  Delegates(b, i)' /\ GrantsOf(b)' = GrantsOf(b) /\ asked'[b] = asked[b]
  BY <1>1, <1>5, DelegatesStay DEF Delegates
<1>6. AppHolds'
  <2>1. PICK b, i : b = app.session /\ i = app.identity
    OBVIOUS
  <2>2. b # Nobody => session'[b] # "new"
    BY <1>1, <2>1, SessionsStay DEF AppHolds, TypeOK, App
  <2>3. Delegates(b, i) => Delegates(b, i)' /\ GrantsOf(b)' = GrantsOf(b)
                           /\ asked'[b] = asked[b]
    BY <1>5 DEF Delegates
  <2>4. Delegates(app.session, app.identity)' = Delegates(b, i)'
           /\ GrantsOf(app.session)' = GrantsOf(b)'
           /\ app'.session = b /\ app'.identity = i
    BY <1>3, <2>1 DEF Delegates, GrantsOf
  <2>5. ProtocolsFor(app.identity)' = ProtocolsFor(i)
    BY <1>3, <2>1 DEF ProtocolsFor, StoredFor
  <2>6. (app.at \in Importing =>
             app.registerSync /\ Delegates(app.session, app.identity))'
    BY <1>3, <2>1, <2>3, <2>4 DEF AppHolds
  <2>7. (app.at = "grants" =>
             app.protocols = ProtocolsFor(app.identity))'
    BY <1>3, <2>1, <2>5 DEF AppHolds
  <2>8. (app.at \in Serving /\ app.registerSync /\ Connected(app.identity) =>
             /\ Delegates(app.session, app.identity)
             /\ app.protocols = DOMAIN asked[app.session]
             /\ GrantsOf(app.session) \subseteq stored)'
    <3>1. SUFFICES ASSUME app.at \in Serving, app.registerSync, Connected(i)
                   PROVE  /\ Delegates(b, i)'
                          /\ app.protocols = DOMAIN asked'[b]
                          /\ GrantsOf(b)' \subseteq stored
      BY <1>3, <2>1, <2>4 DEF Connected
    <3>2. Delegates(b, i) /\ app.protocols = DOMAIN asked[b] /\ GrantsOf(b) \subseteq stored
      BY <2>1, <3>1 DEF AppHolds
    <3> QED
      BY <2>3, <3>2
  <2> QED
    <3>1. (/\ app.at \in Asking => app.identity = Nobody
           /\ app.at \in {"launch", "start", "find"} =>
                 ~app.registerSync /\ app.session = Nobody
           /\ app.at \in Asking \cup {"importDid", "importIdentity", "createIdentity"} =>
                 app.protocols = {}
           /\ app.at \in {"createIdentity", "registerSync", "pull"} => app.registerSync
           /\ app.at = "wallet" /\ app.session # Nobody => app.registerSync
           /\ app.at = "createIdentity" => app.identity \in Created)'
      BY <1>3 DEF AppHolds
    <3>2. (app.session # Nobody => session[app.session] # "new")'
      BY <2>2, <2>4
    <3> QED
      BY <3>1, <3>2, <2>6, <2>7, <2>8 DEF AppHolds
<1>7. StoredHolds'
  BY <1>1, <1>3, StoredStays DEF StoredHolds, SessionKept
<1>8. SyncingHolds'
  BY <1>1, <1>3, SyncingStays DEF SyncingHolds
<1>9. IdentitiesHold'
  BY <1>3 DEF IdentitiesHold, Awaits, DidOf, Connected
<1>10. KeysAccepted'
  BY <1>1, <1>3, ImportStays
<1> QED
  BY <1>2, <1>4, <1>6, <1>7, <1>8, <1>9, <1>10

LEMMA ImportDidKeeps ==
    ASSUME Web5Invariant, ImportDid
    PROVE  Web5Invariant'
<1> USE DEF Web5Invariant
<1>1. PICK i : i = app.identity
  OBVIOUS
<1>2. /\ app.at = "importDid"
      /\ UNCHANGED <<connect, issue, initialized, identities, stored, syncing,
                     tenants, cut>>
      /\ keys \subseteq keys' /\ keys' \subseteq keys \cup {i}
      /\ dids \subseteq dids' /\ dids' \subseteq keys'
      /\ \/ app' = Resting
         \/ app' = [app EXCEPT !.at = "importIdentity"] /\ i \in dids'
  BY <1>1 DEF ImportDid, Throws, Goto, IdentitiesHold
<1>3. ConnectStep
  BY <1>2 DEF ConnectStep
<1>4. /\ Delegates(app.session, i) /\ app.registerSync /\ app.session \in Session
      /\ session[app.session] = "done" /\ received[app.session] = i
      /\ app.protocols = {} /\ i \in Submission /\ app \in App
  <2>1. Delegates(app.session, i) /\ app.registerSync /\ app.protocols = {}
    BY <1>1, <1>2 DEF AppHolds, Importing
  <2> QED
    BY <2>1 DEF Delegates, ConnectInvariant, SessionsHold, TypeOK
<1>5. /\ app' \in App
      /\ \/ app'.at = "idle" /\ app'.session = Nobody
         \/ /\ app'.at = "importIdentity" /\ app'.session = app.session
            /\ app'.identity = i /\ app'.protocols = {} /\ app'.registerSync
            /\ i \in dids'
  <2>1. CASE app' = Resting
    BY <2>1, RestingTyped, RestingHolds
  <2>2. CASE app' = [app EXCEPT !.at = "importIdentity"] /\ i \in dids'
    BY <1>1, <1>4, <2>2 DEF App, AppStep
  <2> QED
    BY <1>2, <2>1, <2>2
<1>6. ConnectInvariant'
  BY <1>3, ConnectInvariantKept
<1>7. TypeOK'
  <2>1. keys' \subseteq Identity
    BY <1>2, <1>4, NumbersApart DEF TypeOK
  <2> QED
    BY <1>2, <1>5, <1>6, <2>1 DEF TypeOK, ConnectInvariant
<1>8. AppHolds'
  <2>1. CASE app' = Resting
    BY <2>1, RestingHolds
  <2>2. CASE app' = [app EXCEPT !.at = "importIdentity"]
    <3>1. app'.at # "idle"
      BY <1>4, <2>2 DEF App
    <3>2. session'[app'.session] = "done" /\ received'[app'.session] = i
      BY <1>2, <1>4, <1>5, <3>1, Unmoved
    <3> QED
      BY <1>4, <1>5, <3>1, <3>2 DEF AppHolds, Asking, Importing, Serving, Delegates
  <2> QED
    BY <1>2, <2>1, <2>2
<1>9. StoredHolds'
  BY <1>2, <1>3, <1>5, StoredStays DEF StoredHolds, SessionKept, Early
<1>10. SyncingHolds'
  BY <1>2, <1>3, <1>5, SyncingStays DEF SyncingHolds
<1>11. IdentitiesHold'
  <2>1. /\ \A j \in identities \ cut : j \in dids
        /\ \A j \in identities \ cut : \E r \in syncing : r.did = DidOf(j)
    BY <1>2 DEF IdentitiesHold, Awaits
  <2>2. \A j : DidOf(j)' = DidOf(j)
    BY DEF DidOf, Connected
  <2>3. (app'.at \in {"importIdentity", "createIdentity"} => app'.identity \in dids')
           /\ app'.at \notin Serving \cup {"grants"}
    BY <1>5 DEF Serving
  <2> QED
    BY <1>2, <2>1, <2>2, <2>3 DEF IdentitiesHold
<1>12. KeysAccepted'
  <2>1. SUFFICES ASSUME NEW j \in Submission, j \in keys'
                 PROVE  \E a \in Session : session[a] = "done" /\ received[a] = j
    BY <1>2, Unmoved
  <2>2. CASE j = i
    BY <1>4, <2>2
  <2>3. CASE j \in keys
    BY <2>3 DEF KeysAccepted
  <2> QED
    BY <1>2, <2>1, <2>2, <2>3
<1> QED
  BY <1>6, <1>7, <1>8, <1>9, <1>10, <1>11, <1>12

\* Nothing is stored for an answer whose identity is still to be imported.
LEMMA NothingStoredYet ==
    ASSUME Web5Invariant, app.at \in Early, NEW i, i # Nobody,
           Delegates(app.session, i)
    PROVE  StoredFor(i) = {}
<1>1. SUFFICES ASSUME NEW g \in stored, g.grantedTo = i PROVE FALSE
  BY DEF StoredFor
<1>2. PICK b \in Session : /\ session[b] = "done" /\ g \in GrantsOf(b)
                           /\ b = app.session => app.at \notin Early
  BY DEF Web5Invariant, StoredHolds
<1>3. received[b] = i
  BY <1>1, <1>2 DEF GrantsOf, GrantOf
<1>4. b = app.session
  BY <1>2, <1>3, AnswersApart DEF Delegates, Web5Invariant
<1> QED
  BY <1>2, <1>4

LEMMA ImportIdentityKeeps ==
    ASSUME Web5Invariant, ImportIdentity
    PROVE  Web5Invariant'
<1> USE DEF Web5Invariant
<1>1. PICK i : i = app.identity
  OBVIOUS
<1>2. /\ app.at = "importIdentity"
      /\ UNCHANGED <<connect, issue, initialized, keys, dids, stored, syncing,
                     tenants, cut>>
      /\ \/ app' = Resting /\ identities' = identities
         \/ app' = [app EXCEPT !.at = "grants"] /\ identities' = identities \cup {i}
  BY <1>1 DEF ImportIdentity, Throws, Goto
<1>3. CASE app' = Resting /\ identities' = identities
  BY <1>2, <1>3, ThrowKeeps DEF TypeOK
<1>4. CASE app' = [app EXCEPT !.at = "grants"] /\ identities' = identities \cup {i}
  <2>1. /\ Delegates(app.session, i) /\ app.registerSync /\ app.session \in Session
        /\ session[app.session] = "done" /\ received[app.session] = i
        /\ app.protocols = {} /\ i \in Submission /\ app \in App /\ i \in dids
    <3>1. Delegates(app.session, i) /\ app.registerSync /\ app.protocols = {}
      BY <1>1, <1>2 DEF AppHolds, Importing
    <3> QED
      BY <1>1, <1>2, <3>1
         DEF Delegates, ConnectInvariant, SessionsHold, TypeOK, IdentitiesHold
  <2>2. /\ app' \in App /\ app'.at = "grants" /\ app'.session = app.session
        /\ app'.identity = i /\ app'.protocols = {} /\ app'.registerSync
    BY <1>1, <1>4, <2>1 DEF App, AppStep
  <2>3. ConnectStep
    BY <1>2 DEF ConnectStep
  <2>4. ConnectInvariant'
    BY <2>3, ConnectInvariantKept
  <2>5. TypeOK'
    BY <1>2, <1>4, <2>1, <2>2, <2>4, NumbersApart DEF TypeOK, ConnectInvariant
  <2>6. AppHolds'
    <3>1. StoredFor(i) = {}
      BY <1>2, <2>1, NumbersApart, NothingStoredYet DEF Early
    <3>2. ProtocolsFor(app.identity)' = {}
      BY <1>2, <2>2, <3>1 DEF ProtocolsFor, StoredFor
    <3>3. session'[app'.session] = "done" /\ received'[app'.session] = i
      BY <1>2, <2>1, <2>2, Unmoved
    <3> QED
      BY <2>1, <2>2, <3>2, <3>3 DEF AppHolds, Asking, Importing, Serving, Delegates
  <2>7. StoredHolds'
    BY <1>2, <2>2, <2>3, StoredStays DEF StoredHolds, SessionKept, Early
  <2>8. SyncingHolds'
    BY <1>2, <2>2, <2>3, SyncingStays DEF SyncingHolds
  <2>9. IdentitiesHold'
    <3>1. /\ \A j \in identities \ cut : j \in dids
          /\ \A j \in identities \ cut : \E r \in syncing : r.did = DidOf(j)
      BY <1>2 DEF IdentitiesHold, Awaits
    <3>2. \A j : DidOf(j)' = DidOf(j)
      BY DEF DidOf, Connected
    <3>3. Awaits(i)'
      BY <2>2 DEF Awaits
    <3>4. dids \subseteq keys
      BY DEF IdentitiesHold
    <3> QED
      BY <1>2, <1>4, <2>1, <2>2, <3>1, <3>2, <3>3, <3>4 DEF IdentitiesHold
  <2>10. KeysAccepted'
    BY <1>2, <2>3, ImportStays
  <2> QED
    BY <2>4, <2>5, <2>6, <2>7, <2>8, <2>9, <2>10
<1> QED
  BY <1>2, <1>3, <1>4

\* The grants of an answer have its delegate, and there is one for each of the
\* protocols it is for.
LEMMA GrantsOfAnswer ==
    ASSUME ConnectInvariant, NEW b \in Session, received[b] \in Submission
    PROVE  /\ GrantsOf(b) \subseteq Grant
           /\ \A g \in GrantsOf(b) : g.grantedTo = received[b]
           /\ {g.scope.protocol : g \in GrantsOf(b)} = DOMAIN asked[b]
<1>1. asked[b] \in Asks \cup {<< >>}
  BY DEF ConnectInvariant, ConnectTypeOK
<1>2. GrantsOf(b) \subseteq Grant
  BY <1>1, ScopesOfAsk, GrantTyped DEF GrantsOf
<1>3. \A x : GrantOf(received[b], x).grantedTo = received[b]
             /\ GrantOf(received[b], x).scope = x
  BY DEF GrantOf
<1>4. \A g \in GrantsOf(b) : g.grantedTo = received[b]
                             /\ g.scope.protocol \in DOMAIN asked[b]
  BY <1>1, <1>3, ScopesOfAsk DEF GrantsOf
<1>5. ASSUME NEW p \in DOMAIN asked[b]
      PROVE  \E g \in GrantsOf(b) : g.scope.protocol = p
  <2>1. [protocol |-> p, messageType |-> "MessagesRead"] \in Scopes(asked[b])
    BY <1>1, ScopesOfAsk DEF BaseTypes
  <2>2. GrantOf(received[b], [protocol |-> p, messageType |-> "MessagesRead"])
            \in GrantsOf(b)
    BY <2>1 DEF GrantsOf
  <2> QED
    BY <1>3, <2>2
<1> QED
  BY <1>2, <1>4, <1>5

\* Connected to a wallet, what is stored for the delegate is among its grants.
LEMMA StoredForDelegate ==
    ASSUME Web5Invariant, NEW a \in Session, NEW i \in Submission, Delegates(a, i)
    PROVE  StoredFor(i) \subseteq GrantsOf(a)
<1>1. SUFFICES ASSUME NEW g \in stored, g.grantedTo = i PROVE g \in GrantsOf(a)
  BY DEF StoredFor
<1>2. PICK b \in Session : session[b] = "done" /\ g \in GrantsOf(b)
  BY DEF Web5Invariant, StoredHolds
<1>3. received[b] = i
  BY <1>1, <1>2 DEF GrantsOf, GrantOf
<1>4. b = a
  BY <1>3, NumbersApart, AnswersApart DEF Delegates, Web5Invariant
<1> QED
  BY <1>2, <1>4

LEMMA StoreGrantKeeps ==
    ASSUME Web5Invariant, StoreGrant
    PROVE  Web5Invariant'
<1> USE DEF Web5Invariant
<1>1. PICK a, i : a = app.session /\ i = app.identity
  OBVIOUS
<1>2. /\ app.at = "grants"
      /\ UNCHANGED <<connect, issue, initialized, keys, dids, identities, syncing,
                     tenants, cut>>
  BY DEF StoreGrant
<1>3. /\ Delegates(a, i) /\ app.registerSync /\ a \in Session
      /\ session[a] = "done" /\ received[a] = i /\ i \in Submission /\ app \in App
      /\ app.protocols = ProtocolsFor(i) /\ i \in identities /\ i \in dids
  <2>1. Delegates(a, i) /\ app.registerSync /\ app.protocols = ProtocolsFor(i)
    BY <1>1, <1>2 DEF AppHolds, Importing
  <2> QED
    BY <1>1, <1>2, <2>1
       DEF Delegates, ConnectInvariant, SessionsHold, TypeOK, IdentitiesHold
<1>4. Delegated = GrantsOf(a)
  BY <1>1, <1>3 DEF Delegated, GrantsOf
<1>5. ConnectStep
  BY <1>2 DEF ConnectStep
<1>6. ConnectInvariant'
  BY <1>5, ConnectInvariantKept
<1>7. session'[a] = "done" /\ received'[a] = i /\ asked'[a] = asked[a]
         /\ GrantsOf(a)' = GrantsOf(a)
  BY <1>2, <1>3, Unmoved
<1>8. /\ \A j \in identities \ cut : j \in dids
      /\ \A j \in identities \ cut :
            j = i \/ \E r \in syncing : r.did = DidOf(j)
      /\ dids \subseteq keys
      /\ \A j : DidOf(j)' = DidOf(j)
  BY <1>1, <1>2 DEF IdentitiesHold, Awaits, DidOf, Connected
<1>9. KeysAccepted'
  BY <1>2, <1>5, ImportStays
<1>10. CASE \E g \in Delegated \ stored :
               /\ stored' = stored \cup {g}
               /\ app' = [app EXCEPT !.protocols = @ \cup {g.scope.protocol}]
  <2>1. PICK g \in GrantsOf(a) \ stored :
            /\ stored' = stored \cup {g}
            /\ app' = [app EXCEPT !.protocols = @ \cup {g.scope.protocol}]
    BY <1>4, <1>10
  <2>2. g \in Grant /\ g.grantedTo = i /\ g.scope.protocol \in Protocol
    <3>1. g \in Grant /\ g.grantedTo = i
      BY <1>3, <2>1, GrantsOfAnswer
    <3> QED
      BY <3>1 DEF Grant, Scope
  <2>3. /\ app' \in App /\ app'.at = "grants" /\ app'.session = a
        /\ app'.identity = i /\ app'.registerSync
        /\ app'.protocols = app.protocols \cup {g.scope.protocol}
    BY <1>1, <1>2, <1>3, <2>1, <2>2 DEF App
  <2>4. TypeOK'
    BY <1>2, <1>6, <2>1, <2>2, <2>3 DEF TypeOK, ConnectInvariant
  <2>5. AppHolds'
    <3>1. ProtocolsFor(app.identity)' = ProtocolsFor(i) \cup {g.scope.protocol}
      BY <2>1, <2>2, <2>3 DEF ProtocolsFor, StoredFor
    <3> QED
      BY <1>3, <1>7, <2>3, <3>1 DEF AppHolds, Asking, Importing, Serving, Delegates
  <2>6. StoredHolds'
    <3>1. app'.at \notin Early
      BY <2>3 DEF Early
    <3>2. SessionKept
      BY <1>1, <2>3, <3>1 DEF SessionKept
    <3>3. ASSUME NEW h \in stored'
          PROVE  \E b \in Session : /\ session'[b] = "done"
                                    /\ h \in GrantsOf(b)'
                                    /\ b = app'.session => app'.at \notin Early
      <4>1. CASE h = g
        BY <1>3, <1>7, <2>1, <3>1, <4>1
      <4>2. CASE h \in stored
        BY <1>5, <3>2, <4>2, StoredStays
      <4> QED
        BY <2>1, <3>3, <4>1, <4>2
    <3> QED
      BY <3>3 DEF StoredHolds
  <2>7. SyncingHolds'
    BY <1>1, <1>2, <1>5, <2>1, <2>3, SyncingStays DEF SyncingHolds
  <2>8. IdentitiesHold'
    <3>1. Awaits(i)'
      BY <2>3 DEF Awaits
    <3> QED
      BY <1>2, <1>3, <1>8, <2>3, <3>1 DEF IdentitiesHold
  <2> QED
    BY <1>6, <1>9, <2>4, <2>5, <2>6, <2>7, <2>8
<1>11. CASE Goto("cleanDid") /\ stored' = stored
  <2>1. /\ app' \in App /\ app'.at = "cleanDid" /\ app'.session = a
        /\ app'.identity = i /\ app'.registerSync
    BY <1>1, <1>3, <1>11 DEF App, AppStep, Goto
  <2>2. TypeOK'
    BY <1>2, <1>6, <1>11, <2>1 DEF TypeOK, ConnectInvariant
  <2>3. AppHolds'
    BY <1>3, <1>7, <2>1 DEF AppHolds, Asking, Importing, Serving, Delegates
  <2>4. StoredHolds'
    BY <1>1, <1>5, <1>11, <2>1, StoredStays DEF StoredHolds, SessionKept, Early
  <2>5. SyncingHolds'
    BY <1>1, <1>2, <1>5, <1>11, <2>1, SyncingStays DEF SyncingHolds
  <2>6. IdentitiesHold'
    <3>1. Awaits(i)'
      BY <2>1 DEF Awaits
    <3>2. app'.at \notin Serving \cup {"grants", "importIdentity", "createIdentity"}
      BY <2>1 DEF Serving
    <3> QED
      BY <1>2, <1>8, <3>1, <3>2 DEF IdentitiesHold
  <2> QED
    BY <1>6, <1>9, <2>2, <2>3, <2>4, <2>5, <2>6
<1>12. CASE /\ Delegated \subseteq stored /\ stored' = stored
            /\ app' = [app EXCEPT !.at = "register", !.endpoints = Endpoint]
  <2>1. /\ app' \in App /\ app'.at = "register" /\ app'.session = a
        /\ app'.identity = i /\ app'.registerSync /\ app'.protocols = app.protocols
    BY <1>1, <1>3, <1>12 DEF App, AppStep
  <2>2. TypeOK'
    BY <1>2, <1>6, <1>12, <2>1 DEF TypeOK, ConnectInvariant
  <2>3. AppHolds'
    <3>1. StoredFor(i) \subseteq GrantsOf(a)
      BY <1>3, StoredForDelegate
    <3>2. \A g \in GrantsOf(a) : g.grantedTo = i
      BY <1>3, GrantsOfAnswer
    <3>3. StoredFor(i) = GrantsOf(a)
      BY <1>4, <1>12, <3>1, <3>2 DEF StoredFor
    <3>4. app.protocols = DOMAIN asked[a]
      BY <1>3, <3>3, GrantsOfAnswer DEF ProtocolsFor
    <3>5. (GrantsOf(app.session) \subseteq stored)'
      BY <1>4, <1>7, <1>12, <2>1 DEF GrantsOf
    <3> QED
      BY <1>3, <1>7, <2>1, <3>4, <3>5 DEF AppHolds, Asking, Importing, Serving, Delegates
  <2>4. StoredHolds'
    BY <1>1, <1>5, <1>12, <2>1, StoredStays DEF StoredHolds, SessionKept, Early
  <2>5. SyncingHolds'
    BY <1>1, <1>2, <1>5, <1>12, <2>1, SyncingStays DEF SyncingHolds
  <2>6. IdentitiesHold'
    <3>1. Awaits(i)'
      BY <2>1 DEF Awaits
    <3> QED
      BY <1>2, <1>3, <1>8, <2>1, <3>1 DEF IdentitiesHold
  <2> QED
    BY <1>6, <1>9, <2>2, <2>3, <2>4, <2>5, <2>6
<1>13. \/ \E g \in Delegated \ stored :
             /\ stored' = stored \cup {g}
             /\ app' = [app EXCEPT !.protocols = @ \cup {g.scope.protocol}]
       \/ Goto("cleanDid") /\ stored' = stored
       \/ /\ Delegated \subseteq stored /\ stored' = stored
          /\ app' = [app EXCEPT !.at = "register", !.endpoints = Endpoint]
  <2>1. Delegated \ stored # {} =>
           (CHOOSE x \in Delegated \ stored : TRUE) \in Delegated \ stored
    OBVIOUS
  <2> QED
    BY <2>1 DEF StoreGrant
<1> QED
  BY <1>10, <1>11, <1>12, <1>13

LEMMA CleanDidKeeps ==
    ASSUME Web5Invariant, CleanDid
    PROVE  Web5Invariant'
<1> USE DEF Web5Invariant
<1>1. PICK a, i : a = app.session /\ i = app.identity
  OBVIOUS
<1>2. /\ app.at = "cleanDid" /\ app' = [app EXCEPT !.at = "cleanIdentity"]
      /\ UNCHANGED <<connect, issue, initialized, identities, stored, syncing,
                     tenants, cut>>
      /\ dids \ {i} \subseteq dids' /\ dids' \subseteq dids
      /\ keys' \subseteq keys /\ (dids \subseteq keys => dids' \subseteq keys')
  BY <1>1 DEF CleanDid, Goto
<1>3. /\ Delegates(a, i) /\ app.registerSync /\ a \in Session
      /\ session[a] = "done" /\ received[a] = i /\ app \in App
  <2>1. Delegates(a, i) /\ app.registerSync
    BY <1>1, <1>2 DEF AppHolds, Importing
  <2> QED
    BY <2>1 DEF Delegates, TypeOK
<1>4. /\ app' \in App /\ app'.at = "cleanIdentity" /\ app'.session = a
      /\ app'.identity = i /\ app'.registerSync
  BY <1>1, <1>2, <1>3 DEF App, AppStep
<1>5. ConnectStep
  BY <1>2 DEF ConnectStep
<1>6. ConnectInvariant'
  BY <1>5, ConnectInvariantKept
<1>7. TypeOK'
  BY <1>2, <1>4, <1>6 DEF TypeOK, ConnectInvariant
<1>8. AppHolds'
  <2>1. session'[a] = "done" /\ received'[a] = i
    BY <1>2, <1>3, Unmoved
  <2> QED
    BY <1>3, <1>4, <2>1 DEF AppHolds, Asking, Importing, Serving, Delegates
<1>9. StoredHolds'
  BY <1>1, <1>2, <1>4, <1>5, StoredStays DEF StoredHolds, SessionKept, Early
<1>10. SyncingHolds'
  BY <1>1, <1>2, <1>4, <1>5, SyncingStays DEF SyncingHolds
<1>11. IdentitiesHold'
  <2>1. /\ \A j \in identities \ cut : j = i \/ j \in dids'
        /\ \A j \in identities \ cut : j = i \/ \E r \in syncing : r.did = DidOf(j)
        /\ dids' \subseteq keys'
    BY <1>1, <1>2 DEF IdentitiesHold, Awaits
  <2>2. \A j : DidOf(j)' = DidOf(j)
    BY DEF DidOf, Connected
  <2>3. Awaits(i)'
    BY <1>4 DEF Awaits
  <2>4. app'.at \notin Serving \cup {"grants", "importIdentity", "createIdentity"}
    BY <1>4 DEF Serving
  <2> QED
    BY <1>2, <1>4, <2>1, <2>2, <2>3, <2>4 DEF IdentitiesHold
<1>12. KeysAccepted'
  BY <1>2, <1>5, ImportStays
<1> QED
  BY <1>6, <1>7, <1>8, <1>9, <1>10, <1>11, <1>12

LEMMA CleanIdentityKeeps ==
    ASSUME Web5Invariant, CleanIdentity
    PROVE  Web5Invariant'
<1> USE DEF Web5Invariant
<1>1. PICK i : i = app.identity
  OBVIOUS
<1>2. /\ app.at = "cleanIdentity" /\ app' = Resting
      /\ UNCHANGED <<connect, issue, initialized, keys, dids, stored, syncing, tenants>>
      /\ \/ identities' = identities \ {i} /\ cut' = cut
         \/ identities' = identities /\ cut' = cut \cup {i}
  BY <1>1 DEF CleanIdentity, Throws, ThrowsAfter
<1>3. i \in Identity
  <2>1. Delegates(app.session, i)
    BY <1>1, <1>2 DEF AppHolds, Importing
  <2> QED
    BY <2>1, NumbersApart DEF Delegates, ConnectInvariant, SessionsHold
<1>4. ConnectStep
  BY <1>2 DEF ConnectStep
<1>5. ConnectInvariant'
  BY <1>4, ConnectInvariantKept
<1>6. app' \in App /\ app'.at = "idle" /\ app'.session = Nobody
  BY <1>2, RestingTyped, RestingHolds
<1>7. TypeOK'
  BY <1>2, <1>3, <1>5, <1>6 DEF TypeOK, ConnectInvariant
<1>8. AppHolds'
  BY <1>2, RestingHolds
<1>9. StoredHolds'
  BY <1>2, <1>4, <1>6, StoredStays DEF StoredHolds, SessionKept
<1>10. SyncingHolds'
  BY <1>2, <1>4, <1>6, SyncingStays DEF SyncingHolds
<1>11. IdentitiesHold'
  <2>1. /\ \A j \in identities' \ cut' : j # i /\ j \in identities \ cut
        /\ dids \subseteq keys
    BY <1>2 DEF IdentitiesHold
  <2>2. \A j \in identities' \ cut' : j \in dids /\ \E r \in syncing : r.did = DidOf(j)
    BY <1>1, <2>1 DEF IdentitiesHold, Awaits
  <2>3. \A j : DidOf(j)' = DidOf(j)
    BY DEF DidOf, Connected
  <2> QED
    BY <1>2, <1>6, <2>1, <2>2, <2>3 DEF IdentitiesHold, Serving
<1>12. KeysAccepted'
  BY <1>2, <1>4, ImportStays
<1> QED
  BY <1>5, <1>7, <1>8, <1>9, <1>10, <1>11, <1>12

LEMMA CreateDidKeeps ==
    ASSUME Web5Invariant, CreateDid
    PROVE  Web5Invariant'
<1> USE DEF Web5Invariant
<1>1. PICK i \in Created \ keys :
          /\ app.at = "createDid" /\ keys' = keys \cup {i}
          /\ UNCHANGED <<connect, issue, initialized, identities, stored, syncing,
                         tenants, cut>>
          /\ \/ /\ dids' = dids \cup {i}
                /\ app' = [app EXCEPT !.at = "createIdentity", !.identity = i,
                                      !.registerSync = TRUE]
             \/ app' = Resting /\ dids' = dids
  BY DEF CreateDid, Throws
<1>2. app \in App /\ app.protocols = {} /\ i \in Identity /\ i \notin Submission
  BY <1>1, NumbersApart DEF TypeOK, AppHolds, Asking
<1>3. ConnectStep
  BY <1>1 DEF ConnectStep
<1>4. ConnectInvariant'
  BY <1>3, ConnectInvariantKept
<1>5. /\ app' \in App
      /\ \/ /\ app'.at = "idle" /\ app'.session = Nobody /\ AppHolds'
         \/ /\ app'.at = "createIdentity" /\ app'.session = app.session
            /\ app'.identity = i /\ app'.protocols = {} /\ app'.registerSync
            /\ i \in dids'
  <2>1. CASE app' = Resting
    BY <2>1, RestingTyped, RestingHolds
  <2>2. CASE app' # Resting
    BY <1>1, <1>2, <2>2 DEF App, AppStep
  <2> QED
    BY <2>1, <2>2
<1>6. TypeOK'
  BY <1>1, <1>2, <1>4, <1>5 DEF TypeOK, ConnectInvariant
<1>7. AppHolds'
  <2>1. ASSUME app'.at = "createIdentity", app'.session = app.session,
               app'.identity = i, app'.protocols = {}, app'.registerSync
        PROVE  AppHolds'
    <3>1. app'.session # Nobody => session'[app'.session] # "new"
      BY <1>1, <2>1, Unmoved DEF AppHolds
    <3> QED
      BY <1>1, <1>2, <2>1, <3>1 DEF AppHolds, Asking, Importing, Serving, Connected
  <2> QED
    BY <1>5, <2>1
<1>8. StoredHolds'
  BY <1>1, <1>3, <1>5, StoredStays DEF StoredHolds, SessionKept, Early
<1>9. SyncingHolds'
  BY <1>1, <1>3, <1>5, SyncingStays DEF SyncingHolds
<1>10. IdentitiesHold'
  <2>1. /\ \A j \in identities \ cut : j \in dids
        /\ \A j \in identities \ cut : \E r \in syncing : r.did = DidOf(j)
        /\ dids \subseteq keys
    BY <1>1 DEF IdentitiesHold, Awaits
  <2>2. \A j : DidOf(j)' = DidOf(j)
    BY DEF DidOf, Connected
  <2>3. /\ app'.at \in {"importIdentity", "createIdentity"} => app'.identity \in dids'
        /\ app'.at \notin Serving \cup {"grants"}
    BY <1>5 DEF Serving
  <2> QED
    BY <1>1, <2>1, <2>2, <2>3 DEF IdentitiesHold
<1>11. KeysAccepted'
  BY <1>1, <1>2, <1>3, ImportStays
<1> QED
  BY <1>4, <1>6, <1>7, <1>8, <1>9, <1>10, <1>11

LEMMA CreateIdentityKeeps ==
    ASSUME Web5Invariant, CreateIdentity
    PROVE  Web5Invariant'
<1> USE DEF Web5Invariant
<1>1. PICK i : i = app.identity
  OBVIOUS
<1>2. /\ app.at = "createIdentity"
      /\ UNCHANGED <<connect, issue, initialized, keys, dids, stored, syncing,
                     tenants, cut>>
      /\ \/ app' = Resting /\ identities' = identities
         \/ /\ app' = [app EXCEPT !.at = "register", !.endpoints = Endpoint]
            /\ identities' = identities \cup {i}
  BY <1>1 DEF CreateIdentity, Throws
<1>3. CASE app' = Resting /\ identities' = identities
  BY <1>2, <1>3, ThrowKeeps DEF TypeOK
<1>4. CASE /\ app' = [app EXCEPT !.at = "register", !.endpoints = Endpoint]
           /\ identities' = identities \cup {i}
  <2>1. /\ app.registerSync /\ app.protocols = {} /\ i \in Created /\ app \in App
        /\ i \in dids /\ i \in Identity
    BY <1>1, <1>2 DEF AppHolds, TypeOK, IdentitiesHold
  <2>2. /\ app' \in App /\ app'.at = "register" /\ app'.session = app.session
        /\ app'.identity = i /\ app'.protocols = {} /\ app'.registerSync
    BY <1>1, <1>4, <2>1 DEF App, AppStep
  <2>3. ConnectStep
    BY <1>2 DEF ConnectStep
  <2>4. ConnectInvariant'
    BY <2>3, ConnectInvariantKept
  <2>5. TypeOK'
    BY <1>2, <1>4, <2>1, <2>2, <2>4 DEF TypeOK, ConnectInvariant
  <2>6. AppHolds'
    <3>1. app'.session # Nobody => session'[app'.session] # "new"
      BY <1>2, <2>2, Unmoved DEF AppHolds
    <3>2. ~Connected(app.identity)'
      BY <2>1, <2>2, NumbersApart DEF Connected
    <3> QED
      BY <2>2, <3>1, <3>2 DEF AppHolds, Asking, Importing, Serving
  <2>7. StoredHolds'
    BY <1>2, <2>2, <2>3, StoredStays DEF StoredHolds, SessionKept, Early
  <2>8. SyncingHolds'
    BY <1>2, <2>2, <2>3, SyncingStays DEF SyncingHolds
  <2>9. IdentitiesHold'
    <3>1. /\ \A j \in identities \ cut : j \in dids
          /\ \A j \in identities \ cut : \E r \in syncing : r.did = DidOf(j)
          /\ dids \subseteq keys
      BY <1>2 DEF IdentitiesHold, Awaits
    <3>2. \A j : DidOf(j)' = DidOf(j)
      BY DEF DidOf, Connected
    <3>3. Awaits(i)'
      BY <2>2 DEF Awaits
    <3> QED
      BY <1>2, <1>4, <2>1, <2>2, <3>1, <3>2, <3>3 DEF IdentitiesHold
  <2>10. KeysAccepted'
    BY <1>2, <2>3, ImportStays
  <2> QED
    BY <2>4, <2>5, <2>6, <2>7, <2>8, <2>9, <2>10
<1> QED
  BY <1>2, <1>3, <1>4

\* From one of the last steps to another: the stores are as they were, and what
\* is no longer awaited has come to be or is given up.
LEMMA ServingKeeps ==
    ASSUME Web5Invariant, app' \in App, app.at \in Serving, app'.at \in Serving,
           app'.session = app.session, app'.identity = app.identity,
           app'.protocols = app.protocols, app'.registerSync = app.registerSync,
           UNCHANGED <<connect, issue, initialized, keys, dids, identities, stored>>,
           tenants' \in [Endpoint -> SUBSET Did],
           app'.at \in {"registerSync", "pull"} => app.registerSync,
           syncing' \in SUBSET Registration, SyncingHolds', syncing \subseteq syncing',
           cut' \in SUBSET Identity, cut \subseteq cut',
           \A i \in identities \ cut' :
              Awaits(i) => Awaits(i)' \/ \E r \in syncing' : r.did = DidOf(i)
    PROVE  Web5Invariant'
<1> USE DEF Web5Invariant
<1>1. ConnectStep
  BY DEF ConnectStep
<1>2. ConnectInvariant'
  BY <1>1, ConnectInvariantKept
<1>3. TypeOK'
  BY <1>2 DEF TypeOK, ConnectInvariant
<1>4. AppHolds'
  <2>1. PICK a, i : a = app.session /\ i = app.identity
    OBVIOUS
  <2>2. a # Nobody => session'[a] # "new"
    BY <2>1, Unmoved DEF AppHolds
  <2>3. app.registerSync /\ Connected(i) =>
            /\ Delegates(a, i)' /\ app.protocols = DOMAIN asked'[a]
            /\ GrantsOf(a)' \subseteq stored'
    <3>1. app.registerSync /\ Connected(i) =>
             Delegates(a, i) /\ app.protocols = DOMAIN asked[a] /\ GrantsOf(a) \subseteq stored
      BY <2>1 DEF AppHolds
    <3> QED
      BY <3>1, Unmoved
  <2>4. Delegates(app.session, app.identity)' = Delegates(a, i)'
           /\ GrantsOf(app.session)' = GrantsOf(a)'
    BY <2>1 DEF Delegates, GrantsOf
  <2> QED
    BY <2>1, <2>2, <2>3, <2>4 DEF AppHolds, Asking, Importing, Serving, Connected
<1>5. StoredHolds'
  BY <1>1, StoredStays DEF StoredHolds, SessionKept, Early, Serving
<1>6. IdentitiesHold'
  <2>1. \A j : DidOf(j)' = DidOf(j)
    BY DEF DidOf, Connected
  <2>2. /\ \A j \in identities \ cut : j \in dids
        /\ dids \subseteq keys
        /\ app.identity \in identities \cap dids
    BY DEF IdentitiesHold, Serving
  <2>3. \A j \in identities \ cut' : Awaits(j)' \/ \E r \in syncing' : r.did = DidOf(j)
    BY DEF IdentitiesHold
  <2>4. app'.at \notin {"importIdentity", "createIdentity", "cleanIdentity"}
    BY DEF Serving
  <2> QED
    BY <2>1, <2>2, <2>3, <2>4 DEF IdentitiesHold
<1>7. KeysAccepted'
  BY <1>1, ImportStays
<1> QED
  BY <1>2, <1>3, <1>4, <1>5, <1>6, <1>7

LEMMA RegisterKeeps ==
    ASSUME Web5Invariant, Register \/ Registered
    PROVE  Web5Invariant'
<1> USE DEF Web5Invariant
<1>1. /\ app.at = "register"
      /\ UNCHANGED <<connect, issue, initialized, keys, dids, identities, stored, syncing>>
  BY DEF Register, Registered, agent
<1>2. app \in App /\ app.identity \in Identity
  BY <1>1 DEF TypeOK, IdentitiesHold, Serving
<1>3. ConnectedDid \in Did /\ AgentDid \in Did
  BY <1>2 DEF ConnectedDid, Did
<1>4. NextAfterRegister \in {"connected", "registerSync"}
         /\ (NextAfterRegister = "registerSync" <=> app.option.sync /\ app.registerSync)
  BY DEF NextAfterRegister
<1>5. /\ app' \in App /\ app'.at \in {"register", NextAfterRegister}
      /\ app'.session = app.session /\ app'.identity = app.identity
      /\ app'.protocols = app.protocols /\ app'.registerSync = app.registerSync
      /\ app'.option = app.option
  <2>1. CASE Registered
    <3>1. PICK at \in {"connected", "registerSync"}, told \in {"success", app.told} :
              at = NextAfterRegister /\ app' = [app EXCEPT !.at = at, !.told = told]
      BY <1>4, <2>1 DEF Registered
    <3> QED
      BY <1>2, <3>1 DEF App, AppStep
  <2>2. CASE Register
    <3>1. PICK e \in app.endpoints :
              \/ app' = [app EXCEPT !.endpoints = @ \ {e}]
              \/ app' = [app EXCEPT !.at = NextAfterRegister, !.told = "failure"]
      BY <2>2 DEF Register
    <3>2. CASE app' = [app EXCEPT !.endpoints = @ \ {e}]
      BY <1>1, <1>2, <3>2 DEF App, AppStep
    <3>3. CASE app' = [app EXCEPT !.at = NextAfterRegister, !.told = "failure"]
      BY <1>2, <1>4, <3>3 DEF App, AppStep
    <3> QED
      BY <3>1, <3>2, <3>3
  <2> QED
    BY <2>1, <2>2
<1>6. tenants' \in [Endpoint -> SUBSET Did]
  BY <1>3 DEF Register, Registered, TypeOK
<1>7. cut' \in SUBSET Identity /\ cut \subseteq cut'
  BY <1>2 DEF Register, Registered, TypeOK
<1>8. SyncingHolds'
  BY <1>1, <1>4, <1>5, SyncingStays DEF SyncingHolds, ConnectStep
<1>9. ASSUME NEW i, Awaits(i) PROVE Awaits(i)'
  BY <1>1, <1>4, <1>5, <1>9 DEF Awaits
<1>10. app'.at \in Serving /\ app.at \in Serving
          /\ (app'.at \in {"registerSync", "pull"} => app.registerSync)
  BY <1>1, <1>4, <1>5 DEF Serving
<1>11. syncing' \in SUBSET Registration /\ syncing \subseteq syncing'
  BY <1>1 DEF TypeOK
<1> QED
  BY <1>1, <1>5, <1>6, <1>7, <1>8, <1>9, <1>10, <1>11, ServingKeeps

LEMMA SyncsTyped ==
    ASSUME Web5Invariant, app.identity \in Identity
    PROVE  /\ Syncs \in Registration
           /\ Syncs.did = DidOf(app.identity)
           /\ Syncs.delegate \in {Nobody, app.identity}
           /\ Syncs.delegate # Nobody => Connected(app.identity)
           /\ Syncs.protocols = app.protocols
BY DEF Syncs, Registration, ConnectedDid, DidOf, Did, Web5Invariant, TypeOK, App

LEMMA RegisterSyncKeeps ==
    ASSUME Web5Invariant, RegisterSync
    PROVE  Web5Invariant'
<1> USE DEF Web5Invariant
<1>1. PICK i : i = app.identity
  OBVIOUS
<1>2. /\ app.at = "registerSync"
      /\ UNCHANGED <<connect, issue, initialized, keys, dids, identities, stored, tenants>>
      /\ \/ /\ syncing' = syncing \cup {Syncs} /\ cut' = cut
            /\ \E step \in {"pull", "connected"} : app' = [app EXCEPT !.at = step]
         \/ app' = Resting /\ syncing' = syncing /\ cut' = cut \cup {i}
  BY <1>1 DEF RegisterSync, ThrowsAfter, Throws, Goto
<1>3. /\ app.registerSync /\ i \in Identity /\ i \in dids /\ i \in identities /\ app \in App
  BY <1>1, <1>2 DEF AppHolds, IdentitiesHold, Serving, TypeOK
<1>4. ConnectStep
  BY <1>2 DEF ConnectStep
<1>5. CASE /\ syncing' = syncing \cup {Syncs} /\ cut' = cut
           /\ \E step \in {"pull", "connected"} : app' = [app EXCEPT !.at = step]
  <2>1. PICK step \in {"pull", "connected"} : app' = [app EXCEPT !.at = step]
    BY <1>5
  <2>2. /\ app' \in App /\ app'.at = step /\ app'.session = app.session
        /\ app'.identity = i /\ app'.protocols = app.protocols /\ app'.registerSync
    BY <1>1, <1>3, <2>1 DEF App, AppStep
  <2>3. Syncs \in Registration /\ Syncs.did = DidOf(i)
    BY <1>1, <1>3, SyncsTyped
  <2>4. SyncingHolds'
    <3>1. ASSUME NEW r \in syncing', r.delegate # Nobody
          PROVE  \E b \in Session : /\ Delegates(b, r.delegate)'
                                    /\ r.protocols = DOMAIN asked'[b]
                                    /\ GrantsOf(b)' \subseteq stored'
                                    /\ b = app'.session => app'.at \in {"pull", "connected"}
      <4>1. CASE r \in syncing
        BY <1>2, <1>4, <2>2, <3>1, <4>1, SyncingStays
      <4>2. CASE r = Syncs
        <5>1. r.delegate = i /\ Connected(i) /\ r.protocols = app.protocols
          BY <1>1, <1>3, <3>1, <4>2, SyncsTyped
        <5>2. PICK b : b = app.session
          OBVIOUS
        <5>3. Delegates(b, i) /\ app.protocols = DOMAIN asked[b] /\ GrantsOf(b) \subseteq stored
          BY <1>1, <1>2, <1>3, <5>1, <5>2 DEF AppHolds, Serving
        <5>4. b \in Session
          BY <5>3 DEF Delegates
        <5>5. Delegates(b, i)' /\ asked'[b] = asked[b] /\ GrantsOf(b)' = GrantsOf(b)
          BY <1>2, <5>3, Unmoved
        <5> QED
          BY <1>2, <2>2, <5>1, <5>3, <5>4, <5>5
      <4> QED
        BY <1>5, <3>1, <4>1, <4>2
    <3> QED
      BY <3>1 DEF SyncingHolds
  <2>5. \A j \in identities \ cut' : Awaits(j) => \E r \in syncing' : r.did = DidOf(j)
    BY <1>1, <1>5, <2>3 DEF Awaits
  <2>6. syncing' \in SUBSET Registration /\ cut' \in SUBSET Identity
           /\ tenants' \in [Endpoint -> SUBSET Did]
    BY <1>2, <1>5, <2>3 DEF TypeOK
  <2> QED
    BY <1>1, <1>2, <1>3, <1>5, <2>2, <2>4, <2>5, <2>6, ServingKeeps DEF Serving
<1>6. CASE app' = Resting /\ syncing' = syncing /\ cut' = cut \cup {i}
  <2>1. app' \in App /\ app'.at = "idle" /\ app'.session = Nobody
    BY <1>6, RestingTyped, RestingHolds
  <2>2. ConnectInvariant'
    BY <1>4, ConnectInvariantKept
  <2>3. TypeOK'
    BY <1>2, <1>3, <1>6, <2>1, <2>2 DEF TypeOK, ConnectInvariant
  <2>4. AppHolds'
    BY <1>6, RestingHolds
  <2>5. StoredHolds'
    BY <1>2, <1>4, <2>1, StoredStays DEF StoredHolds, SessionKept
  <2>6. SyncingHolds'
    BY <1>2, <1>4, <1>6, <2>1, SyncingStays DEF SyncingHolds
  <2>7. IdentitiesHold'
    <3>1. \A j : DidOf(j)' = DidOf(j)
      BY DEF DidOf, Connected
    <3>2. /\ \A j \in identities \ cut : j \in dids
          /\ dids \subseteq keys
          /\ \A j \in identities \ cut' : \E r \in syncing : r.did = DidOf(j)
      BY <1>1, <1>2, <1>6 DEF IdentitiesHold, Awaits
    <3> QED
      BY <1>2, <1>6, <2>1, <3>1, <3>2 DEF IdentitiesHold, Serving
  <2>8. KeysAccepted'
    BY <1>2, <1>4, ImportStays
  <2> QED
    BY <2>2, <2>3, <2>4, <2>5, <2>6, <2>7, <2>8
<1> QED
  BY <1>2, <1>5, <1>6

\* A crash while an identity is cleaned up finds it not registered.
LEMMA NotYetSyncing ==
    ASSUME Web5Invariant, app.at \in Importing
    PROVE  Syncs \notin syncing
<1> SUFFICES ASSUME Syncs \in syncing PROVE FALSE
  OBVIOUS
<1>1. PICK a, i : a = app.session /\ i = app.identity
  OBVIOUS
<1>2. Delegates(a, i)
  BY <1>1 DEF Web5Invariant, AppHolds
<1>3. a \in Session /\ received[a] = i /\ i \in Submission
  BY <1>2 DEF Delegates, Web5Invariant, ConnectInvariant, SessionsHold
<1>4. Syncs.delegate = i
  BY <1>1, <1>3 DEF Syncs, Connected
<1>5. PICK b \in Session : Delegates(b, i) /\ (b = app.session => app.at \in {"pull", "connected"})
  BY <1>3, <1>4, NumbersApart DEF Web5Invariant, SyncingHolds
<1>6. b = a
  BY <1>3, <1>5, NumbersApart, AnswersApart DEF Delegates, Web5Invariant
<1> QED
  BY <1>1, <1>5, <1>6 DEF Importing

LEMMA CrashKeeps ==
    ASSUME Web5Invariant, Crash
    PROVE  Web5Invariant'
<1> USE DEF Web5Invariant
<1>1. PICK i : i = app.identity
  OBVIOUS
<1>2. /\ app' = Resting /\ Stops
      /\ UNCHANGED <<initialized, keys, dids, identities, stored, syncing, tenants>>
      /\ cut' = IF i \in identities /\ app.registerSync /\ Syncs \notin syncing
                THEN cut \cup {i} ELSE cut
  BY <1>1 DEF Crash, Throws, Stops, agent
<1>3. ConnectStep
  BY <1>2 DEF ConnectStep
<1>4. ConnectInvariant'
  BY <1>3, ConnectInvariantKept
<1>5. app' \in App /\ app'.at = "idle" /\ app'.session = Nobody
  BY <1>2, RestingTyped, RestingHolds
<1>6. TypeOK'
  BY <1>2, <1>4, <1>5 DEF TypeOK, ConnectInvariant
<1>7. AppHolds'
  BY <1>2, RestingHolds
<1>8. StoredHolds'
  BY <1>2, <1>3, <1>5, StoredStays DEF StoredHolds, SessionKept
<1>9. SyncingHolds'
  BY <1>2, <1>3, <1>5, SyncingStays DEF SyncingHolds
<1>10. IdentitiesHold'
  <2>1. \A j : DidOf(j)' = DidOf(j)
    BY DEF DidOf, Connected
  <2>2. ASSUME NEW j \in identities \ cut' PROVE j \in dids
    <3>1. j \in identities \ cut
      BY <1>2, <2>2
    <3>2. CASE j = i /\ app.at = "cleanIdentity"
      <4>1. app.registerSync /\ Syncs \notin syncing
        BY <3>2, NotYetSyncing DEF AppHolds, Importing
      <4> QED
        BY <1>2, <2>2, <3>2, <4>1
    <3> QED
      BY <1>1, <3>1, <3>2 DEF IdentitiesHold
  <2>3. ASSUME NEW j \in identities \ cut' PROVE \E r \in syncing : r.did = DidOf(j)
    <3>1. j \in identities \ cut
      BY <1>2, <2>3
    <3>2. CASE Awaits(j)
      <4>1. j = i /\ app.registerSync
        BY <1>1, <3>2 DEF Awaits
      <4>2. Syncs \in syncing
        BY <1>2, <2>3, <4>1
      <4>3. Syncs.did = DidOf(j)
        BY <1>1, <4>1 DEF Syncs, ConnectedDid, DidOf
      <4> QED
        BY <4>2, <4>3
    <3> QED
      BY <3>1, <3>2 DEF IdentitiesHold
  <2>4. dids \subseteq keys
    BY DEF IdentitiesHold
  <2> QED
    BY <1>2, <1>5, <2>1, <2>2, <2>3, <2>4 DEF IdentitiesHold, Serving
<1>11. KeysAccepted'
  BY <1>2, <1>3, ImportStays
<1> QED
  BY <1>4, <1>6, <1>7, <1>8, <1>9, <1>10, <1>11

-----------------------------------------------------------------------------
(* The theorems *)

LEMMA InitHolds ==
    ASSUME Init
    PROVE  Web5Invariant
<1> USE DEF Init
<1>1. ConnectTypeOK
  <2>1. [p \in Protocol |-> "none"] \in [Protocol -> JobStep]
    BY DEF JobStep
  <2>2. wallet \in [Submission -> Wallet]
    BY <2>1 DEF ConnectInit, Wallet
  <2> QED
    BY <2>2 DEF ConnectInit, ConnectTypeOK, Node
<1>2. SessionsHold /\ JobsHold /\ AnswersHold
  BY DEF ConnectInit, SessionsHold, JobsHold, AnswersHold
<1>3. app \in App
  BY RestingTyped
<1>4. TypeOK
  BY <1>1, <1>3 DEF TypeOK
<1>5. AppHolds
  <2>1. /\ app.at = "idle" /\ app.session = Nobody /\ app.identity = Nobody
        /\ app.protocols = {}
    BY DEF Resting
  <2> QED
    BY <2>1 DEF AppHolds, Asking, Importing, Serving
<1>6. StoredHolds /\ SyncingHolds /\ KeysAccepted
  BY DEF StoredHolds, SyncingHolds, KeysAccepted
<1>7. IdentitiesHold
  <2>1. app.at = "idle"
    BY DEF Resting
  <2> QED
    BY <2>1 DEF IdentitiesHold, Serving
<1> QED
  BY <1>1, <1>2, <1>4, <1>5, <1>6, <1>7 DEF Web5Invariant, ConnectInvariant

LEMMA StepKeeps ==
    ASSUME Web5Invariant, [Next]_vars
    PROVE  Web5Invariant'
<1>1. CASE \E option \in Options : Connect(option)
  BY <1>1, ConnectKeeps
<1>2. CASE Launch \/ Start \/ Find
  BY <1>2, LaunchKeeps, StartKeeps, FindKeeps
<1>3. CASE AskWallet \/ WalletFailed \/ WalletAnswered
  BY <1>3, AskWalletKeeps, WalletFailedKeeps, WalletAnsweredKeeps
<1>4. CASE ImportDid \/ ImportIdentity \/ StoreGrant
  BY <1>4, ImportDidKeeps, ImportIdentityKeeps, StoreGrantKeeps
<1>5. CASE CleanDid \/ CleanIdentity
  BY <1>5, CleanDidKeeps, CleanIdentityKeeps
<1>6. CASE CreateDid \/ CreateIdentity
  BY <1>6, CreateDidKeeps, CreateIdentityKeeps
<1>7. CASE Register \/ Registered \/ RegisterSync \/ Pull
  BY <1>7, RegisterKeeps, RegisterSyncKeeps, PullKeeps
<1>8. CASE Crash
  BY <1>8, CrashKeeps
<1>9. CASE ConnectNext /\ UNCHANGED Outside
  BY <1>9, OutsideKeeps
<1>10. CASE UNCHANGED vars
  <2>1. UNCHANGED <<connect, issue, app, agent, tenants, cut>>
    BY <1>10 DEF vars
  <2>2. UNCHANGED <<app, initialized, keys, dids, identities, stored, syncing, tenants,
                    cut>>
    BY <2>1 DEF agent
  <2>3. ConnectStep
    BY <2>1 DEF ConnectStep
  <2>4. ConnectInvariant'
    BY <2>3, ConnectInvariantKept DEF Web5Invariant
  <2>5. TypeOK'
    BY <2>2, <2>4 DEF TypeOK, ConnectInvariant, Web5Invariant
  <2>6. UNCHANGED <<asked, session, received>>
    BY <2>1 DEF connect
  <2>7. (AppHolds /\ StoredHolds)'
    BY <2>2, <2>6
       DEF Web5Invariant, AppHolds, StoredHolds, Delegates, GrantsOf, ProtocolsFor,
           StoredFor
  <2>8. (SyncingHolds /\ IdentitiesHold /\ KeysAccepted)'
    BY <2>2, <2>6
       DEF Web5Invariant, SyncingHolds, IdentitiesHold, KeysAccepted, Delegates,
           GrantsOf, Awaits
  <2> QED
    BY <2>4, <2>5, <2>7, <2>8 DEF Web5Invariant
<1> QED
  BY <1>1, <1>2, <1>3, <1>4, <1>5, <1>6, <1>7, <1>8, <1>9, <1>10 DEF Next, AppNext

\* Whatever fails, is late or stops, the sessions, the wallet, the application
\* and its stores agree as the invariant says.
THEOREM Web5InvariantHolds == Spec => []Web5Invariant
<1>1. Init => Web5Invariant
  BY InitHolds
<1>2. Web5Invariant /\ [Next]_vars => Web5Invariant'
  BY StepKeeps
<1> QED
  BY <1>1, <1>2, PTL DEF Spec

\* A delegate that is registered for sync has what the sync engine asks for.
LEMMA DelegatesMaySync ==
    ASSUME Web5Invariant
    PROVE  SyncMayRun
<1>1. SUFFICES ASSUME NEW r \in syncing, r.delegate # Nobody,
                      NEW a, a = CHOOSE b \in Session : received[b] = r.delegate
               PROVE  /\ r.protocols = DOMAIN asked[a]
                      /\ \A p \in r.protocols, t \in {"MessagesQuery", "MessagesRead"} :
                            \E g \in stored \cap RemoteGrants :
                                /\ g.grantedTo = r.delegate
                                /\ g.scope = [protocol |-> p, messageType |-> t]
                                /\ ~g.delegated
  BY DEF SyncMayRun
<1>2. PICK b \in Session : /\ Delegates(b, r.delegate)
                           /\ r.protocols = DOMAIN asked[b]
                           /\ GrantsOf(b) \subseteq stored
  BY <1>1 DEF Web5Invariant, SyncingHolds
<1>3. received[b] = r.delegate /\ b \in Session
  BY <1>2 DEF Delegates
<1>4. a \in Session /\ received[a] = r.delegate
  BY <1>1, <1>3
<1>5. a = b
  BY <1>1, <1>3, <1>4, AnswersApart DEF Web5Invariant
<1>6. GrantsOf(b) \subseteq RemoteGrants
  <2>1. GrantedBeforeAnswered
    BY GrantedWhenAnswered DEF Web5Invariant
  <2> QED
    BY <1>1, <1>3, <2>1 DEF GrantedBeforeAnswered, GrantsOf
<1>7. ASSUME NEW p \in r.protocols, NEW t \in {"MessagesQuery", "MessagesRead"}
      PROVE  \E g \in GrantsOf(b) : /\ g.grantedTo = r.delegate
                                    /\ g.scope = [protocol |-> p, messageType |-> t]
                                    /\ ~g.delegated
  <2> DEFINE x == [protocol |-> p, messageType |-> t]
  <2>1. x \in Scopes(asked[b])
    <3>1. asked[b] \in Asks \cup {<< >>} /\ t \in BaseTypes
      BY DEF Web5Invariant, ConnectInvariant, ConnectTypeOK, BaseTypes
    <3> QED
      BY <1>2, <3>1, ScopesOfAsk
  <2>2. GrantOf(received[b], x) \in GrantsOf(b)
    BY <2>1 DEF GrantsOf
  <2>3. ~ShouldUseDelegatePermission(x)
    BY DEF ShouldUseDelegatePermission, RecordsType
  <2>4. /\ GrantOf(received[b], x).grantedTo = r.delegate
        /\ GrantOf(received[b], x).scope = x
        /\ ~GrantOf(received[b], x).delegated
    BY <1>3, <2>3 DEF GrantOf
  <2> QED
    BY <2>2, <2>4
<1>8. GrantsOf(b) \subseteq stored \cap RemoteGrants
  BY <1>2, <1>6
<1> HIDE DEF GrantsOf
<1> QED
  BY <1>2, <1>5, <1>7, <1>8

\* A delegate has its grants when the application hears of it, and all that sync
\* asks for (oidc.ts lines 767-790).
THEOREM GrantsSufficeHolds == Spec => []GrantsSuffice
<1>1. Web5Invariant => GrantsSuffice
  BY GrantedWhenAnswered, DelegatesMaySync DEF GrantsSuffice, Web5Invariant
<1> QED
  BY <1>1, Web5InvariantHolds, PTL

\* No failure or restart leaves an application connected to half an identity.
THEOREM StoresWholeHolds == Spec => []StoresWhole
<1>1. ASSUME Web5Invariant PROVE StoresWhole
  <2>1. ConnectedWhole
    <3>1. SUFFICES ASSUME app.at = "connected"
                   PROVE  /\ app.identity \in identities \cap dids \cap keys
                          /\ app.option.sync /\ app.identity \notin cut =>
                                \E r \in syncing : r.did = ConnectedDid
      BY DEF ConnectedWhole
    <3>2. app.identity \in identities \cap dids \cap keys
      BY <1>1, <3>1 DEF Web5Invariant, IdentitiesHold, Serving
    <3>3. ~Awaits(app.identity) \/ ~app.option.sync
      BY <3>1 DEF Awaits
    <3>4. ConnectedDid = DidOf(app.identity)
      BY DEF ConnectedDid, DidOf
    <3> QED
      BY <1>1, <3>2, <3>3, <3>4 DEF Web5Invariant, IdentitiesHold
  <2>2. IdentitiesWhole
    BY <1>1 DEF IdentitiesWhole, Web5Invariant, IdentitiesHold
  <2> QED
    BY <1>1, <2>1, <2>2 DEF StoresWhole, Web5Invariant
<1> QED
  BY <1>1, Web5InvariantHolds, PTL

-----------------------------------------------------------------------------
(* The delegates that are kept *)

\* A delegate among the identities comes from an answer that was decrypted; there
\* is none while the wallet is asked, and what the answer brings is new.
DelegatesHold ==
    /\ \A i \in Submission \cap identities :
          \E a \in Session : session[a] = "done" /\ received[a] = i
    /\ app.at \in Early => Submission \cap identities = {}
    /\ \A i, j \in Submission \cap identities : i = j
    /\ app.at \in {"wallet", "importDid"} /\ app.session # Nobody =>
          received[app.session] \notin keys

\* What a step that adds no delegate has to say for itself.
LEMMA DelegatesKept ==
    ASSUME Web5Invariant, DelegatesHold, ConnectStep,
           identities' \cap Submission \subseteq identities,
           app'.at \in Early => Submission \cap identities = {},
           app'.at \in {"wallet", "importDid"} /\ app'.session # Nobody =>
               received'[app'.session] \notin keys'
    PROVE  DelegatesHold'
<1>1. ASSUME NEW i \in Submission \cap identities'
      PROVE  \E a \in Session : session'[a] = "done" /\ received'[a] = i
  <2>1. PICK a \in Session : session[a] = "done" /\ received[a] = i
    BY <1>1 DEF DelegatesHold
  <2> QED
    BY <2>1, SessionsStay DEF Web5Invariant
<1>2. \A i, j \in Submission \cap identities' : i = j
  BY DEF DelegatesHold
<1> QED
  BY <1>1, <1>2 DEF DelegatesHold

\* An answer that has just come, or is yet to come, is not imported.
LEMMA AnswerIsNew ==
    ASSUME Web5Invariant, NEW a \in Session, session[a] # "done",
           NEW i, i \in {response[a], received[a]}
    PROVE  i \notin keys
<1>1. keys \subseteq Identity /\ i \in Submission \cup {Nobody}
  BY DEF Web5Invariant, TypeOK, ConnectInvariant, ConnectTypeOK
<1>2. CASE i = Nobody
  BY <1>1, <1>2, NumbersApart
<1>3. CASE i # Nobody
  <2>1. SUFFICES ASSUME i \in keys PROVE FALSE
    OBVIOUS
  <2>2. PICK b \in Session : session[b] = "done" /\ received[b] = i
    BY <1>1, <1>3, <2>1 DEF Web5Invariant, KeysAccepted
  <2>3. wallet[i].session = a /\ wallet[i].session = b
    BY <1>3, <2>2 DEF Web5Invariant, ConnectInvariant, AnswersHold
  <2> QED
    BY <2>2, <2>3
<1> QED
  BY <1>2, <1>3

\* The steps of the sessions, the wallet and the server.
LEMMA OutsideDelegates ==
    ASSUME Web5Invariant, DelegatesHold, ConnectStep,
           UNCHANGED <<app, keys, identities>>
    PROVE  DelegatesHold'
<1>1. ASSUME app.at \in {"wallet", "importDid"}, app.session # Nobody
      PROVE  received'[app.session] \notin keys
  <2>1. app.session \in Session
    BY <1>1 DEF Web5Invariant, TypeOK, App
  <2>2. received[app.session] \notin keys
    BY <1>1 DEF DelegatesHold
  <2>3. CASE session[app.session] = "done"
    BY <2>1, <2>2, <2>3, SessionsStay DEF Web5Invariant
  <2>4. CASE session[app.session] # "done"
    <3>1. received'[app.session] \in {response[app.session], received[app.session]}
      <4>1. CASE \E a \in Session, ask \in Asks : InitClient(a, ask)
        BY <4>1 DEF InitClient
      <4>2. CASE \E a \in Session : PollNext(a) \/ EnterPin(a)
        BY <2>1, <4>2 DEF PollNext, Poll, PollEnds, PollFetched, PollRejected, EnterPin,
                          Web5Invariant, ConnectInvariant, ConnectTypeOK
      <4>3. CASE WalletNext
        BY <4>3 DEF WalletNext, SubmitAuthResponse, PostResponse, QueryProtocol,
                    SendProtocol, ProcessProtocol, CreateGrants, DeliverGrants, Issue,
                    connect
      <4>4. CASE Stops
        BY <4>4 DEF Stops
      <4>5. CASE UNCHANGED <<connect, issue>>
        BY <4>5 DEF connect
      <4> QED
        BY <4>1, <4>2, <4>3, <4>4, <4>5 DEF ConnectStep, ConnectNext
    <3> QED
      BY <2>1, <2>4, <3>1, AnswerIsNew
  <2> QED
    BY <2>3, <2>4
<1>2. app.at \in Early => Submission \cap identities = {}
  BY DEF DelegatesHold
<1> QED
  BY <1>1, <1>2, DelegatesKept

LEMMA DelegatesStepKeeps ==
    ASSUME Web5Invariant, DelegatesHold, [Next]_vars
    PROVE  DelegatesHold'
<1> USE DEF Early
<1>1. CASE \/ \E option \in Options : Connect(option)
           \/ Launch \/ Start \/ WalletFailed \/ StoreGrant \/ CleanDid
           \/ CreateDid \/ Register \/ Registered \/ RegisterSync \/ Pull
  <2>1. ConnectStep /\ identities' = identities
    BY <1>1 DEF Connect, Launch, Start, WalletFailed, StoreGrant, CleanDid, CreateDid,
                Register, Registered, RegisterSync, Pull, ConnectStep, agent
  <2>2. app'.at \notin Early
    <3>1. app \in App
      BY DEF Web5Invariant, TypeOK
    <3>2. Resting.at = "idle" /\ \A o : [Resting EXCEPT !.at = "launch", !.option = o].at = "launch"
      BY DEF Resting
    <3>3. NextAfterRegister \in {"connected", "registerSync"}
      BY DEF NextAfterRegister
    <3> QED
      BY <1>1, <3>1, <3>2, <3>3
         DEF Connect, Launch, Start, WalletFailed, StoreGrant, CleanDid, CreateDid,
             Register, Registered, RegisterSync, Pull, Goto, Throws, ThrowsAfter, App
  <2> QED
    BY <2>1, <2>2, DelegatesKept
<1>2. CASE Find
  <2>1. ConnectStep /\ identities' = identities /\ app.session = Nobody /\ app \in App
    BY <1>2 DEF Find, ConnectStep, agent, Web5Invariant, AppHolds, TypeOK
  <2> DEFINE none == {i \in identities : Connected(i)} = {}
  <2>2. \/ app' = Resting
        \/ none /\ app' = [app EXCEPT !.at = "wallet"]
        \/ app' = [app EXCEPT !.at = "createDid"]
        \/ \E i : app' = [app EXCEPT !.at = "register", !.identity = i,
                                      !.endpoints = Endpoint]
    BY <1>2 DEF Find, Throws, Goto, Chosen
  <2> HIDE DEF none
  <2>3. app'.session = Nobody /\ (app'.at \in Early => none)
    <3>1. CASE app' = Resting
      BY <3>1 DEF Resting
    <3>2. CASE none /\ app' = [app EXCEPT !.at = "wallet"]
      BY <2>1, <3>2 DEF App
    <3>3. CASE app' = [app EXCEPT !.at = "createDid"]
      BY <2>1, <3>3 DEF App
    <3>4. ASSUME NEW i, app' = [app EXCEPT !.at = "register", !.identity = i,
                                           !.endpoints = Endpoint]
          PROVE  app'.session = Nobody /\ (app'.at \in Early => none)
      BY <2>1, <3>4 DEF App
    <3> QED
      BY <2>2, <3>1, <3>2, <3>3, <3>4
  <2>4. app'.at \in Early => {i \in identities : Connected(i)} = {}
    BY <2>3 DEF none
  <2> QED
    BY <2>1, <2>3, <2>4, DelegatesKept DEF Connected
<1>3. CASE AskWallet
  <2>1. PICK a \in Session, ask \in Asks :
            /\ InitClient(a, ask)
            /\ app' = [app EXCEPT !.session = a, !.registerSync = TRUE]
    BY <1>3 DEF AskWallet
  <2>2. app.at = "wallet" /\ UNCHANGED <<keys, identities>>
    BY <1>3 DEF AskWallet, agent
  <2>3. app'.at = "wallet" /\ app'.session = a
    BY <2>1, <2>2 DEF Web5Invariant, TypeOK, App
  <2>4. session[a] = "new" /\ received' = received
    BY <2>1 DEF InitClient
  <2>5. received[a] \notin keys
    BY <2>4, AnswerIsNew
  <2>6. ConnectStep
    BY <2>1 DEF ConnectStep
  <2> QED
    BY <2>2, <2>3, <2>4, <2>5, <2>6, DelegatesKept DEF DelegatesHold
<1>4. CASE WalletAnswered
  <2>1. ConnectStep /\ UNCHANGED <<received, keys, identities>>
    BY <1>4 DEF WalletAnswered, ConnectStep, agent, connect
  <2>2. app.at = "wallet" /\ app'.at = "importDid" /\ app'.session = app.session
    BY <1>4 DEF WalletAnswered, Web5Invariant, TypeOK, App
  <2> QED
    BY <2>1, <2>2, DelegatesKept DEF DelegatesHold
<1>5. CASE ImportDid
  <2>1. ConnectStep /\ identities' = identities /\ app.at = "importDid"
    BY <1>5 DEF ImportDid, ConnectStep
  <2>2. app'.at \in {"importIdentity", "idle"}
    BY <1>5 DEF ImportDid, Goto, Throws, Resting, Web5Invariant, TypeOK, App
  <2> QED
    BY <2>1, <2>2, DelegatesKept DEF DelegatesHold
<1>6. CASE ImportIdentity
  <2>1. /\ ConnectStep /\ UNCHANGED <<session, received>>
        /\ app.at = "importIdentity" /\ Submission \cap identities = {}
        /\ Delegates(app.session, app.identity)
    BY <1>6 DEF ImportIdentity, ConnectStep, connect, DelegatesHold, Web5Invariant,
                AppHolds, Importing
  <2>2. app'.at \in {"grants", "idle"} /\ identities' \subseteq identities \cup {app.identity}
    BY <1>6 DEF ImportIdentity, Goto, Throws, Resting, Web5Invariant, TypeOK, App
  <2> QED
    BY <2>1, <2>2 DEF DelegatesHold, Delegates
<1>7. CASE CleanIdentity
  <2>1. ConnectStep /\ identities' \subseteq identities /\ app'.at = "idle"
    BY <1>7 DEF CleanIdentity, ConnectStep, Throws, ThrowsAfter, Resting
  <2> QED
    BY <2>1, DelegatesKept
<1>8. CASE CreateIdentity
  <2>1. ConnectStep /\ app.identity \notin Submission
    BY <1>8, NumbersApart DEF CreateIdentity, ConnectStep, Web5Invariant, AppHolds
  <2>2. app'.at \in {"register", "idle"} /\ identities' \subseteq identities \cup {app.identity}
    <3>1. app \in App
      BY DEF Web5Invariant, TypeOK
    <3>2. \/ app' = Resting /\ identities' = identities
          \/ /\ app' = [app EXCEPT !.at = "register", !.endpoints = Endpoint]
             /\ identities' = identities \cup {app.identity}
      BY <1>8 DEF CreateIdentity, Throws
    <3>3. Resting.at = "idle"
      BY DEF Resting
    <3>4. [app EXCEPT !.at = "register", !.endpoints = Endpoint].at = "register"
      BY <3>1 DEF App
    <3> QED
      BY <3>2, <3>3, <3>4
  <2> QED
    BY <2>1, <2>2, DelegatesKept
<1>9. CASE Crash
  <2>1. ConnectStep /\ identities' = identities /\ app'.at = "idle"
    BY <1>9 DEF Crash, ConnectStep, Stops, Throws, Resting, agent
  <2> QED
    BY <2>1, DelegatesKept
<1>10. CASE (ConnectNext /\ UNCHANGED Outside) \/ UNCHANGED vars
  <2>1. ConnectStep /\ UNCHANGED <<app, keys, identities>>
    BY <1>10 DEF ConnectStep, Outside, vars, agent
  <2> QED
    BY <2>1, OutsideDelegates
<1> QED
  BY <1>1, <1>2, <1>3, <1>4, <1>5, <1>6, <1>7, <1>8, <1>9, <1>10 DEF Next, AppNext

\* Every delegate that is kept comes from the answer to one session, decrypted
\* with its PIN; none is imported twice and there are never two of them.
THEOREM OnlyAcceptedHolds == Spec => []OnlyAccepted
<1>1. Init => DelegatesHold
  BY DEF Init, Resting, DelegatesHold, Early
<1>2. Web5Invariant /\ DelegatesHold /\ [Next]_vars => DelegatesHold'
  BY DelegatesStepKeeps
<1>3. ASSUME Web5Invariant, DelegatesHold PROVE OnlyAccepted
  <2>1. dids \subseteq keys
    BY <1>3 DEF Web5Invariant, IdentitiesHold
  <2>2. ASSUME NEW i \in Submission \cap (keys \cup identities)
        PROVE  \E a \in Session :
                  /\ session[a] = "done"
                  /\ wallet[i].at = "posted" /\ wallet[i].session = a
                  /\ \A b \in Session : received[b] = i <=> b = a
    <3>1. PICK a \in Session : session[a] = "done" /\ received[a] = i
      BY <1>3, <2>2 DEF Web5Invariant, KeysAccepted, DelegatesHold
    <3>2. i # Nobody
      BY <2>2, NobodyApart
    <3>3. wallet[i].at = "posted" /\ wallet[i].session = a
      BY <1>3, <3>1, <3>2 DEF Web5Invariant, ConnectInvariant, AnswersHold
    <3>4. \A b \in Session : received[b] = i <=> b = a
      BY <1>3, <3>1, <3>2, AnswersApart DEF Web5Invariant
    <3> QED
      BY <3>1, <3>3, <3>4
  <2>3. ASSUME app.at = "importDid"
        PROVE  app.identity \notin keys \cup dids \cup identities
    <3>1. Delegates(app.session, app.identity)
      BY <1>3, <2>3 DEF Web5Invariant, AppHolds, Importing
    <3>2. app.session \in Session /\ received[app.session] = app.identity
      BY <3>1 DEF Delegates
    <3>3. app.identity \in Submission
      BY <1>3, <3>1 DEF Delegates, Web5Invariant, ConnectInvariant, SessionsHold
    <3>4. app.session # Nobody
      BY <3>2, NobodyApart
    <3> QED
      BY <1>3, <2>1, <2>3, <3>2, <3>3, <3>4 DEF DelegatesHold, Early
  <2> QED
    BY <1>3, <2>1, <2>2, <2>3 DEF OnlyAccepted, DelegatesHold
<1> QED
  BY <1>1, <1>2, <1>3, Web5InvariantHolds, PTL DEF Spec
=============================================================================
