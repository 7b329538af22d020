------------------------- MODULE RpcSession_proofs -------------------------
(***************************************************************************)
(* Proofs about RpcSession for any numbers of tools, requests, sessions    *)
(* and credentials: no transport is left behind, the daemon information    *)
(* and the connection shown are those of the current session, a tool is    *)
(* given an authenticated one, and a closed controller is quiet.           *)
(***************************************************************************)
EXTENDS RpcSession, TLAPS

-----------------------------------------------------------------------------
(* The invariant *)

\* A session that ended has no transport open; one of a paired machine is not
\* open before it has authenticated itself.
SessionsAreSound ==
  \A s \in Session :
    /\ s > opened => session[s] = NotOpened
    /\ session[s].stage \in {"none", "failed"} => session[s].transport # "open"
    /\ session[s].stage = "renewing" => session[s].authenticated
    /\ session[s].stage = "open" /\ session[s].credential # NotPaired =>
         session[s].authenticated
    /\ session[s].transport = "open" => rpcSession = s \/ session[s].stage \in Opening

\* The current session is being opened, with credentials if there are any, or
\* is open, authenticated if there are any, and shown.
CurrentIsSound ==
  rpcSession # NoSession =>
    /\ ~closed /\ rpcSession <= opened
    /\ At(rpcSession, "open") \/ session[rpcSession].stage \in Opening
    /\ HasCredentials /\ session[rpcSession].stage \in Opening =>
         session[rpcSession].credential # NotPaired
    /\ HasCredentials /\ At(rpcSession, "open") => session[rpcSession].authenticated
    /\ At(rpcSession, "open") /\ connection # "reachable" => late_failure

\* Tools wait for sessions that are being opened with credentials; requests
\* are sent on open ones.
CallsAreSound ==
  /\ \A t \in Tool : tool[t] # NoSession =>
       /\ ~closed /\ session[tool[t]].stage \in Opening
       /\ session[tool[t]].credential # NotPaired
  /\ \A x \in Session : refresh[x].at = "sent" => At(refresh[x].on, "open")
  /\ completion.at \in {"sent", "auth"} => At(completion.on, "open")

ShownIsSound ==
  /\ daemonInfo.phase = "ready" =>
       daemonInfo.of \in Session /\ (~closed => daemonInfo.of = rpcSession)
  /\ ~closed /\ stored /\ connection = "reachable" => rpcSession # NoSession

IInv ==
  TypeOK /\ SessionsAreSound /\ CurrentIsSound /\ CallsAreSound /\ ShownIsSound

-----------------------------------------------------------------------------
(* Helpers of the actions *)

Table == [Session -> SessionState]

\* Sessions are numbered, and none of them is no session.
LEMMA SessionFacts ==
  /\ NoSession \notin Session /\ NotPaired \notin Credential
  /\ Session \subseteq Int
  /\ \A s \in Session : s > 0 /\ s <= MaxSessions
  BY BoundAssumption DEF Session, NoSession, NotPaired, Credential

\* A session that was not opened has no transport.
LEMMA NotOpenedFacts ==
  /\ NotOpened \in SessionState /\ NotOpened.stage = "none"
  /\ NotOpened.transport = "none"
  BY DEF NotOpened, SessionState

\* One being opened has the machine's credential and no transport.
LEMMA ConnectingFacts ==
  ASSUME TypeOK
  PROVE  /\ Connecting \in SessionState
         /\ Connecting.stage = "connecting" /\ Connecting.credential = machine
         /\ Connecting.transport = "none" /\ ~Connecting.authenticated
  BY DEF TypeOK, Connecting, NotOpened, SessionState, Opening

\* The states of a call and the session each is about.
LEMMA CallFacts ==
  /\ Idle \in Call /\ Idle.at = "idle"
  /\ \A s \in Session : /\ Sent(s) \in Call /\ Sent(s).at = "sent" /\ Sent(s).on = s
                        /\ Awaits(s) \in Call /\ Awaits(s).at = "await"
                        /\ Awaits(s).on = s
  BY DEF Idle, Call, Sent, Awaits

\* Daemon information that is not ready.
LEMMA InfoFacts ==
  ASSUME NEW phase \in {"idle", "loading", "error"}
  PROVE  /\ Info(phase) \in [phase : {"idle", "loading", "ready", "error"},
                             of : Session \cup {NoSession}]
         /\ Info(phase).phase # "ready"
  BY DEF Info

\* What getRpcSession does to the table of sessions.
LEMMA GotFacts ==
  ASSUME TypeOK, rpcSession <= opened, NEW table \in Table, getRpcSession(table)
  PROVE  /\ Got \in Session /\ rpcSession' = Got
         /\ opened' \in 0 .. MaxSessions /\ session' \in Table
         /\ rpcSession # NoSession =>
              Got = rpcSession /\ opened' = opened /\ session' = table
         /\ rpcSession = NoSession =>
              /\ Got = opened + 1 /\ opened' = opened + 1
              /\ session'[Got] = Connecting
              /\ \A x \in Session : x # Got => session'[x] = table[x]
<1>1. opened \in Nat /\ rpcSession \in Nat
  BY BoundAssumption DEF TypeOK, Session, NoSession
<1>2. Got \in Session /\ rpcSession' = Got
  BY DEF getRpcSession
<1>3. CASE rpcSession # NoSession
  <2>1. Got = rpcSession /\ ~(Got > opened)
    BY <1>1, <1>3 DEF Got
  <2> QED BY <1>2, <1>3, <2>1 DEF getRpcSession, TypeOK
<1>4. CASE rpcSession = NoSession
  <2>1. Got = opened + 1 /\ Got > opened
    BY <1>1, <1>4 DEF Got
  <2>2. opened' = opened + 1 /\ session' = [table EXCEPT ![Got] = Connecting]
    BY <2>1 DEF getRpcSession
  <2>3. session' \in Table /\ session'[Got] = Connecting
        /\ \A x \in Session : x # Got => session'[x] = table[x]
    BY <1>2, <2>2, ConnectingFacts DEF Table
  <2>4. opened' \in 0 .. MaxSessions
    BY <1>1, <1>2, <2>1, <2>2, SessionFacts
  <2> QED BY <1>2, <1>4, <2>1, <2>2, <2>3, <2>4
<1> QED BY <1>3, <1>4

\* closeRpcSession closes the transport of the current session if it is open.
LEMMA DroppedFacts ==
  ASSUME TypeOK, NEW table \in Table
  PROVE  /\ Dropped(table) \in Table
         /\ \A x \in Session :
              /\ Dropped(table)[x].stage = table[x].stage
              /\ Dropped(table)[x].credential = table[x].credential
              /\ Dropped(table)[x].authenticated = table[x].authenticated
              /\ Dropped(table)[x].transport \in {table[x].transport, "closed"}
              /\ x # rpcSession => Dropped(table)[x] = table[x]
              /\ x = rpcSession /\ session[x].stage = "open" =>
                   Dropped(table)[x].transport = "closed"
<1>1. CASE rpcSession # NoSession /\ session[rpcSession].stage = "open"
  <2>1. rpcSession \in Session
    BY <1>1 DEF TypeOK
  <2>2. Dropped(table) = [table EXCEPT ![rpcSession] = [@ EXCEPT !.transport = "closed"]]
    BY <1>1 DEF Dropped
  <2>3. [table[rpcSession] EXCEPT !.transport = "closed"] \in SessionState
    BY <2>1 DEF Table, SessionState
  <2> QED BY <1>1, <2>1, <2>2, <2>3 DEF Table, SessionState
<1>2. CASE ~(rpcSession # NoSession /\ session[rpcSession].stage = "open")
  <2>1. Dropped(table) = table
    BY <1>2 DEF Dropped
  <2> QED BY <1>2, <2>1, SessionFacts
<1> QED BY <1>1, <1>2

\* A new controller has no session.
LEMMA InitInv == Init => IInv
<1> SUFFICES ASSUME Init PROVE IInv
  OBVIOUS
<1>1. 1 \in Session /\ machine \in Credential \cup {NotPaired}
      /\ issued \in 0 .. MaxCredentials /\ accepted \in Credential \cup {NotPaired}
  BY BoundAssumption DEF Init, Session, NotPaired, Credential
<1>2. /\ Connecting \in SessionState
      /\ Connecting.stage = "connecting" /\ Connecting.credential = machine
      /\ Connecting.transport = "none"
  BY <1>1 DEF Connecting, NotOpened, SessionState, Opening
<1>3. TypeOK
  <2>1. /\ session \in [Session -> SessionState] /\ refresh \in [Session -> Call]
        /\ request \in [Request -> Call] /\ tool \in [Tool -> Session \cup {NoSession}]
    BY <1>2, NotOpenedFacts, CallFacts DEF Init
  <2>2. opened \in 0 .. MaxSessions /\ completion \in Call
    BY <1>1, SessionFacts, CallFacts DEF Init
  <2> QED BY <1>1, <2>1, <2>2, InfoFacts DEF Init, TypeOK
<1>4. SessionsAreSound
  BY <1>1, <1>2, NotOpenedFacts, SessionFacts DEF Init, SessionsAreSound, Opening
<1>5. CurrentIsSound
  BY <1>1, <1>2 DEF Init, CurrentIsSound, Opening, HasCredentials, At
<1>6. CallsAreSound
  BY CallFacts DEF Init, CallsAreSound
<1>7. ShownIsSound
  BY InfoFacts DEF Init, ShownIsSound, Info
<1> QED BY <1>3, <1>4, <1>5, <1>6, <1>7 DEF IInv

-----------------------------------------------------------------------------
(* The parts of the invariant after a step that may open the session it got *)

\* Every session is as it was, or a new one that is being connected, except
\* the one that has been opened.
Others(s) ==
  \A x \in Session : x # s =>
    \/ session'[x] = session[x]
    \/ /\ rpcSession = NoSession /\ rpcSession' = x
       /\ x = opened + 1 /\ opened' = x /\ session'[x] = Connecting

\* The calls of refreshDaemonInfoForCurrentMachine and completePairingSession
\* that have sent a request.
LEMMA OnTypes ==
  ASSUME TypeOK
  PROVE  /\ \A x \in Session : refresh[x] \in Call
         /\ \A x \in Session : refresh[x].at = "sent" => refresh[x].on \in Session
         /\ completion.at \in {"sent", "auth"} => completion.on \in Session
         /\ \A t \in Tool : tool[t] # NoSession => tool[t] \in Session
  BY CallFacts DEF TypeOK, Call

\* A new session is nobody's yet.
LEMMA NewIsUnused ==
  ASSUME IInv, opened + 1 \in Session
  PROVE  /\ session[opened + 1] = NotOpened
         /\ \A t \in Tool : tool[t] # opened + 1
         /\ \A x \in Session : refresh[x].at = "sent" => refresh[x].on # opened + 1
         /\ completion.at \in {"sent", "auth"} => completion.on # opened + 1
<1>1. opened \in Nat /\ opened + 1 > opened
  BY BoundAssumption DEF IInv, TypeOK
<1>2. session[opened + 1] = NotOpened
  BY <1>1 DEF IInv, SessionsAreSound
<1>3. session[opened + 1].stage = "none"
  BY <1>2, NotOpenedFacts
<1> QED BY <1>2, <1>3, SessionFacts DEF IInv, CallsAreSound, Opening, At

\* The session's table when an opening ends (rpc-session.ts, openRpcSession).
LEMMA OpenTable ==
  ASSUME IInv, NEW s \in Session, NEW opening \in Table,
         \A x \in Session : x # s => opening[x] = session[x]
  PROVE  \E table \in Table :
           /\ table = [opening EXCEPT ![s].stage = "open",
                         ![s].transport = IF rpcSession = s THEN @ ELSE "closed"]
           /\ table[s].stage = "open"
           /\ table[s].credential = opening[s].credential
           /\ table[s].authenticated = opening[s].authenticated
           /\ rpcSession # s => table[s].transport = "closed"
           /\ \A x \in Session : x # s => table[x] = session[x]
<1>1. PICK state : state = [opening[s] EXCEPT !.stage = "open",
                              !.transport = IF rpcSession = s THEN @ ELSE "closed"]
  OBVIOUS
<1>2. /\ state \in SessionState /\ state.stage = "open"
      /\ state.credential = opening[s].credential
      /\ state.authenticated = opening[s].authenticated
      /\ rpcSession # s => state.transport = "closed"
  BY <1>1 DEF Table, SessionState
<1>3. [opening EXCEPT ![s].stage = "open",
         ![s].transport = IF rpcSession = s THEN @ ELSE "closed"]
        = [opening EXCEPT ![s] = state]
  BY <1>1 DEF Table
<1> QED BY <1>2, <1>3 DEF Table

\* What the end of an opening does to the controller.
LEMMA AfterOpenInv ==
  ASSUME IInv, NEW s \in Session, session[s].stage \in Opening, ~closed,
         NEW opening \in Table,
         \A x \in Session : x # s => opening[x] = session[x],
         opening[s].credential = session[s].credential,
         opening[s].credential # NotPaired => opening[s].authenticated,
         AfterOpen(s, opening)
  PROVE  IInv'
<1>0. TypeOK /\ SessionsAreSound /\ CurrentIsSound /\ CallsAreSound /\ ShownIsSound
  BY DEF IInv
<1>1. PICK table \in Table :
        /\ table = [opening EXCEPT ![s].stage = "open",
                      ![s].transport = IF rpcSession = s THEN @ ELSE "closed"]
        /\ table[s].stage = "open"
        /\ table[s].credential = opening[s].credential
        /\ table[s].authenticated = opening[s].authenticated
        /\ rpcSession # s => table[s].transport = "closed"
        /\ \A x \in Session : x # s => table[x] = session[x]
  BY OpenTable
<1>2. /\ connection' = "reachable" /\ late_failure' = FALSE
      /\ tool' = ToolsGoOn(s) /\ request' = RequestsGoOn(s)
      /\ completion' = CompletionGoesOn(s)
      /\ UNCHANGED <<closed, pairingStarted, initial, stored, machine, issued, accepted>>
  BY DEF AfterOpen, ShowReachable, flags, store, daemon
<1>3. \/ /\ stored \/ rpcSession # NoSession
         /\ getRpcSession(table)
         /\ daemonInfo' = Info("loading")
         /\ refresh' = [RefreshGoesOn(s) EXCEPT ![s] =
                IF table[Got].stage = "open" THEN Sent(Got) ELSE Awaits(Got)]
      \/ /\ ~stored /\ rpcSession = NoSession
         /\ session' = table
         /\ daemonInfo' = Info("error")
         /\ refresh' = RefreshGoesOn(s)
         /\ UNCHANGED <<rpcSession, opened>>
  BY <1>1 DEF AfterOpen
<1>4. rpcSession <= opened /\ opened \in Nat /\ rpcSession \in Session \cup {NoSession}
      /\ s <= opened /\ s # NoSession
  <2>1. session[s] # NotOpened
    BY NotOpenedFacts DEF Opening
  <2> QED BY <1>0, <2>1, BoundAssumption, SessionFacts
          DEF TypeOK, SessionsAreSound, CurrentIsSound, NoSession, Session
<1>5. /\ session' \in Table /\ opened' \in 0 .. MaxSessions /\ opened' >= opened
      /\ rpcSession' \in Session \cup {NoSession} /\ rpcSession' <= opened'
      /\ session'[s] = table[s] /\ Others(s)
      /\ rpcSession # NoSession => rpcSession' = rpcSession
      /\ stored => rpcSession' # NoSession
      /\ rpcSession = NoSession /\ rpcSession' # NoSession => rpcSession' = opened + 1
      /\ daemonInfo' \in {Info("loading"), Info("error")}
  <2>1. CASE stored \/ rpcSession # NoSession
    <3>1. getRpcSession(table) /\ daemonInfo' = Info("loading")
      BY <1>3, <2>1
    <3>2. /\ Got \in Session /\ rpcSession' = Got
          /\ opened' \in 0 .. MaxSessions /\ session' \in Table
          /\ rpcSession # NoSession =>
               Got = rpcSession /\ opened' = opened /\ session' = table
          /\ rpcSession = NoSession =>
               /\ Got = opened + 1 /\ opened' = opened + 1
               /\ session'[Got] = Connecting
               /\ \A x \in Session : x # Got => session'[x] = table[x]
      BY <1>0, <1>4, <3>1, GotFacts
    <3>3. CASE rpcSession # NoSession
      <4>1. session' = table /\ rpcSession' = rpcSession /\ opened' = opened
        BY <3>2, <3>3
      <4>2. Others(s)
        BY <1>1, <4>1 DEF Others
      <4> QED BY <1>4, <3>1, <3>2, <3>3, <4>1, <4>2
    <3>4. CASE rpcSession = NoSession
      <4>1. /\ rpcSession' = opened + 1 /\ opened' = opened + 1
            /\ session'[opened + 1] = Connecting
            /\ \A x \in Session : x # opened + 1 => session'[x] = table[x]
        BY <3>2, <3>4
      <4>2. Others(s)
        BY <1>1, <3>4, <4>1 DEF Others
      <4>3. opened + 1 # s /\ opened + 1 # NoSession
        BY <1>4, SessionFacts DEF NoSession
      <4> QED BY <1>4, <3>1, <3>2, <3>4, <4>1, <4>2, <4>3
    <3> QED BY <3>3, <3>4
  <2>2. CASE ~(stored \/ rpcSession # NoSession)
    <3>1. /\ session' = table /\ daemonInfo' = Info("error")
          /\ rpcSession' = rpcSession /\ opened' = opened
      BY <1>3, <2>2
    <3>2. Others(s)
      BY <1>1, <3>1 DEF Others
    <3>3. opened \in 0 .. MaxSessions
      BY <1>0 DEF TypeOK
    <3> QED BY <1>4, <2>2, <3>1, <3>2, <3>3
  <2> QED BY <2>1, <2>2
<1>6. refresh' \in [Session -> Call]
      /\ \A x \in Session : refresh'[x].at = "sent" =>
           \/ refresh[x].at = "sent" /\ refresh'[x] = refresh[x]
           \/ refresh'[x].on = s
           \/ refresh'[x].on \in Session /\ session'[refresh'[x].on].stage = "open"
  <2>1. RefreshGoesOn(s) \in [Session -> Call]
        /\ \A x \in Session : RefreshGoesOn(s)[x].at = "sent" =>
             \/ refresh[x].at = "sent" /\ RefreshGoesOn(s)[x] = refresh[x]
             \/ RefreshGoesOn(s)[x].on = s
    BY <1>0, CallFacts DEF RefreshGoesOn, TypeOK
  <2>2. CASE stored \/ rpcSession # NoSession
    <3>1. getRpcSession(table)
          /\ refresh' = [RefreshGoesOn(s) EXCEPT ![s] =
                IF table[Got].stage = "open" THEN Sent(Got) ELSE Awaits(Got)]
      BY <1>3, <2>2
    <3>2. Got \in Session
      BY <3>1 DEF getRpcSession
    <3>3. table[Got].stage = "open" => session'[Got].stage = "open"
      <4>1. CASE Got = s
        BY <1>5, <4>1
      <4>2. CASE Got # s /\ session'[Got] = session[Got]
        BY <1>1, <3>2, <4>2
      <4>3. CASE Got # s /\ session'[Got] # session[Got]
        <5>1. Got = opened + 1
          BY <1>5, <3>2, <4>3 DEF Others
        <5>2. session[Got].stage = "none"
          BY <3>2, <5>1, NewIsUnused, NotOpenedFacts
        <5> QED BY <1>1, <3>2, <4>3, <5>2
      <4> QED BY <4>1, <4>2, <4>3
    <3> QED BY <2>1, <3>1, <3>2, <3>3, CallFacts
  <2>3. CASE ~(stored \/ rpcSession # NoSession)
    BY <1>3, <2>1, <2>3
  <2> QED BY <2>2, <2>3
<1>7. TypeOK'
  <2>1. tool' \in [Tool -> Session \cup {NoSession}]
    BY <1>0, <1>2 DEF ToolsGoOn, TypeOK
  <2>2. request' \in [Request -> Call]
    BY <1>0, <1>2, CallFacts DEF RequestsGoOn, TypeOK
  <2>3. completion' \in Call \cup [at : {"auth"}, on : Session]
    BY <1>0, <1>2, CallFacts DEF CompletionGoesOn, TypeOK
  <2>4. daemonInfo' \in [phase : {"idle", "loading", "ready", "error"},
                         of : Session \cup {NoSession}]
    BY <1>5, InfoFacts
  <2> QED BY <1>0, <1>2, <1>5, <1>6, <2>1, <2>2, <2>3, <2>4 DEF TypeOK, Table
<1>8. SessionsAreSound'
  <2> SUFFICES ASSUME NEW x \in Session
               PROVE  /\ x > opened' => session'[x] = NotOpened
                      /\ session'[x].stage \in {"none", "failed"} => session'[x].transport # "open"
                      /\ session'[x].stage = "renewing" => session'[x].authenticated
                      /\ session'[x].stage = "open" /\ session'[x].credential # NotPaired =>
                           session'[x].authenticated
                      /\ session'[x].transport = "open" =>
                           rpcSession' = x \/ session'[x].stage \in Opening
    BY DEF SessionsAreSound
  <2>0. x \in Int /\ opened' \in Int
    BY <1>5, SessionFacts
  <2>1. CASE x = s
    <3>1. ~(s > opened')
      BY <1>4, <1>5, <2>0, <2>1
    <3>2. rpcSession = s => rpcSession' = s
      BY <1>4, <1>5
    <3>3. /\ session'[s] = table[s] /\ table[s].stage = "open"
          /\ table[s].credential # NotPaired => table[s].authenticated
          /\ table[s].transport = "open" => rpcSession = s
      BY <1>1, <1>5
    <3> QED BY <2>1, <3>1, <3>2, <3>3
  <2>2. CASE x # s /\ session'[x] = session[x]
    <3>1. /\ x > opened' => x > opened
          /\ rpcSession = x => rpcSession' = x
      BY <1>4, <1>5, <2>0, SessionFacts
    <3> QED BY <1>0, <2>2, <3>1 DEF SessionsAreSound
  <2>3. CASE x # s /\ session'[x] # session[x]
    BY <1>0, <1>4, <1>5, <2>0, <2>3, ConnectingFacts DEF Others, Opening
  <2> QED BY <2>1, <2>2, <2>3
<1>9. CurrentIsSound'
  <2> SUFFICES ASSUME rpcSession' # NoSession PROVE CurrentIsSound'
    BY DEF CurrentIsSound
  <2>0. HasCredentials' = HasCredentials /\ ~closed' /\ connection' = "reachable"
    BY <1>2 DEF HasCredentials
  <2>1. CASE rpcSession' = s
    <3>1. rpcSession = s
      BY <1>4, <1>5, <2>1, SessionFacts
    <3> QED BY <1>0, <1>1, <1>4, <1>5, <2>0, <2>1, <3>1 DEF CurrentIsSound, At, Opening
  <2>2. CASE rpcSession' # s /\ rpcSession # NoSession
    <3>1. rpcSession' = rpcSession /\ session'[rpcSession] = session[rpcSession]
      BY <1>4, <1>5, <2>2 DEF Others
    <3> QED BY <1>0, <1>5, <2>0, <2>2, <3>1 DEF CurrentIsSound, At
  <2>3. CASE rpcSession' # s /\ rpcSession = NoSession
    <3>1. rpcSession' \in Session /\ rpcSession' = opened + 1
      BY <1>4, <1>5, <2>3
    <3>2. session[rpcSession'].stage = "none"
      BY <3>1, NewIsUnused, NotOpenedFacts
    <3>3. session'[rpcSession'] = Connecting \/ session'[rpcSession'] = session[rpcSession']
      BY <1>5, <2>3, <3>1 DEF Others
    <3>4. session'[rpcSession'] = Connecting
      <4>1. stored /\ getRpcSession(table)
        BY <1>3, <2>3, <3>1
      <4> QED BY <1>0, <1>1, <1>4, <2>3, <3>1, <4>1, GotFacts
    <3> QED BY <1>0, <1>5, <2>0, <3>4, ConnectingFacts
            DEF CurrentIsSound, At, Opening, HasCredentials
  <2> QED BY <2>1, <2>2, <2>3
<1>10. CallsAreSound'
  <2>1. ASSUME NEW t \in Tool, tool'[t] # NoSession
        PROVE  /\ ~closed' /\ session'[tool'[t]].stage \in Opening
               /\ session'[tool'[t]].credential # NotPaired
    <3>1. tool'[t] = tool[t] /\ tool[t] # s /\ tool[t] \in Session
      BY <1>0, <1>2, <2>1 DEF ToolsGoOn, TypeOK
    <3>2. tool[t] # opened + 1
      BY <3>1, NewIsUnused
    <3>3. session'[tool[t]] = session[tool[t]]
      BY <1>5, <3>1, <3>2 DEF Others
    <3> QED BY <1>0, <1>2, <2>1, <3>1, <3>3 DEF CallsAreSound
  <2>2. \A x \in Session : refresh[x].at = "sent" => session'[refresh[x].on].stage = "open"
    BY <1>0, <1>5, OnTypes, NewIsUnused DEF CallsAreSound, At, Opening, Others
  <2>3. \A x \in Session : refresh'[x].at = "sent" => session'[refresh'[x].on].stage = "open"
    BY <1>1, <1>5, <1>6, <2>2
  <2>4. completion.at \in {"sent", "auth"} => session'[completion.on].stage = "open"
    BY <1>0, <1>5, OnTypes, NewIsUnused DEF CallsAreSound, At, Opening, Others
  <2>5. completion'.at \in {"sent", "auth"} => session'[completion'.on].stage = "open"
    BY <1>1, <1>2, <1>5, <2>4, CallFacts DEF CompletionGoesOn
  <2> QED BY <2>1, <2>3, <2>5 DEF CallsAreSound, At
<1>11. ShownIsSound'
  <2>1. daemonInfo'.phase # "ready"
    BY <1>5, InfoFacts
  <2> QED BY <1>2, <1>5, <2>1 DEF ShownIsSound
<1> QED BY <1>7, <1>8, <1>9, <1>10, <1>11 DEF IInv

-----------------------------------------------------------------------------
(* A session fails, or is dropped *)

\* Each session keeps its stage and credentials; transports may have closed.
Same(x) ==
  /\ session'[x].stage = session[x].stage
  /\ session'[x].credential = session[x].credential
  /\ session'[x].authenticated = session[x].authenticated
  /\ session'[x].transport \in {session[x].transport, "closed"}
  /\ session[x] = NotOpened => session'[x] = NotOpened

\* The session's table when an opening fails.
LEMMA FailTable ==
  ASSUME TypeOK, NEW s \in Session
  PROVE  \E table \in Table :
           /\ table = [session EXCEPT ![s].stage = "failed",
                         ![s].transport = IF @ = "none" THEN @ ELSE "closed"]
           /\ table[s].stage = "failed" /\ table[s].transport # "open"
           /\ \A x \in Session : x # s => table[x] = session[x]
<1>1. PICK state : state = [session[s] EXCEPT !.stage = "failed",
                              !.transport = IF @ = "none" THEN @ ELSE "closed"]
  OBVIOUS
<1>2. state \in SessionState /\ state.stage = "failed" /\ state.transport # "open"
  <2>1. session[s] \in SessionState
    BY DEF TypeOK
  <2>2. CASE session[s].transport = "none"
    BY <1>1, <2>1, <2>2 DEF SessionState
  <2>3. CASE session[s].transport # "none"
    BY <1>1, <2>1, <2>3 DEF SessionState
  <2> QED BY <2>2, <2>3
<1>3. [session EXCEPT ![s].stage = "failed",
         ![s].transport = IF @ = "none" THEN @ ELSE "closed"]
        = [session EXCEPT ![s] = state]
  BY <1>1 DEF TypeOK
<1> QED BY <1>2, <1>3 DEF TypeOK, Table

\* A closed controller has no session, and no tool awaits one.
LEMMA ClosedFacts ==
  ASSUME IInv, closed
  PROVE  rpcSession = NoSession /\ \A t \in Tool : tool[t] = NoSession
  BY DEF IInv, CurrentIsSound, CallsAreSound

\* What depends on sessions that are still open stays so.
LEMMA SentStays ==
  ASSUME IInv,
         \A x \in Session : session[x].stage = "open" => session'[x].stage = "open",
         \A x \in Session : refresh'[x] = refresh[x] \/ refresh'[x].at # "sent",
         completion' = completion \/ completion'.at \notin {"sent", "auth"}
  PROVE  /\ \A x \in Session : refresh'[x].at = "sent" =>
              session'[refresh'[x].on].stage = "open"
         /\ completion'.at \in {"sent", "auth"} => session'[completion'.on].stage = "open"
  BY OnTypes DEF IInv, CallsAreSound, At

\* What the failure does: it is shown only if the session is current.
LEMMA AfterFailureInv ==
  ASSUME IInv, NEW s \in Session, session[s].stage \in Opening,
         NEW invalid \in BOOLEAN, AfterFailure(s, invalid)
  PROVE  IInv'
<1>0. TypeOK /\ SessionsAreSound /\ CurrentIsSound /\ CallsAreSound /\ ShownIsSound
  BY DEF IInv
<1>1. PICK table \in Table :
        /\ table = [session EXCEPT ![s].stage = "failed",
                      ![s].transport = IF @ = "none" THEN @ ELSE "closed"]
        /\ table[s].stage = "failed" /\ table[s].transport # "open"
        /\ \A x \in Session : x # s => table[x] = session[x]
  BY <1>0, FailTable
<1>2. /\ refresh' = [x \in Session |->
             IF refresh[x] = Awaits(s) THEN Idle ELSE refresh[x]]
      /\ request' = [q \in Request |->
             IF request[q] = Awaits(s) THEN Idle ELSE request[q]]
      /\ completion' = IF completion = Awaits(s) THEN Idle ELSE completion
      /\ UNCHANGED <<closed, initial, stored, issued, accepted>>
  BY DEF AfterFailure, daemon
<1>3. \/ /\ AwaitedByTool(s)
         /\ session' = Dropped(table) /\ rpcSession' = NoSession
         /\ connection' = "offline" /\ late_failure' = FALSE /\ daemonInfo' = Info("idle")
         /\ tool' = [t \in Tool |-> NoSession]
         /\ machine' = NotPaired /\ pairingStarted' = FALSE /\ opened' = opened
      \/ /\ session' = table
         /\ rpcSession' = IF rpcSession = s THEN NoSession ELSE rpcSession
         /\ \/ /\ connection' = "offline" /\ late_failure' = (rpcSession # s)
            \/ /\ closed \/ rpcSession # s
               /\ UNCHANGED <<connection, late_failure>>
         /\ daemonInfo' = InfoAfterFailure(s)
         /\ tool' = ToolsGoOn(s)
         /\ UNCHANGED <<machine, pairingStarted, opened>>
  BY <1>1 DEF AfterFailure, ForgetPairing, closeRpcSession, setConnectionOffline
<1>4. /\ session' \in Table /\ opened' = opened
      /\ session'[s].stage = "failed" /\ session'[s].transport # "open"
      /\ \A x \in Session : x # s => Same(x)
      /\ \A x \in Session : x # s /\ session'[x] # session[x] =>
           rpcSession' = NoSession
      /\ \A x \in Session : session'[x].transport = "open" =>
           rpcSession' = x \/ session'[x].stage \in Opening
      /\ rpcSession' # NoSession => rpcSession' = rpcSession /\ rpcSession # s
  <2>1. \A x \in Session : session[x].transport = "open" =>
          rpcSession = x \/ session[x].stage \in Opening
    BY <1>0 DEF SessionsAreSound
  <2>2. CASE AwaitedByTool(s) /\ session' = Dropped(table) /\ rpcSession' = NoSession
             /\ opened' = opened
    <3>0. /\ session' \in Table
          /\ \A x \in Session :
               /\ session'[x].stage = table[x].stage
               /\ session'[x].credential = table[x].credential
               /\ session'[x].authenticated = table[x].authenticated
               /\ session'[x].transport \in {table[x].transport, "closed"}
               /\ x # rpcSession => session'[x] = table[x]
               /\ x = rpcSession /\ session[x].stage = "open" =>
                    session'[x].transport = "closed"
      BY <1>0, <2>2, DroppedFacts
    <3>1. \A x \in Session : rpcSession = x =>
            session[x].stage \in Opening \cup {"open"}
      BY <1>0, SessionFacts DEF CurrentIsSound, At
    <3>2. ASSUME NEW x \in Session, session'[x].transport = "open"
          PROVE  session'[x].stage \in Opening
      <4>1. x # s /\ table[x] = session[x] /\ session[x].transport = "open"
        BY <1>1, <2>2, <3>0, <3>2
      <4>2. session'[x].stage = session[x].stage
        BY <1>1, <2>2, <3>0, <4>1
      <4>3. rpcSession = x => session[x].stage # "open"
        BY <1>1, <2>2, <3>0, <3>2
      <4> QED BY <2>1, <3>1, <4>1, <4>2, <4>3
    <3>3. \A x \in Session : x # s => Same(x)
      <4> SUFFICES ASSUME NEW x \in Session, x # s PROVE Same(x)
        OBVIOUS
      <4>1. table[x] = session[x]
        BY <1>1
      <4>2. session[x] = NotOpened => x # rpcSession
        BY <3>1, NotOpenedFacts DEF Opening
      <4> QED BY <3>0, <4>1, <4>2 DEF Same
    <3> QED BY <1>1, <2>2, <3>0, <3>2, <3>3
  <2>3. CASE session' = table /\ opened' = opened
             /\ rpcSession' = IF rpcSession = s THEN NoSession ELSE rpcSession
    <3>1. \A x \in Session : x # s => Same(x)
      BY <1>1, <2>3 DEF Same
    <3> QED BY <1>1, <2>1, <2>3, <3>1
  <2> QED BY <1>3, <2>2, <2>3
<1>5. daemonInfo' = daemonInfo \/ daemonInfo' \in {Info("idle"), Info("error")}
  BY <1>3 DEF InfoAfterFailure
<1>6. TypeOK'
  <2>1. /\ refresh' \in [Session -> Call] /\ request' \in [Request -> Call]
        /\ completion' \in Call \cup [at : {"auth"}, on : Session]
    BY <1>0, <1>2, CallFacts DEF TypeOK
  <2>2. tool' \in [Tool -> Session \cup {NoSession}]
    BY <1>0, <1>3 DEF ToolsGoOn, TypeOK
  <2>3. daemonInfo' \in [phase : {"idle", "loading", "ready", "error"},
                         of : Session \cup {NoSession}]
    BY <1>0, <1>5, InfoFacts DEF TypeOK
  <2>4. /\ connection' \in {"idle", "offline", "reachable"} /\ late_failure' \in BOOLEAN
        /\ rpcSession' \in Session \cup {NoSession}
        /\ machine' \in Credential \cup {NotPaired} /\ pairingStarted' \in BOOLEAN
    BY <1>0, <1>3 DEF TypeOK
  <2> QED BY <1>0, <1>2, <1>4, <2>1, <2>2, <2>3, <2>4 DEF TypeOK, Table
<1>7. SessionsAreSound'
  <2> SUFFICES ASSUME NEW x \in Session
               PROVE  /\ x > opened' => session'[x] = NotOpened
                      /\ session'[x].stage \in {"none", "failed"} => session'[x].transport # "open"
                      /\ session'[x].stage = "renewing" => session'[x].authenticated
                      /\ session'[x].stage = "open" /\ session'[x].credential # NotPaired =>
                           session'[x].authenticated
                      /\ session'[x].transport = "open" =>
                           rpcSession' = x \/ session'[x].stage \in Opening
    BY DEF SessionsAreSound
  <2>1. CASE x = s
    <3>1. ~(s > opened)
      BY <1>0, NotOpenedFacts DEF SessionsAreSound, Opening
    <3> QED BY <1>4, <2>1, <3>1
  <2>2. CASE x # s
    BY <1>0, <1>4, <2>2 DEF SessionsAreSound, Same
  <2> QED BY <2>1, <2>2
<1>8. CurrentIsSound'
  <2> SUFFICES ASSUME rpcSession' # NoSession PROVE CurrentIsSound'
    BY DEF CurrentIsSound
  <2>1. /\ rpcSession' = rpcSession /\ rpcSession # s
        /\ rpcSession \in Session /\ session'[rpcSession] = session[rpcSession]
    BY <1>0, <1>4 DEF TypeOK
  <2>2. /\ HasCredentials' = HasCredentials /\ closed' = closed
        /\ session' = table
        /\ UNCHANGED <<connection, late_failure>> \/ late_failure' = TRUE
    BY <1>2, <1>3, <2>1, SessionFacts DEF HasCredentials
  <2>3. At(rpcSession, "open") /\ connection' # "reachable" => late_failure'
    BY <1>0, <2>1, <2>2 DEF CurrentIsSound
  <2> QED BY <1>0, <1>2, <1>4, <2>1, <2>2, <2>3 DEF CurrentIsSound, At
<1>9. CallsAreSound'
  <2>1. ASSUME NEW t \in Tool, tool'[t] # NoSession
        PROVE  /\ ~closed' /\ session'[tool'[t]].stage \in Opening
               /\ session'[tool'[t]].credential # NotPaired
    <3>1. tool'[t] = tool[t] /\ tool[t] # s /\ tool[t] \in Session
      BY <1>0, <1>3, <2>1 DEF ToolsGoOn, TypeOK
    <3> QED BY <1>0, <1>2, <1>4, <2>1, <3>1 DEF CallsAreSound, Same
  <2>2. /\ \A x \in Session : session[x].stage = "open" => session'[x].stage = "open"
        /\ \A x \in Session : refresh'[x] = refresh[x] \/ refresh'[x].at # "sent"
        /\ completion' = completion \/ completion'.at \notin {"sent", "auth"}
    BY <1>2, <1>4, CallFacts DEF Same, Opening
  <2> QED BY <2>1, <2>2, SentStays DEF CallsAreSound, At
<1>10. ShownIsSound'
  <2>1. daemonInfo'.phase = "ready" =>
          daemonInfo'.of \in Session /\ (~closed' => daemonInfo'.of = rpcSession')
    <3>1. CASE daemonInfo' # daemonInfo
      BY <1>5, <3>1, InfoFacts
    <3>2. CASE daemonInfo' = daemonInfo /\ daemonInfo.phase = "ready" /\ ~closed
      <4>1. rpcSession' = rpcSession
        <5>1. CASE daemonInfo' = Info("idle")
          BY <3>2, <5>1, InfoFacts
        <5>2. CASE daemonInfo' # Info("idle")
          BY <1>3, <3>2, <5>2 DEF InfoAfterFailure
        <5> QED BY <5>1, <5>2
      <4> QED BY <1>0, <1>2, <3>2, <4>1 DEF ShownIsSound
    <3> QED BY <1>0, <1>2, <3>1, <3>2 DEF ShownIsSound
  <2>2. ~closed' /\ stored' /\ connection' = "reachable" => rpcSession' # NoSession
    BY <1>0, <1>2, <1>3 DEF ShownIsSound
  <2> QED BY <2>1, <2>2 DEF ShownIsSound
<1> QED BY <1>6, <1>7, <1>8, <1>9, <1>10 DEF IInv

-----------------------------------------------------------------------------
(* Steps of one session's opening, and steps that leave the sessions alone *)

\* A step of the opening that leaves the session being opened, or the end of
\* a transport.
LEMMA ProgressInv ==
  ASSUME IInv, OnlySession, NEW s \in Session, NEW state \in SessionState,
         session' = [session EXCEPT ![s] = state],
         session[s] # NotOpened,
         \/ state.stage = session[s].stage
         \/ state.stage \in Opening /\ session[s].stage \in Opening,
         state.credential = session[s].credential,
         session[s].authenticated => state.authenticated,
         state.stage = "renewing" => state.authenticated,
         state.transport = "open" =>
           session[s].transport = "open" \/ state.stage \in Opening
  PROVE  IInv'
<1>0. TypeOK /\ SessionsAreSound /\ CurrentIsSound /\ CallsAreSound /\ ShownIsSound
  BY DEF IInv
<1>1. session'[s] = state /\ \A x \in Session : x # s => session'[x] = session[x]
  BY <1>0 DEF TypeOK
<1>2. UNCHANGED <<closed, pairingStarted, rpcSession, connection, late_failure,
                  daemonInfo, opened, initial, refresh, tool, request, completion,
                  stored, machine, issued, accepted>>
  BY DEF OnlySession, flags, shown, calls, pairing, store, daemon
<1>3. TypeOK'
  BY <1>0, <1>2 DEF TypeOK
<1>4. SessionsAreSound'
  <2>1. ~(s > opened)
    BY <1>0 DEF SessionsAreSound
  <2>2. "none" \notin Opening /\ "failed" \notin Opening /\ "open" \notin Opening
    BY DEF Opening
  <2> QED BY <1>0, <1>1, <1>2, <2>1, <2>2 DEF SessionsAreSound
<1>5. CurrentIsSound'
  <2> SUFFICES ASSUME rpcSession # NoSession PROVE CurrentIsSound'
    BY <1>2 DEF CurrentIsSound
  <2>1. /\ rpcSession \in Session /\ ~closed /\ rpcSession <= opened
        /\ HasCredentials' = HasCredentials
    BY <1>0, <1>2 DEF CurrentIsSound, TypeOK, HasCredentials
  <2>2. "failed" \notin Opening /\ "open" \notin Opening
    BY DEF Opening
  <2>3. /\ At(rpcSession, "open") \/ session[rpcSession].stage \in Opening
        /\ HasCredentials /\ session[rpcSession].stage \in Opening =>
             session[rpcSession].credential # NotPaired
        /\ HasCredentials /\ At(rpcSession, "open") => session[rpcSession].authenticated
        /\ At(rpcSession, "open") /\ connection # "reachable" => late_failure
    BY <1>0 DEF CurrentIsSound
  <2>4. /\ session'[rpcSession].credential = session[rpcSession].credential
        /\ session[rpcSession].authenticated => session'[rpcSession].authenticated
        /\ session'[rpcSession].stage = "open" <=> session[rpcSession].stage = "open"
        /\ session'[rpcSession].stage \in Opening <=> session[rpcSession].stage \in Opening
    BY <1>1, <2>1, <2>2
  <2> QED BY <1>2, <2>1, <2>3, <2>4 DEF CurrentIsSound, At
<1>6. CallsAreSound'
  <2>1. \A x \in Session : session[x].stage = "open" => session'[x].stage = "open"
    BY <1>1 DEF Opening
  <2>2. \A x \in Session : session[x].stage \in Opening =>
          session'[x].stage \in Opening /\ session'[x].credential = session[x].credential
    BY <1>1
  <2> QED BY <1>0, <1>2, <2>1, <2>2, OnTypes DEF CallsAreSound, At
<1>7. ShownIsSound'
  BY <1>0, <1>2 DEF ShownIsSound
<1> QED BY <1>3, <1>4, <1>5, <1>6, <1>7 DEF IInv

\* Steps that change only requests and credentials: an answer that arrives
\* changes neither session nor tool.
LEMMA KeepInv ==
  ASSUME IInv, TypeOK',
         UNCHANGED <<session, rpcSession, opened, closed, connection, late_failure,
                     initial, tool>>,
         HasCredentials' /\ rpcSession # NoSession =>
           HasCredentials \/ (At(rpcSession, "open") /\ session[rpcSession].authenticated),
         stored' => stored,
         \A x \in Session : refresh'[x] = refresh[x] \/ refresh'[x].at # "sent",
         completion' = completion \/ completion'.at \notin {"sent", "auth"}
           \/ session[completion'.on].stage = "open",
         \/ daemonInfo' = daemonInfo
         \/ daemonInfo'.phase # "ready"
         \/ daemonInfo'.of = rpcSession /\ rpcSession \in Session
  PROVE  IInv'
<1>1. SessionsAreSound'
  BY DEF IInv, SessionsAreSound
<1>2. CurrentIsSound'
  <2> SUFFICES ASSUME rpcSession # NoSession PROVE CurrentIsSound'
    BY DEF CurrentIsSound
  <2>1. "open" \notin Opening
    BY DEF Opening
  <2> QED BY <2>1 DEF IInv, CurrentIsSound, At
<1>3. CallsAreSound'
  BY DEF IInv, CallsAreSound, At
<1>4. ShownIsSound'
  BY DEF IInv, ShownIsSound
<1> QED BY <1>1, <1>2, <1>3, <1>4 DEF IInv

\* A transport on which a request is answered is the current session's.
LEMMA OpenIsCurrent ==
  ASSUME IInv, NEW s \in Session, session[s].transport = "open", session[s].stage = "open"
  PROVE  rpcSession = s
  BY DEF IInv, SessionsAreSound, Opening

\* The steps of opening a session keep the invariant.
LEMMA OpenStepInv ==
  ASSUME IInv, NEW s \in Session, OpenStep(s)
  PROVE  IInv'
<1>0. session[s] \in SessionState /\ session \in Table
  BY DEF IInv, TypeOK, Table
<1>1. session[s].stage \in Opening /\ session[s] # NotOpened
  BY NotOpenedFacts DEF OpenStep, Connected, ConnectFails, Authenticated,
     AuthenticateRefused, AuthenticateFails, Renewed, At, Opening
<1>2. CASE Connected(s)
  <2>1. PICK state : state = [session[s] EXCEPT !.transport = "open"]
    OBVIOUS
  <2>2. /\ state \in SessionState /\ state.stage = "connecting"
        /\ state.credential = session[s].credential
        /\ state.authenticated = session[s].authenticated
    BY <1>0, <1>2, <2>1 DEF SessionState, Connected, At
  <2>3. PICK opening : opening = [session EXCEPT ![s] = state]
    OBVIOUS
  <2>4. /\ opening \in Table /\ opening[s] = state
        /\ \A x \in Session : x # s => opening[x] = session[x]
    BY <1>0, <2>2, <2>3 DEF Table
  <2>5. [session EXCEPT ![s].transport = "open"] = opening
    BY <2>1, <2>3
  <2>6. CASE session[s].credential = NotPaired /\ AfterOpen(s, opening)
    BY <1>1, <1>2, <2>2, <2>4, <2>6, AfterOpenInv DEF Connected
  <2>7. CASE session' = [opening EXCEPT ![s].stage = "authenticating"] /\ OnlySession
    <3>1. PICK next : next = [state EXCEPT !.stage = "authenticating"]
      OBVIOUS
    <3>2. /\ next \in SessionState /\ next.stage = "authenticating"
          /\ next.credential = session[s].credential
          /\ next.authenticated = session[s].authenticated
      BY <2>2, <3>1 DEF SessionState, Opening
    <3>3. session' = [session EXCEPT ![s] = next]
      BY <1>0, <2>3, <2>4, <2>7, <3>1 DEF Table
    <3>4. next.stage \in Opening /\ next.stage # "renewing"
      BY <3>2 DEF Opening
    <3> QED BY <1>1, <2>7, <3>2, <3>3, <3>4, ProgressInv
  <2> QED BY <1>2, <2>5, <2>6, <2>7 DEF Connected
<1>3. CASE ConnectFails(s) \/ AuthenticateRefused(s) \/ AuthenticateFails(s)
  BY <1>1, <1>3, AfterFailureInv DEF ConnectFails, AuthenticateRefused, AuthenticateFails
<1>4. CASE Authenticated(s)
  <2>1. PICK state : state = [session[s] EXCEPT !.authenticated = TRUE]
    OBVIOUS
  <2>2. /\ state \in SessionState /\ state.stage = "authenticating"
        /\ state.credential = session[s].credential /\ state.authenticated
        /\ state.transport = session[s].transport
    BY <1>0, <1>4, <2>1 DEF SessionState, Authenticated, At
  <2>3. PICK opening : opening = [session EXCEPT ![s] = state]
    OBVIOUS
  <2>4. /\ opening \in Table /\ opening[s] = state
        /\ \A x \in Session : x # s => opening[x] = session[x]
    BY <1>0, <2>2, <2>3 DEF Table
  <2>5. [session EXCEPT ![s].authenticated = TRUE] = opening
    BY <2>1, <2>3
  <2>6. CASE AfterOpen(s, opening)
    BY <1>1, <1>4, <2>2, <2>4, <2>6, AfterOpenInv DEF Authenticated
  <2>7. CASE session' = [opening EXCEPT ![s].stage = "renewing"] /\ OnlySession
    <3>1. PICK next : next = [state EXCEPT !.stage = "renewing"]
      OBVIOUS
    <3>2. /\ next \in SessionState /\ next.stage = "renewing"
          /\ next.credential = session[s].credential /\ next.authenticated
      BY <2>2, <3>1 DEF SessionState, Opening
    <3>3. session' = [session EXCEPT ![s] = next]
      BY <1>0, <2>3, <2>4, <2>7, <3>1 DEF Table
    <3>4. next.stage \in Opening
      BY <3>2 DEF Opening
    <3> QED BY <1>1, <2>7, <3>2, <3>3, <3>4, ProgressInv
  <2> QED BY <1>4, <2>5, <2>6, <2>7 DEF Authenticated
<1>5. CASE Renewed(s)
  <2>1. session[s].authenticated
    BY <1>5 DEF IInv, SessionsAreSound, Renewed, At
  <2> QED BY <1>0, <1>1, <1>5, <2>1, AfterOpenInv, AfterFailureInv DEF Renewed, MayOpen
<1> QED BY <1>2, <1>3, <1>4, <1>5 DEF OpenStep

\* A transport may close at any time.
LEMMA TransportInv ==
  ASSUME IInv, NEW s \in Session, TransportCloses(s)
  PROVE  IInv'
<1>1. PICK state : state = [session[s] EXCEPT !.transport = "closed"]
  OBVIOUS
<1>2. session[s] \in SessionState
  BY DEF IInv, TypeOK
<1>3. /\ state \in SessionState /\ state.stage = session[s].stage
      /\ state.credential = session[s].credential
      /\ state.authenticated = session[s].authenticated
      /\ state.transport = "closed"
  BY <1>1, <1>2 DEF SessionState
<1>4. session' = [session EXCEPT ![s] = state] /\ OnlySession /\ session[s] # NotOpened
  BY <1>1, NotOpenedFacts DEF TransportCloses
<1>5. session[s].stage = "renewing" => session[s].authenticated
  BY DEF IInv, SessionsAreSound
<1> QED BY <1>3, <1>4, <1>5, ProgressInv

\* The controller learns of it, and drops a current session.
LEMMA TransportClosedInv ==
  ASSUME IInv, NEW s \in Session, handleTransportClosed(s)
  PROVE  IInv'
<1>1. /\ rpcSession' = NoSession /\ connection' = "offline" /\ daemonInfo' = Info("idle")
      /\ late_failure' = FALSE
      /\ UNCHANGED <<closed, pairingStarted, opened, session, initial, refresh, tool,
                     request, completion, stored, machine, issued, accepted>>
      /\ rpcSession = s /\ session[s].transport = "closed"
  BY DEF handleTransportClosed, isControllerRpcSession, setConnectionOffline, flags,
         calls, pairing, store, daemon
<1>2. TypeOK'
  BY <1>1, InfoFacts DEF IInv, TypeOK
<1>3. SessionsAreSound'
  BY <1>1 DEF IInv, SessionsAreSound
<1>4. CurrentIsSound' /\ CallsAreSound'
  BY <1>1 DEF IInv, CurrentIsSound, CallsAreSound, At
<1>5. ShownIsSound'
  BY <1>1, InfoFacts DEF ShownIsSound
<1> QED BY <1>2, <1>3, <1>4, <1>5 DEF IInv

\* Daemon information is taken from the current session only.
LEMMA InfoStepInv ==
  ASSUME IInv, NEW x \in Session, InfoStep(x)
  PROVE  IInv'
<1>1. /\ refresh[x].at = "sent" /\ refresh' = [refresh EXCEPT ![x] = Idle]
      /\ UNCHANGED <<closed, pairingStarted, rpcSession, connection, late_failure,
                     opened, session, initial, tool, request, completion, stored,
                     machine, issued, accepted>>
      /\ \/ daemonInfo' = daemonInfo
         \/ daemonInfo' = Info("error")
         \/ /\ session[refresh[x].on].transport = "open"
            /\ daemonInfo' = [phase |-> "ready", of |-> refresh[x].on]
  BY DEF InfoStep, InfoAnswered, InfoFails, InfoCall, flags, sessions, pairing, store,
         daemon
<1>2. refresh[x].on \in Session /\ session[refresh[x].on].stage = "open"
  BY <1>1, OnTypes DEF IInv, CallsAreSound, At
<1>3. session[refresh[x].on].transport = "open" => rpcSession = refresh[x].on
  BY <1>2, OpenIsCurrent
<1>4. /\ TypeOK'
      /\ \A y \in Session : refresh'[y] = refresh[y] \/ refresh'[y].at # "sent"
  BY <1>1, <1>2, InfoFacts, CallFacts DEF IInv, TypeOK
<1>5. \/ daemonInfo' = daemonInfo
      \/ daemonInfo'.phase # "ready"
      \/ daemonInfo'.of = rpcSession /\ rpcSession \in Session
  BY <1>1, <1>2, <1>3, InfoFacts
<1> QED BY <1>1, <1>4, <1>5, KeepInv DEF HasCredentials

\* A caller takes the current session, or opens one.
LEMMA GotInv ==
  ASSUME IInv, ~closed, getRpcSession(session), pairingStarted' \in BOOLEAN,
         UNCHANGED <<closed, shown, initial, refresh, completion, store, daemon>>,
         request' \in [Request -> Call],
         tool' \in [Tool -> Session \cup {NoSession}],
         \A t \in Tool : \/ tool'[t] = tool[t]
                         \/ /\ tool'[t] = Got /\ session'[Got].stage \in Opening
                            /\ HasCredentials
  PROVE  IInv'
<1>0. TypeOK /\ SessionsAreSound /\ CurrentIsSound /\ CallsAreSound /\ ShownIsSound
  BY DEF IInv
<1>1. /\ rpcSession <= opened /\ opened \in Nat /\ opened + 1 > opened
      /\ rpcSession \in Session \cup {NoSession}
  BY <1>0, BoundAssumption DEF TypeOK, CurrentIsSound, NoSession
<1>2. UNCHANGED <<closed, connection, late_failure, daemonInfo, initial, refresh,
                  completion, stored, machine, issued, accepted>>
  BY DEF shown, store, daemon
<1>3. /\ Got \in Session /\ rpcSession' = Got
      /\ opened' \in 0 .. MaxSessions /\ session' \in Table
      /\ rpcSession # NoSession =>
           Got = rpcSession /\ opened' = opened /\ session' = session
      /\ rpcSession = NoSession =>
           /\ Got = opened + 1 /\ opened' = opened + 1
           /\ session'[Got] = Connecting
           /\ \A x \in Session : x # Got => session'[x] = session[x]
  <2>1. session \in Table
    BY <1>0 DEF TypeOK, Table
  <2> QED BY <1>0, <1>1, <2>1, GotFacts
<1>4. HasCredentials' = HasCredentials
  BY <1>2 DEF HasCredentials
<1>5. TypeOK'
  BY <1>0, <1>2, <1>3 DEF TypeOK, Table
<1>6. CASE rpcSession # NoSession
  <2>1. UNCHANGED <<session, rpcSession, opened>>
    BY <1>3, <1>6
  <2>2. CASE UNCHANGED tool
    BY <1>2, <1>4, <1>5, <2>1, <2>2, KeepInv
  <2>3. SessionsAreSound' /\ ShownIsSound'
    BY <1>0, <1>2, <2>1 DEF SessionsAreSound, ShownIsSound
  <2>4. CurrentIsSound'
    BY <1>0, <1>2, <1>4, <2>1 DEF CurrentIsSound, At
  <2>5. CallsAreSound'
    <3>1. HasCredentials /\ session[rpcSession].stage \in Opening =>
            session[rpcSession].credential # NotPaired
      BY <1>0, <1>6 DEF CurrentIsSound
    <3>2. Got = rpcSession
      BY <1>3, <1>6
    <3> QED BY <1>0, <1>2, <2>1, <3>1, <3>2 DEF CallsAreSound, At
  <2> QED BY <1>5, <2>3, <2>4, <2>5 DEF IInv
<1>7. CASE rpcSession = NoSession
  <2>1. /\ Got = opened + 1 /\ opened' = opened + 1 /\ rpcSession' = opened + 1
        /\ opened + 1 \in Session
        /\ session'[opened + 1] = Connecting
        /\ \A x \in Session : x # opened + 1 => session'[x] = session[x]
    BY <1>3, <1>7
  <2>2. /\ session[opened + 1] = NotOpened
        /\ \A t \in Tool : tool[t] # opened + 1
        /\ \A x \in Session : refresh[x].at = "sent" => refresh[x].on # opened + 1
        /\ completion.at \in {"sent", "auth"} => completion.on # opened + 1
    BY <2>1, NewIsUnused
  <2>3. SessionsAreSound'
    <3> SUFFICES ASSUME NEW x \in Session
                 PROVE  /\ x > opened' => session'[x] = NotOpened
                        /\ session'[x].stage \in {"none", "failed"} => session'[x].transport # "open"
                        /\ session'[x].stage = "renewing" => session'[x].authenticated
                        /\ session'[x].stage = "open" /\ session'[x].credential # NotPaired =>
                             session'[x].authenticated
                        /\ session'[x].transport = "open" =>
                             rpcSession' = x \/ session'[x].stage \in Opening
      BY DEF SessionsAreSound
    <3>1. CASE x = opened + 1
      BY <1>0, <1>1, <2>1, <3>1, ConnectingFacts DEF Opening
    <3>2. CASE x # opened + 1
      <4>1. session'[x] = session[x] /\ rpcSession # x
        BY <1>7, <2>1, <3>2, SessionFacts
      <4>2. x > opened' => x > opened
        BY <1>1, <2>1, SessionFacts
      <4> QED BY <1>0, <4>1, <4>2 DEF SessionsAreSound
    <3> QED BY <3>1, <3>2
  <2>4. CurrentIsSound'
    <3>1. ~closed' /\ rpcSession' <= opened'
      BY <1>1, <1>2, <2>1
    <3> QED BY <1>0, <1>4, <2>1, <3>1, ConnectingFacts
            DEF CurrentIsSound, At, Opening, HasCredentials
  <2>5. CallsAreSound'
    <3>1. ASSUME NEW t \in Tool, tool'[t] # NoSession
          PROVE  /\ ~closed' /\ session'[tool'[t]].stage \in Opening
                 /\ session'[tool'[t]].credential # NotPaired
      <4>1. CASE tool'[t] = tool[t]
        <5>1. tool[t] \in Session /\ session'[tool[t]] = session[tool[t]]
          BY <1>0, <2>1, <2>2, <3>1, <4>1 DEF TypeOK
        <5> QED BY <1>0, <1>2, <3>1, <4>1, <5>1 DEF CallsAreSound
      <4>2. CASE tool'[t] # tool[t]
        <5>1. tool'[t] = opened + 1 /\ HasCredentials
          BY <2>1, <4>2
        <5> QED BY <1>0, <1>2, <2>1, <5>1, ConnectingFacts DEF Opening, HasCredentials
      <4> QED BY <4>1, <4>2
    <3>2. /\ \A x \in Session : refresh[x].at = "sent" =>
                session'[refresh[x].on].stage = "open"
          /\ completion.at \in {"sent", "auth"} => session'[completion.on].stage = "open"
      BY <1>0, <2>1, <2>2, OnTypes DEF CallsAreSound, At
    <3> QED BY <1>2, <3>1, <3>2 DEF CallsAreSound, At
  <2>6. ShownIsSound'
    <3>1. daemonInfo.phase # "ready"
      BY <1>0, <1>7, SessionFacts DEF ShownIsSound
    <3>2. rpcSession' # NoSession
      BY <2>1, SessionFacts
    <3> QED BY <1>2, <3>1, <3>2 DEF ShownIsSound
  <2> QED BY <1>5, <2>3, <2>4, <2>5, <2>6 DEF IInv
<1> QED BY <1>6, <1>7

\* A tool that asks for a transport waits for the current session.
LEMMA ToolInv ==
  ASSUME IInv, NEW t \in Tool, webTransport(t)
  PROVE  IInv'
<1>1. /\ ~closed /\ HasCredentials /\ getRpcSession(session)
      /\ session'[Got].stage \in Opening /\ tool' = [tool EXCEPT ![t] = Got]
      /\ UNCHANGED <<flags, shown, initial, refresh, pairing, store, daemon>>
  BY DEF webTransport
<1>2. Got \in Session
  BY <1>1 DEF getRpcSession
<1>3. tool' \in [Tool -> Session \cup {NoSession}]
      /\ \A u \in Tool : tool'[u] = tool[u] \/ tool'[u] = Got
  BY <1>1, <1>2 DEF IInv, TypeOK
<1>4. request' \in [Request -> Call] /\ pairingStarted' \in BOOLEAN
      /\ UNCHANGED <<closed, completion>>
  BY <1>1 DEF IInv, TypeOK, flags, pairing
<1> QED BY <1>1, <1>3, <1>4, GotInv

\* A pairing starts with a request on an open session.
LEMMA StartInv ==
  ASSUME IInv, NEW q \in Request, startPairingSession(q)
  PROVE  IInv'
<1>1. /\ ~closed /\ getRpcSession(session) /\ pairingStarted' = FALSE
      /\ request' = [request EXCEPT ![q] =
             IF session[Got].stage = "open" THEN Sent(Got) ELSE Awaits(Got)]
      /\ UNCHANGED <<closed, shown, initial, refresh, tool, completion, store, daemon>>
  BY DEF startPairingSession
<1>2. Got \in Session
  BY <1>1 DEF getRpcSession
<1>3. request' \in [Request -> Call] /\ tool' \in [Tool -> Session \cup {NoSession}]
  BY <1>1, <1>2, CallFacts DEF IInv, TypeOK
<1> QED BY <1>1, <1>3, GotInv

-----------------------------------------------------------------------------
(* Pairing *)

LEMMA RequestInv ==
  ASSUME IInv, NEW q \in Request, StartAnswered(q) \/ StartFails(q)
  PROVE  IInv'
<1>1. /\ request' = [request EXCEPT ![q] = Idle] /\ pairingStarted' \in BOOLEAN
      /\ UNCHANGED <<closed, sessions, shown, initial, refresh, tool, completion,
                     store, daemon>>
  BY DEF StartAnswered, StartFails, RequestEnds, IInv, TypeOK
<1>2. UNCHANGED <<session, rpcSession, opened, connection, late_failure, daemonInfo,
                  stored, machine, issued, accepted>>
  BY <1>1 DEF sessions, shown, store, daemon
<1>3. TypeOK'
  BY <1>1, <1>2, CallFacts DEF IInv, TypeOK
<1> QED BY <1>1, <1>2, <1>3, KeepInv DEF HasCredentials

\* It is completed with one, or fails.
LEMMA CompletionInv ==
  ASSUME IInv, completePairingSession \/ CompleteFails
  PROVE  IInv'
<1>1. UNCHANGED <<flags, sessions, shown, initial, refresh, tool, request, store, daemon>>
  BY DEF completePairingSession, CompleteFails
<1>2. UNCHANGED <<closed, pairingStarted, session, rpcSession, opened, connection,
                  late_failure, daemonInfo, stored, machine, issued, accepted>>
  BY <1>1 DEF flags, sessions, shown, store, daemon
<1>3. completion' \in Call
      /\ (completion'.at \in {"sent", "auth"} => session[completion'.on].stage = "open")
  <2>1. CASE completePairingSession
    <3>1. rpcSession \in Session
      BY <2>1 DEF completePairingSession, IInv, TypeOK
    <3> QED BY <2>1, <3>1, CallFacts DEF completePairingSession
  <2>2. CASE CompleteFails
    BY <2>2, CallFacts DEF CompleteFails
  <2> QED BY <2>1, <2>2
<1>4. TypeOK'
  BY <1>1, <1>2, <1>3 DEF IInv, TypeOK
<1> QED BY <1>1, <1>2, <1>3, <1>4, KeepInv DEF HasCredentials

\* The answer has the session authenticate itself next.
LEMMA CompleteAnsweredInv ==
  ASSUME IInv, CompleteAnswered
  PROVE  IInv'
<1>1. /\ completion.at = "sent" /\ session[completion.on].transport = "open"
      /\ issued < MaxCredentials /\ issued' = issued + 1 /\ accepted' = issued + 1
      /\ UNCHANGED <<closed, pairingStarted, session, rpcSession, opened, connection,
                     late_failure, daemonInfo, initial, refresh, tool, request,
                     stored>>
  BY DEF CompleteAnswered, flags, sessions, shown
<1>2. completion.on \in Session /\ session[completion.on].stage = "open"
  BY <1>1, OnTypes DEF IInv, CallsAreSound, At
<1>3. rpcSession \in Session /\ session[rpcSession].stage = "open"
  BY <1>1, <1>2, OpenIsCurrent
<1>4. issued' \in 0 .. MaxCredentials /\ issued' \in Credential
  BY <1>1, BoundAssumption DEF IInv, TypeOK, Credential
<1>5. \/ /\ completion' = Authenticates(rpcSession) /\ machine' = machine
      \/ /\ session[rpcSession].authenticated /\ completion' = Idle
         /\ machine' \in {machine, issued'}
  BY DEF CompleteAnswered, NeedsAuthentication, setMachineCredentials
<1>6. /\ completion' \in Call \cup [at : {"auth"}, on : Session]
      /\ completion'.at \in {"sent", "auth"} => session[completion'.on].stage = "open"
  BY <1>3, <1>5, CallFacts DEF Authenticates
<1>7. TypeOK'
  BY <1>1, <1>4, <1>5, <1>6 DEF IInv, TypeOK
<1>8. HasCredentials' =>
        HasCredentials \/ (At(rpcSession, "open") /\ session[rpcSession].authenticated)
  BY <1>1, <1>3, <1>5 DEF HasCredentials, At
<1> QED BY <1>1, <1>6, <1>7, <1>8, KeepInv

\* The session is the current one, and open: it may be given credentials.
LEMMA PairedInv ==
  ASSUME IInv, PairedAuthenticated
  PROVE  IInv'
<1>0. TypeOK /\ SessionsAreSound /\ CurrentIsSound /\ CallsAreSound /\ ShownIsSound
  BY DEF IInv
<1>1. PICK s : s = completion.on
  OBVIOUS
<1>2. /\ completion.at = "auth" /\ session[s].transport = "open" /\ accepted = issued
      /\ session' = [session EXCEPT ![s].authenticated = TRUE]
      /\ completion' = Idle
      /\ UNCHANGED <<closed, pairingStarted, rpcSession, connection, late_failure,
                     daemonInfo, opened, initial, refresh, tool, request, stored,
                     issued, accepted>>
      /\ machine' \in {machine, issued'}
  BY <1>1 DEF PairedAuthenticated, flags, shown, daemon, setMachineCredentials
<1>3. s \in Session /\ session[s].stage = "open"
  BY <1>0, <1>1, <1>2, OnTypes DEF CallsAreSound, At
<1>4. rpcSession = s /\ s # NoSession
  BY <1>2, <1>3, OpenIsCurrent, SessionFacts
<1>5. PICK state : state = [session[s] EXCEPT !.authenticated = TRUE]
  OBVIOUS
<1>6. /\ state \in SessionState /\ state.stage = "open" /\ state.authenticated
      /\ state.transport = session[s].transport
  BY <1>0, <1>3, <1>5 DEF TypeOK, SessionState
<1>7. /\ session' = [session EXCEPT ![s] = state]
      /\ session' \in Table /\ session'[s] = state
      /\ \A x \in Session : x # s => session'[x] = session[x]
  BY <1>0, <1>2, <1>3, <1>5, <1>6 DEF TypeOK, Table
<1>8. TypeOK'
  <2>1. issued' \in Credential \cup {NotPaired}
    BY <1>0, <1>2 DEF TypeOK
  <2> QED BY <1>0, <1>2, <1>7, <2>1, CallFacts DEF TypeOK, Table
<1>9. SessionsAreSound'
  <2>1. ~(s > opened)
    BY <1>0, <1>3, NotOpenedFacts DEF SessionsAreSound
  <2> QED BY <1>0, <1>2, <1>4, <1>6, <1>7, <2>1 DEF SessionsAreSound
<1>10. CurrentIsSound'
  <2>1. connection # "reachable" => late_failure
    BY <1>0, <1>3, <1>4 DEF CurrentIsSound, At
  <2> QED BY <1>0, <1>2, <1>4, <1>6, <1>7, <2>1 DEF CurrentIsSound, At, Opening
<1>11. CallsAreSound'
  <2>1. \A x \in Session : session[x].stage = "open" => session'[x].stage = "open"
    BY <1>6, <1>7
  <2>2. \A t \in Tool : tool[t] # NoSession => tool[t] \in Session /\ tool[t] # s
    BY <1>0, <1>3, OnTypes DEF CallsAreSound, Opening
  <2> QED BY <1>0, <1>2, <1>7, <2>1, <2>2, OnTypes, CallFacts DEF CallsAreSound, At
<1>12. ShownIsSound'
  BY <1>0, <1>2 DEF ShownIsSound
<1> QED BY <1>8, <1>9, <1>10, <1>11, <1>12 DEF IInv

-----------------------------------------------------------------------------
(* The user *)

\* What is left when the current session is dropped.
LEMMA DropFacts ==
  ASSUME IInv
  PROVE  /\ Dropped(session) \in Table
         /\ \A x \in Session :
              /\ x > opened => Dropped(session)[x] = NotOpened
              /\ Dropped(session)[x].stage = session[x].stage
              /\ Dropped(session)[x].credential = session[x].credential
              /\ Dropped(session)[x].authenticated = session[x].authenticated
              /\ session[x].transport # "open" => Dropped(session)[x].transport # "open"
              /\ Dropped(session)[x].transport = "open" => session[x].stage \in Opening
<1>0. TypeOK /\ SessionsAreSound /\ CurrentIsSound
  BY DEF IInv
<1>1. session \in Table
  BY <1>0 DEF TypeOK, Table
<1>2. /\ Dropped(session) \in Table
      /\ \A x \in Session :
           /\ Dropped(session)[x].stage = session[x].stage
           /\ Dropped(session)[x].credential = session[x].credential
           /\ Dropped(session)[x].authenticated = session[x].authenticated
           /\ Dropped(session)[x].transport \in {session[x].transport, "closed"}
           /\ x # rpcSession => Dropped(session)[x] = session[x]
           /\ x = rpcSession /\ session[x].stage = "open" =>
                Dropped(session)[x].transport = "closed"
  BY <1>0, <1>1, DroppedFacts
<1> SUFFICES ASSUME NEW x \in Session
             PROVE  /\ x > opened => Dropped(session)[x] = NotOpened
                    /\ session[x].transport # "open" => Dropped(session)[x].transport # "open"
                    /\ Dropped(session)[x].transport = "open" => session[x].stage \in Opening
  BY <1>2
<1>3. x > opened => x # rpcSession /\ session[x] = NotOpened
  <2>1. rpcSession # NoSession => rpcSession <= opened
    BY <1>0 DEF CurrentIsSound
  <2>2. opened \in Int /\ rpcSession \in Session \cup {NoSession}
    BY <1>0 DEF TypeOK
  <2> QED BY <1>0, <2>1, <2>2, SessionFacts DEF SessionsAreSound
<1>4. x = rpcSession => session[x].stage \in Opening \cup {"open"}
  BY <1>0, SessionFacts DEF CurrentIsSound, At
<1> QED BY <1>0, <1>2, <1>3, <1>4 DEF SessionsAreSound

\* Connecting again replaces the current session.
LEMMA ReconnectInv ==
  ASSUME IInv, reconnect
  PROVE  IInv'
<1>0. TypeOK /\ SessionsAreSound /\ CurrentIsSound /\ CallsAreSound /\ ShownIsSound
  BY DEF IInv
<1>1. PICK new : new = opened + 1
  OBVIOUS
<1>2. /\ ~closed /\ opened < MaxSessions
      /\ pairingStarted' = FALSE /\ opened' = new /\ rpcSession' = new
      /\ initial' = initial \cup {new}
      /\ session' = [Dropped(session) EXCEPT ![new] = Connecting]
      /\ connection' = "offline" /\ late_failure' = FALSE /\ daemonInfo' = Info("idle")
      /\ UNCHANGED <<closed, refresh, tool, request, completion, stored, machine,
                     issued, accepted>>
  BY <1>1 DEF reconnect, setConnectionOffline, pairing, store, daemon
<1>3. new \in Session /\ new \in 0 .. MaxSessions /\ new > opened /\ opened \in Nat
  BY <1>0, <1>1, <1>2, BoundAssumption DEF TypeOK, Session
<1>4. /\ session' \in Table /\ session'[new] = Connecting
      /\ \A x \in Session : x # new =>
           /\ x > opened => session'[x] = NotOpened
           /\ session'[x].stage = session[x].stage
           /\ session'[x].credential = session[x].credential
           /\ session'[x].authenticated = session[x].authenticated
           /\ session[x].transport # "open" => session'[x].transport # "open"
           /\ session'[x].transport = "open" => session[x].stage \in Opening
  BY <1>0, <1>2, <1>3, DropFacts, ConnectingFacts DEF Table
<1>5. /\ session[new] = NotOpened
      /\ \A t \in Tool : tool[t] # new
      /\ \A x \in Session : refresh[x].at = "sent" => refresh[x].on # new
      /\ completion.at \in {"sent", "auth"} => completion.on # new
  BY <1>1, <1>3, NewIsUnused
<1>6. TypeOK'
  BY <1>0, <1>2, <1>3, <1>4, InfoFacts DEF TypeOK, Table
<1>7. SessionsAreSound'
  <2> SUFFICES ASSUME NEW x \in Session
               PROVE  /\ x > opened' => session'[x] = NotOpened
                      /\ session'[x].stage \in {"none", "failed"} => session'[x].transport # "open"
                      /\ session'[x].stage = "renewing" => session'[x].authenticated
                      /\ session'[x].stage = "open" /\ session'[x].credential # NotPaired =>
                           session'[x].authenticated
                      /\ session'[x].transport = "open" =>
                           rpcSession' = x \/ session'[x].stage \in Opening
    BY DEF SessionsAreSound
  <2>1. CASE x = new
    BY <1>0, <1>2, <1>3, <1>4, <2>1, ConnectingFacts DEF Opening
  <2>2. CASE x # new
    <3>1. x > opened' => x > opened
      BY <1>2, <1>3, SessionFacts
    <3> QED BY <1>0, <1>4, <2>2, <3>1 DEF SessionsAreSound, Opening
  <2> QED BY <2>1, <2>2
<1>8. CurrentIsSound'
  BY <1>0, <1>2, <1>3, <1>4, ConnectingFacts DEF CurrentIsSound, At, Opening, HasCredentials
<1>9. CallsAreSound'
  BY <1>0, <1>2, <1>4, <1>5, OnTypes DEF CallsAreSound, At
<1>10. ShownIsSound'
  BY <1>2, <1>3, InfoFacts DEF ShownIsSound
<1> QED BY <1>6, <1>7, <1>8, <1>9, <1>10 DEF IInv

\* Closing the controller drops it.
LEMMA CloseInv ==
  ASSUME IInv, close
  PROVE  IInv'
<1>0. TypeOK /\ SessionsAreSound /\ CurrentIsSound /\ CallsAreSound /\ ShownIsSound
  BY DEF IInv
<1>1. /\ closed' = TRUE /\ pairingStarted' = FALSE /\ rpcSession' = NoSession
      /\ session' = Dropped(session) /\ tool' = [t \in Tool |-> NoSession]
      /\ UNCHANGED <<connection, late_failure, daemonInfo, opened, initial, refresh,
                     request, completion, stored, machine, issued, accepted>>
  BY DEF close, shown, pairing, store, daemon
<1>2. /\ session' \in Table
      /\ \A x \in Session :
           /\ x > opened => session'[x] = NotOpened
           /\ session'[x].stage = session[x].stage
           /\ session'[x].credential = session[x].credential
           /\ session'[x].authenticated = session[x].authenticated
           /\ session[x].transport # "open" => session'[x].transport # "open"
           /\ session'[x].transport = "open" => session[x].stage \in Opening
  BY <1>1, DropFacts
<1>3. TypeOK'
  BY <1>0, <1>1, <1>2 DEF TypeOK, Table
<1>4. SessionsAreSound'
  BY <1>0, <1>1, <1>2 DEF SessionsAreSound
<1>5. CurrentIsSound' /\ CallsAreSound'
  BY <1>0, <1>1, <1>2, OnTypes DEF CurrentIsSound, CallsAreSound, At
<1>6. ShownIsSound'
  BY <1>0, <1>1 DEF ShownIsSound
<1> QED BY <1>3, <1>4, <1>5, <1>6 DEF IInv

\* A machine that is deleted, or a credential that ends, opens nothing.
LEMMA OutsideInv ==
  ASSUME IInv, DeleteMachine \/ CredentialEnds \/ UNCHANGED vars
  PROVE  IInv'
<1>1. /\ UNCHANGED <<flags, sessions, shown, calls, machine, issued>>
      /\ accepted' \in {accepted, NotPaired}
      /\ stored' \in {stored, FALSE}
  <2>1. CASE DeleteMachine
    BY <2>1 DEF DeleteMachine, daemon
  <2>2. CASE CredentialEnds
    BY <2>2 DEF CredentialEnds, store
  <2>3. CASE UNCHANGED vars
    BY <2>3 DEF vars, store, daemon
  <2> QED BY <2>1, <2>2, <2>3
<1>0. stored' \in BOOLEAN /\ (stored' => stored)
  <2>1. stored \in BOOLEAN
    BY DEF IInv, TypeOK
  <2>2. CASE stored' = stored
    BY <2>1, <2>2
  <2>3. CASE stored' = FALSE
    BY <2>3
  <2> QED BY <1>1, <2>2, <2>3
<1>2. UNCHANGED <<closed, pairingStarted, session, rpcSession, opened, connection,
                  late_failure, daemonInfo, initial, refresh, tool, request,
                  completion>>
  BY <1>1 DEF flags, sessions, shown, calls, pairing
<1>3. TypeOK'
  BY <1>0, <1>1, <1>2 DEF IInv, TypeOK
<1> QED BY <1>0, <1>1, <1>2, <1>3, KeepInv DEF HasCredentials

-----------------------------------------------------------------------------
(* Theorems *)

LEMMA NextInv == IInv /\ [Next]_vars => IInv'
  BY OpenStepInv, InfoStepInv, TransportInv, TransportClosedInv, ToolInv, StartInv,
     RequestInv, CompletionInv, CompleteAnsweredInv, PairedInv, ReconnectInv, CloseInv,
     OutsideInv
  DEF Next, PairStep

\* So the invariant always holds.
LEMMA Invariance == Spec => []IInv
  BY InitInv, NextInv, PTL DEF Spec

\* Every variable stays in its type.
THEOREM TypeCorrect == Spec => []TypeOK
<1>1. IInv => TypeOK
  BY DEF IInv
<1> QED BY <1>1, Invariance, PTL

\* Every open transport is the current session's or that of an opening.
THEOREM NoTransportLeft == Spec => []OneTransport
<1>1. IInv => OneTransport
  BY DEF IInv, SessionsAreSound, OneTransport
<1> QED BY <1>1, Invariance, PTL

\* The daemon information shown was fetched on the current session.
THEOREM InfoIsOfCurrentSession == Spec => []InfoIsCurrent
<1>1. IInv => InfoIsCurrent
  BY DEF IInv, ShownIsSound, InfoIsCurrent
<1> QED BY <1>1, Invariance, PTL

\* No tool of a paired machine is given a session that is not authenticated.
THEOREM ToolsAreAuthenticated == Spec => []SessionsMatchMachine
<1>1. IInv => SessionsMatchMachine
  BY SessionFacts DEF IInv, CurrentIsSound, CallsAreSound, SessionsMatchMachine
<1> QED BY <1>1, Invariance, PTL

\* The connection shown is that of the current session, but for the one case
\* that ConnectionMatchesSession names.
THEOREM ConnectionIsShown == Spec => []ConnectionMatchesSession
<1>1. IInv => ConnectionMatchesSession
  <2>1. ASSUME IInv, ~closed, Settled, rpcSession # NoSession, connection # "reachable"
        PROVE  late_failure
    <3>1. rpcSession \in Session /\ session[rpcSession].stage \notin Opening
      BY <2>1 DEF IInv, TypeOK, Settled
    <3> QED BY <2>1, <3>1 DEF IInv, CurrentIsSound
  <2> QED BY <2>1 DEF IInv, ShownIsSound, ConnectionMatchesSession
<1> QED BY <1>1, Invariance, PTL

\* A closed controller opens and shows nothing any more.
THEOREM ClosedStaysQuiet == Spec => ClosedIsQuiet
<1>1. ASSUME IInv, [Next]_vars, closed
      PROVE  UNCHANGED <<rpcSession, opened, shown>>
  <2>1. rpcSession = NoSession /\ \A t \in Tool : tool[t] = NoSession
    BY <1>1, ClosedFacts
  <2>2. CASE \E s \in Session : OpenStep(s)
    <3>1. PICK s \in Session, invalid \in BOOLEAN : AfterFailure(s, invalid)
      BY <1>1, <2>2 DEF OpenStep, Connected, ConnectFails, Authenticated,
         AuthenticateRefused, AuthenticateFails, Renewed, MayOpen
    <3>2. ~AwaitedByTool(s) /\ rpcSession # s
      BY <2>1, SessionFacts DEF AwaitedByTool
    <3> QED BY <1>1, <2>1, <3>1, <3>2 DEF AfterFailure, InfoAfterFailure, shown
  <2>3. CASE \E s \in Session : InfoStep(s)
    BY <1>1, <2>3 DEF InfoStep, InfoAnswered, InfoFails, InfoCall, sessions, shown
  <2>4. CASE \E s \in Session : TransportCloses(s) \/ handleTransportClosed(s)
    BY <1>1, <2>4 DEF TransportCloses, handleTransportClosed, isControllerRpcSession,
                      OnlySession
  <2>5. CASE PairStep
    BY <1>1, <2>1, <2>5 DEF PairStep, startPairingSession, StartAnswered, StartFails,
       RequestEnds, completePairingSession, CompleteAnswered, PairedAuthenticated,
       CompleteFails, sessions
  <2>6. CASE (\E t \in Tool : webTransport(t)) \/ reconnect \/ close
    BY <1>1, <2>6 DEF webTransport, reconnect, close
  <2>7. CASE DeleteMachine \/ CredentialEnds \/ UNCHANGED vars
    BY <2>7 DEF DeleteMachine, CredentialEnds, vars, sessions
  <2> QED BY <1>1, <2>2, <2>3, <2>4, <2>5, <2>6, <2>7 DEF Next
<1>2. IInv /\ [Next]_vars =>
        [closed => UNCHANGED <<rpcSession, opened, shown>>]_vars
  BY <1>1
<1> QED BY <1>2, Invariance, PTL DEF Spec, ClosedIsQuiet
=============================================================================
