----------------------------- MODULE RpcSession -----------------------------
(***************************************************************************)
(* The RPC session controller of one machine in the web client             *)
(* (createRpcSessionController in web/src/state/rpc-session.ts), with its  *)
(* callers: tools that ask for an authenticated transport, and the pairing *)
(* dialogue (machine-modal.ts).                                            *)
(*                                                                         *)
(* JavaScript runs to completion: an action is one event (an answer, a     *)
(* failure, a timeout, a click) with every promise continuation that runs  *)
(* before the next event.  What interleaves are the events that the        *)
(* continuations await.                                                    *)
(*                                                                         *)
(* The daemon is external: it answers requests on an open transport, or    *)
(* they fail.  It keeps a machine's client id when it issues a new secret, *)
(* so credentials differ in their secret only and are numbered as issued;  *)
(* it accepts the last one, until it expires.  The datagram pings and the  *)
(* timer that renews credentials are left out.                             *)
(***************************************************************************)
EXTENDS Integers

CONSTANTS
    Tool,           \* callers of webTransport that handle invalid credentials
    Request,        \* calls of startPairingSession that may be under way
    MaxSessions,    \* bound: transports opened
    MaxCredentials  \* bound: credentials issued

ASSUME BoundAssumption ==
    /\ MaxSessions \in Nat \ {0}
    /\ MaxCredentials \in Nat \ {0}

Session == 1 .. MaxSessions
NoSession == 0      \* rpcSession is undefined
Credential == 1 .. MaxCredentials
NotPaired == 0      \* the machine has no client secret

VARIABLES
    closed,
    pairingStarted,
    rpcSession,     \* the session whose promise rpcSession holds
    connection,     \* the phase shown
    late_failure,   \* history: offline is shown for an opening that failed
                    \* once it was no longer the current session
    daemonInfo,     \* its phase, and the session that a ready one came from
    opened,         \* sessions opened so far
    session,        \* each call of openRpcSession and its transport
    initial,        \* sessions that openInitialSession awaits
    refresh,        \* the refreshDaemonInfo call each session's opening makes
    tool,           \* the session that each tool's webTransport call awaits
    request,        \* startPairingSession calls
    completion,     \* the completePairingSession call (pairSelected)
    stored,         \* the machine is in the machine store
    machine,        \* its credential
    issued,         \* daemon: credentials issued
    accepted        \* daemon: the credential it accepts, or NotPaired

flags == <<closed, pairingStarted>>
sessions == <<rpcSession, opened, session>>
shown == <<connection, daemonInfo, late_failure>>
pairing == <<request, completion>>
calls == <<initial, refresh, tool, pairing>>
store == <<stored, machine>>
daemon == <<issued, accepted>>
vars == <<flags, sessions, shown, calls, store, daemon>>

OnlySession == UNCHANGED <<flags, rpcSession, opened, shown, calls, store,
                           daemon>>

-----------------------------------------------------------------------------
(* Types *)

Opening == {"connecting", "authenticating", "renewing"}
NotOpened == [stage |-> "none", credential |-> NotPaired, transport |-> "none",
              authenticated |-> FALSE]
SessionState ==
    [stage : Opening \cup {"none", "open", "failed"},
     credential : Credential \cup {NotPaired},
     transport : {"none", "open", "closed"},
     authenticated : BOOLEAN]

\* A call is idle, awaits a session, or has sent its request on one.
Idle == [at |-> "idle", on |-> NoSession]
Awaits(s) == [at |-> "await", on |-> s]
Sent(s) == [at |-> "sent", on |-> s]
Call == {Idle} \cup [at : {"await", "sent"}, on : Session]

\* The completion also authenticates the session, with the credential issued.
Authenticates(s) == [at |-> "auth", on |-> s]

TypeOK ==
    /\ closed \in BOOLEAN
    /\ pairingStarted \in BOOLEAN
    /\ rpcSession \in Session \cup {NoSession}
    /\ connection \in {"idle", "offline", "reachable"}
    /\ late_failure \in BOOLEAN
    /\ daemonInfo \in [phase : {"idle", "loading", "ready", "error"},
                       of : Session \cup {NoSession}]
    /\ opened \in 0 .. MaxSessions
    /\ session \in [Session -> SessionState]
    /\ initial \subseteq Session
    /\ refresh \in [Session -> Call]
    /\ tool \in [Tool -> Session \cup {NoSession}]
    /\ request \in [Request -> Call]
    /\ completion \in Call \cup [at : {"auth"}, on : Session]
    /\ stored \in BOOLEAN
    /\ machine \in Credential \cup {NotPaired}
    /\ issued \in 0 .. MaxCredentials
    /\ accepted \in Credential \cup {NotPaired}

Info(phase) == [phase |-> phase, of |-> NoSession]

-----------------------------------------------------------------------------
(* Opening and closing, as parts of the events below *)

\* openRpcSession reads the machine when it is called.
Connecting == [NotOpened EXCEPT !.stage = "connecting", !.credential = machine]

\* The controller opens a session at once, for a machine paired or not.
Init ==
    /\ closed = FALSE
    /\ pairingStarted = FALSE
    /\ rpcSession = 1
    /\ connection = "idle"
    /\ late_failure = FALSE
    /\ daemonInfo = Info("idle")
    /\ opened = 1
    /\ machine \in {NotPaired, 1}
    /\ stored = TRUE
    /\ session = [s \in Session |-> IF s = 1 THEN Connecting ELSE NotOpened]
    /\ initial = {1}
    /\ refresh = [s \in Session |-> Idle]
    /\ tool = [t \in Tool |-> NoSession]
    /\ request = [q \in Request |-> Idle]
    /\ completion = Idle
    /\ issued = machine
    /\ accepted \in {NotPaired, machine}

\* The session that getRpcSession returns, and what it does, where table is the
\* table of sessions so far.
Got == IF rpcSession # NoSession THEN rpcSession ELSE opened + 1

getRpcSession(table) ==
    /\ Got \in Session
    /\ rpcSession' = Got
    /\ opened' = IF Got > opened THEN Got ELSE opened
    /\ session' = IF Got > opened THEN [table EXCEPT ![Got] = Connecting]
                  ELSE table

\* Mutant: a session that is replaced keeps its transport.
MutantDropped(table) == table

\* closeRpcSession closes the transport of the current session.  One that is
\* still being opened is closed once it is open: see AfterOpen.
Dropped(table) ==
    IF rpcSession # NoSession /\ session[rpcSession].stage = "open"
    THEN [table EXCEPT ![rpcSession].transport = "closed"]
    ELSE table

\* Mutant: of the two phases shown, one is not reset.
MutantKeepsInfo ==
    /\ connection' = "offline"
    /\ late_failure' = FALSE
    /\ daemonInfo' = daemonInfo

setConnectionOffline ==
    /\ connection' = "offline"
    /\ late_failure' = FALSE
    /\ daemonInfo' = Info("idle")

\* closeRpcSession while the controller is not closed.
closeRpcSession(table) ==
    /\ pairingStarted' = FALSE
    /\ rpcSession' = NoSession
    /\ session' = Dropped(table)
    /\ setConnectionOffline
    /\ UNCHANGED opened

isControllerRpcSession(s) == ~closed /\ rpcSession = s

-----------------------------------------------------------------------------
(* A session's promise settles: the calls that await it go on *)

\* authenticatedWebTransport returns: the session has authenticated itself (see
\* SessionsMatchMachine).
ToolsGoOn(s) ==
    [t \in Tool |-> IF tool[t] = s THEN NoSession ELSE tool[t]]

\* withControllerRpcSession refuses a session that was replaced.
RequestsGoOn(s) ==
    [q \in Request |->
        IF request[q] # Awaits(s) THEN request[q]
        ELSE IF isControllerRpcSession(s) THEN Sent(s) ELSE Idle]

CompletionGoesOn(s) ==
    IF completion # Awaits(s) THEN completion
    ELSE IF isControllerRpcSession(s) THEN Sent(s) ELSE Idle

RefreshGoesOn(s) ==
    [x \in Session |-> IF refresh[x] = Awaits(s) THEN Sent(s) ELSE refresh[x]]

\* Mutant: only the first opening is shown.
MutantShowReachable ==
    /\ connection' = IF connection = "idle" THEN "reachable" ELSE connection
    /\ late_failure' = FALSE

ShowReachable ==
    /\ connection' = "reachable"
    /\ late_failure' = FALSE

\* openRpcSession returns: the connection is reachable, and
\* refreshDaemonInfoForCurrentMachine takes the session that is current now,
\* for which it may have to open one.  A session that was replaced is closed.
AfterOpen(s, opening) ==
    LET table == [opening EXCEPT ![s].stage = "open",
                         ![s].transport = IF rpcSession = s THEN @ ELSE "closed"]
    IN  /\ ShowReachable
        /\ \/ /\ stored \/ rpcSession # NoSession
              /\ getRpcSession(table)
              /\ daemonInfo' = Info("loading")
              /\ refresh' = [RefreshGoesOn(s) EXCEPT ![s] =
                     IF table[Got].stage = "open" THEN Sent(Got)
                     ELSE Awaits(Got)]
           \/ /\ ~stored /\ rpcSession = NoSession
              /\ session' = table
              /\ daemonInfo' = Info("error")
              /\ refresh' = RefreshGoesOn(s)
              /\ UNCHANGED <<rpcSession, opened>>
        /\ tool' = ToolsGoOn(s)
        /\ request' = RequestsGoOn(s)
        /\ completion' = CompletionGoesOn(s)
        /\ UNCHANGED <<flags, initial, store, daemon>>

\* Mutant: refreshDaemonInfoForCurrentMachine does not catch the failure.
MutantInfoAfterFailure(s) == daemonInfo

\* The catch of refreshDaemonInfoForCurrentMachine, then those of
\* openInitialSession and getRpcSession.
InfoAfterFailure(s) ==
    IF closed THEN daemonInfo
    ELSE IF rpcSession = s THEN Info("idle")
    ELSE IF \E x \in Session : refresh[x] = Awaits(s) THEN Info("error")
    ELSE IF s \in initial THEN Info("idle")
    ELSE daemonInfo

\* handleInvalidCredentials: the pairing is forgotten, and what depends on it
\* is cancelled.
ForgetPairing(table) ==
    /\ closeRpcSession(table)
    /\ machine' = NotPaired
    /\ tool' = [t \in Tool |-> NoSession]

AwaitedByTool(s) == \E t \in Tool : tool[t] = s

\* openRpcSession throws.  Invalid says that the credential was refused, which
\* a tool that waits for the session acts on.
AfterFailure(s, invalid) ==
    LET table == [session EXCEPT ![s].stage = "failed",
                         ![s].transport = IF @ = "none" THEN @ ELSE "closed"]
    IN  /\ \/ /\ invalid /\ AwaitedByTool(s)
              /\ ForgetPairing(table)
           \/ /\ ~(invalid /\ AwaitedByTool(s))
              /\ session' = table
              /\ rpcSession' = IF rpcSession = s THEN NoSession ELSE rpcSession
              /\ IF ~closed /\ (rpcSession = s \/ s \in initial)
                 THEN connection' = "offline" /\ late_failure' = (rpcSession # s)
                 ELSE UNCHANGED <<connection, late_failure>>
              /\ daemonInfo' = InfoAfterFailure(s)
              /\ tool' = ToolsGoOn(s)
              /\ UNCHANGED <<pairingStarted, opened, machine>>
        /\ refresh' = [x \in Session |->
               IF refresh[x] = Awaits(s) THEN Idle ELSE refresh[x]]
        /\ request' = [q \in Request |->
               IF request[q] = Awaits(s) THEN Idle ELSE request[q]]
        /\ completion' = IF completion = Awaits(s) THEN Idle ELSE completion
        /\ UNCHANGED <<closed, initial, stored, daemon>>

-----------------------------------------------------------------------------
(* openRpcSession *)

At(s, stage) == session[s].stage = stage

\* openWebTransport succeeds.
Connected(s) ==
    LET connected == [session EXCEPT ![s].transport = "open"]
    IN  /\ At(s, "connecting")
        /\ ~closed
        /\ \/ /\ session[s].credential = NotPaired
              /\ AfterOpen(s, connected)
           \/ /\ session[s].credential # NotPaired
              /\ session' = [connected EXCEPT ![s].stage = "authenticating"]
              /\ OnlySession

\* It fails or times out, or the controller was closed in the meantime.
ConnectFails(s) ==
    /\ At(s, "connecting")
    /\ AfterFailure(s, FALSE)

HasCredentials == stored /\ machine # NotPaired

\* The daemon accepts the credential; renewCredential follows.
Authenticated(s) ==
    LET authenticated == [session EXCEPT ![s].authenticated = TRUE]
    IN  /\ At(s, "authenticating")
        /\ session[s].transport = "open"
        /\ session[s].credential = accepted
        /\ ~closed
        /\ \/ /\ HasCredentials
              /\ session' = [authenticated EXCEPT ![s].stage = "renewing"]
              /\ OnlySession
           \/ /\ ~HasCredentials
              /\ AfterOpen(s, authenticated)

AuthenticateRefused(s) ==
    /\ At(s, "authenticating")
    /\ session[s].transport = "open"
    /\ session[s].credential # accepted
    /\ AfterFailure(s, TRUE)

\* The request fails, or the controller was closed in the meantime.
AuthenticateFails(s) ==
    /\ At(s, "authenticating")
    /\ session[s].transport = "closed" \/ closed
    /\ AfterFailure(s, FALSE)

\* Mutant: the controller's end is not noticed after the last request.
MutantMayOpen == TRUE

MayOpen == ~closed

\* The renewal is answered or fails: openRpcSession goes on in either case.
Renewed(s) ==
    /\ At(s, "renewing")
    /\ IF MayOpen THEN AfterOpen(s, session) ELSE AfterFailure(s, FALSE)

\* The network or the daemon closes a transport.
TransportCloses(s) ==
    /\ session[s].transport = "open"
    /\ session' = [session EXCEPT ![s].transport = "closed"]
    /\ OnlySession

\* transport.closed settles, and it is the current session's.
handleTransportClosed(s) ==
    /\ At(s, "open")
    /\ session[s].transport = "closed"
    /\ isControllerRpcSession(s)
    /\ rpcSession' = NoSession
    /\ setConnectionOffline
    /\ UNCHANGED <<flags, opened, session, calls, store, daemon>>

-----------------------------------------------------------------------------
(* refreshDaemonInfoForCurrentMachine *)

InfoCall(x, info) ==
    /\ refresh' = [refresh EXCEPT ![x] = Idle]
    /\ daemonInfo' = IF closed THEN daemonInfo ELSE info
    /\ UNCHANGED <<flags, sessions, connection, late_failure, initial, tool,
                   pairing, store, daemon>>

InfoAnswered(x) ==
    /\ refresh[x].at = "sent"
    /\ session[refresh[x].on].transport = "open"
    /\ InfoCall(x, [phase |-> "ready", of |-> refresh[x].on])

InfoFails(x) ==
    /\ refresh[x].at = "sent"
    /\ InfoCall(x, Info("error"))

-----------------------------------------------------------------------------
(* authenticatedWebTransport *)

\* A session that is open is returned at once, which changes nothing.
webTransport(t) ==
    /\ ~closed
    /\ HasCredentials
    /\ tool[t] = NoSession
    /\ getRpcSession(session)
    /\ session'[Got].stage \in Opening
    /\ tool' = [tool EXCEPT ![t] = Got]
    /\ UNCHANGED <<flags, shown, initial, refresh, pairing, store, daemon>>

-----------------------------------------------------------------------------
(* startPairingSession and completePairingSession *)

startPairingSession(q) ==
    /\ ~closed
    /\ stored
    /\ request[q] = Idle
    /\ pairingStarted' = FALSE
    /\ getRpcSession(session)
    /\ request' = [request EXCEPT ![q] =
           IF session[Got].stage = "open" THEN Sent(Got) ELSE Awaits(Got)]
    /\ UNCHANGED <<closed, shown, initial, refresh, tool, completion, store,
                   daemon>>

RequestEnds(q) ==
    /\ request[q].at = "sent"
    /\ request' = [request EXCEPT ![q] = Idle]
    /\ UNCHANGED <<closed, sessions, shown, initial, refresh, tool, completion,
                   store, daemon>>

StartAnswered(q) ==
    /\ RequestEnds(q)
    /\ session[request[q].on].transport = "open"
    /\ pairingStarted' = TRUE

StartFails(q) ==
    /\ RequestEnds(q)
    /\ UNCHANGED pairingStarted

completePairingSession ==
    /\ pairingStarted
    /\ rpcSession # NoSession
    /\ completion = Idle
    /\ completion' = IF session[rpcSession].stage = "open" THEN Sent(rpcSession)
                     ELSE Awaits(rpcSession)
    /\ UNCHANGED <<flags, sessions, shown, initial, refresh, tool, request,
                   store, daemon>>

\* Mutant: the credential is stored at once.
MutantNeedsAuthentication == FALSE

\* The controller's session, which is read again, may be authenticated already:
\* with the same client id, under the secret it had.
NeedsAuthentication == ~session[rpcSession].authenticated

setMachineCredentials == machine' = IF stored THEN issued' ELSE machine

\* The code is right, and the daemon issues a credential.
CompleteAnswered ==
    /\ completion.at = "sent"
    /\ session[completion.on].transport = "open"
    /\ issued < MaxCredentials
    /\ issued' = issued + 1
    /\ accepted' = issued + 1
    /\ \/ /\ NeedsAuthentication
          /\ completion' = Authenticates(rpcSession)
          /\ UNCHANGED machine
       \/ /\ ~NeedsAuthentication
          /\ completion' = Idle
          /\ setMachineCredentials
    /\ UNCHANGED <<flags, sessions, shown, initial, refresh, tool, request,
                   stored>>

\* pairSelected stores the credential once the session is authenticated.
PairedAuthenticated ==
    LET s == completion.on
    IN  /\ completion.at = "auth"
        /\ session[s].transport = "open"
        /\ accepted = issued
        /\ session' = [session EXCEPT ![s].authenticated = TRUE]
        /\ completion' = Idle
        /\ UNCHANGED daemon
        /\ setMachineCredentials
        /\ UNCHANGED <<flags, rpcSession, shown, opened, initial, refresh, tool,
                       request, stored>>

\* The code is wrong, or a request fails: a credential that was issued is lost.
CompleteFails ==
    /\ completion.at \in {"sent", "auth"}
    /\ completion' = Idle
    /\ UNCHANGED <<flags, sessions, shown, initial, refresh, tool, request,
                   store, daemon>>

-----------------------------------------------------------------------------
(* The user, and the daemon *)

reconnect ==
    /\ ~closed
    /\ stored
    /\ opened < MaxSessions
    /\ pairingStarted' = FALSE
    /\ opened' = opened + 1
    /\ rpcSession' = opened + 1
    /\ initial' = initial \cup {opened + 1}
    /\ session' = [Dropped(session) EXCEPT ![opened + 1] = Connecting]
    /\ setConnectionOffline
    /\ UNCHANGED <<closed, refresh, tool, pairing, store, daemon>>

\* Disposing the controller cancels the tools' subscriptions.
close ==
    /\ ~closed
    /\ closed' = TRUE
    /\ pairingStarted' = FALSE
    /\ rpcSession' = NoSession
    /\ session' = Dropped(session)
    /\ tool' = [t \in Tool |-> NoSession]
    /\ UNCHANGED <<shown, opened, initial, refresh, pairing, store, daemon>>

\* The controller is closed afterwards, when the view has gone.
DeleteMachine ==
    /\ stored
    /\ stored' = FALSE
    /\ UNCHANGED <<flags, sessions, shown, calls, machine, daemon>>

\* The credential expires, or the daemon loses it.
CredentialEnds ==
    /\ accepted # NotPaired
    /\ accepted' = NotPaired
    /\ UNCHANGED <<flags, sessions, shown, calls, store, issued>>

-----------------------------------------------------------------------------

OpenStep(s) ==
    \/ Connected(s) \/ ConnectFails(s)
    \/ Authenticated(s) \/ AuthenticateRefused(s) \/ AuthenticateFails(s)
    \/ Renewed(s)

InfoStep(x) == InfoAnswered(x) \/ InfoFails(x)

PairStep ==
    \/ \E q \in Request :
           startPairingSession(q) \/ StartAnswered(q) \/ StartFails(q)
    \/ completePairingSession \/ CompleteAnswered
    \/ PairedAuthenticated \/ CompleteFails

Next ==
    \/ \E s \in Session :
           \/ OpenStep(s) \/ InfoStep(s)
           \/ TransportCloses(s) \/ handleTransportClosed(s)
    \/ \E t \in Tool : webTransport(t)
    \/ PairStep
    \/ reconnect \/ close \/ DeleteMachine \/ CredentialEnds

Spec == Init /\ [][Next]_vars

\* What is under way ends: connecting times out, and requests are answered or
\* fail with their transport.
FairSpec ==
    /\ Spec
    /\ \A s \in Session : WF_vars(OpenStep(s)) /\ WF_vars(InfoStep(s))

-----------------------------------------------------------------------------
(* Properties *)

\* No transport is left behind: one that is open is the current session's, or
\* still to be looked at by the call that opened it.
OneTransport ==
    \A s \in Session : session[s].transport = "open" =>
        rpcSession = s \/ session[s].stage \in Opening

\* The daemon information shown is that of the current session: it is fetched
\* again after every reconnection.
InfoIsCurrent ==
    ~closed /\ daemonInfo.phase = "ready" => daemonInfo.of = rpcSession

\* A controller that is closed opens nothing and shows nothing any more,
\* whatever it was waiting for.
ClosedIsQuiet == [][closed => UNCHANGED <<rpcSession, opened, shown>>]_vars

\* A session of a paired machine authenticates itself, when it is opened or when
\* the machine is paired: no tool is given one that has not, although pairing,
\* reconnecting and opening overlap.
SessionsMatchMachine ==
    /\ \A s \in Session : HasCredentials /\ rpcSession = s /\ At(s, "open") =>
           session[s].authenticated
    /\ \A t \in Tool : tool[t] # NoSession =>
           session[tool[t]].credential # NotPaired

\* Loading the daemon information comes to an end.
LoadingEnds ==
    daemonInfo.phase = "loading" ~> closed \/ daemonInfo.phase # "loading"

Settled ==
    \A s \in Session :
        /\ session[s].stage \notin Opening
        /\ rpcSession = s => session[s].transport = "open"

\* A machine is shown as reachable only while its controller has a session,
\* whatever replaced sessions open late.  And when nothing is being opened, a
\* machine whose session is open is not shown as "Unconnected"
\* (machine-panel.tsx), but for one case: since reachable was shown last, an
\* opening that reconnect had replaced has failed, and openInitialSession,
\* unlike getRpcSession, does not ask whether it was the current one.
ConnectionMatchesSession ==
    ~closed =>
        /\ stored /\ connection = "reachable" => rpcSession # NoSession
        /\ Settled /\ rpcSession # NoSession /\ connection # "reachable" =>
               late_failure
=============================================================================
