----------------------------- MODULE Credentials -----------------------------
(***************************************************************************)
(* The credentials of paired clients: the file client-credentials.yaml     *)
(* (daemon/core/src/config.rs), its copy in memory, the watch channel that *)
(* publishes it, and the calls of daemon/host/src/server.rs that use them: *)
(* CompletePairing, RenewClientCredential, session authentication and      *)
(* SubscribeClients.                                                       *)
(*                                                                         *)
(* CompletePairing and RenewClientCredential load the file, change the     *)
(* loaded state and store it; no lock is held from the load to the store,  *)
(* so the steps of two calls interleave.  fs::write truncates the file and *)
(* then writes it, and the process may stop between the two.               *)
(*                                                                         *)
(* A record is abstracted to its secret, a number drawn once, and its      *)
(* expiry; labels and creation times are left out.  That a CompletePairing *)
(* call holds a valid code is the subject of module Pairing.               *)
(***************************************************************************)
EXTENDS Integers

CONSTANTS
    Task,           \* tasks that serve RPC and session-control streams
    Rpc,            \* RPC sessions
    Subscriber,     \* SubscribeClients streams
    NoRecord,       \* the client is not in the table
    Torn,           \* file contents that are not what any call wrote
    TornParses,     \* whether the YAML library may accept torn contents
    Ttl,            \* CLIENT_CREDENTIAL_TTL_SECONDS
    MaxClients,     \* bound: client ids drawn
    MaxSecrets,     \* bound: secrets drawn
    MaxTime,        \* bound: the clock
    MaxCrashes      \* bound: stops of the daemon process

Client == 1 .. MaxClients
NoClient == 0       \* no client id in the request, or not authenticated

Record == [secret : 1 .. MaxSecrets, expires : Nat]
Table == [Client -> Record \cup {NoRecord}]

ASSUME RecordAssumption == NoRecord \notin Record
ASSUME TornAssumption == Torn \notin Table
ASSUME BoundAssumption ==
    /\ TornParses \in BOOLEAN
    /\ Ttl \in Nat
    /\ MaxClients \in Nat
    /\ MaxSecrets \in Nat
    /\ MaxTime \in Nat
    /\ MaxCrashes \in Nat

VARIABLES
    file,               \* client-credentials.yaml, or Torn
    client_credentials, \* the copy in memory
    events,             \* the value of the watch channel
    running,            \* the daemon has started and not stopped
    crashes,
    now,
    next_client,        \* the next random client id
    next_secret,        \* the next random secret
    task,               \* the call each task serves
    authenticated,      \* authenticated_client_id of each session, how and when
    subscription,       \* each SubscribeClients stream and its client's table
    returned,           \* history: what each client was last told
    saved,              \* history: records that were in the file
    disturbed,          \* history: calls overlapped, or a write failed or was cut
    unheard             \* history: the last table sent found no receiver

store == <<file, client_credentials, events>>
drawn == <<next_client, next_secret>>
daemon == <<running, crashes, now>>
history == <<returned, saved, disturbed, unheard>>
vars == <<store, daemon, drawn, task, authenticated, subscription, history>>

-----------------------------------------------------------------------------
(* Types *)

EmptyTable == [c \in Client |-> NoRecord]

Idle == [at |-> "idle"]
Writing == {"load", "remember", "modify", "write", "store", "send"}

TaskState == {Idle}
    \cup [at : Writing, op : {"complete", "renew"}, client : Client \cup {NoClient},
          now : Nat, state : Table]
    \cup [at : {"verify"}, rpc : Rpc, client : Client, secret : 1 .. MaxSecrets]
    \cup [at : {"admit"}, rpc : Rpc, client : Client, secret : 1 .. MaxSecrets,
          now : Nat]

NotAuthenticated == [client |-> NoClient]
Authenticated == {NotAuthenticated}
    \cup [client : Client, secret : 1 .. MaxSecrets, at : Nat]

\* A row as clients see it (ClientInfo): the expiry, never the secret.
Infos == [Client -> Nat \cup {NoRecord}]

NotSubscribed == [fresh |-> FALSE]
Subscription == {NotSubscribed} \cup [fresh : BOOLEAN, rows : Infos, view : Infos]

TypeOK ==
    /\ file \in Table \cup {Torn}
    /\ client_credentials \in Table
    /\ events \in Table
    /\ running \in BOOLEAN
    /\ crashes \in Nat
    /\ now \in Nat
    /\ next_client \in 1 .. (MaxClients + 1)
    /\ next_secret \in 1 .. (MaxSecrets + 1)
    /\ task \in [Task -> TaskState]
    /\ authenticated \in [Rpc -> Authenticated]
    /\ subscription \in [Subscriber -> Subscription]
    /\ returned \in Table
    /\ saved \subseteq Client \X Record
    /\ disturbed \in BOOLEAN
    /\ unheard \in BOOLEAN

-----------------------------------------------------------------------------
(* Starting with no file: load_client_credentials_or_default is empty. *)

Init ==
    /\ file = EmptyTable
    /\ client_credentials = EmptyTable
    /\ events = EmptyTable
    /\ running = TRUE
    /\ crashes = 0
    /\ now = 0
    /\ next_client = 1
    /\ next_secret = 1
    /\ task = [t \in Task |-> Idle]
    /\ authenticated = [r \in Rpc |-> NotAuthenticated]
    /\ subscription = [s \in Subscriber |-> NotSubscribed]
    /\ returned = EmptyTable
    /\ saved = {}
    /\ disturbed = FALSE
    /\ unheard = FALSE

-----------------------------------------------------------------------------
(* CompletePairing and RenewClientCredential *)

At(t, at) == task[t].at = at
Goto(t, at) == task' = [task EXCEPT ![t].at = at]
Return(t) == task' = [task EXCEPT ![t] = Idle]

\* A call that saves enters its load; calls that overlap are noted.
Enter(t, o, c) ==
    /\ running
    /\ task[t] = Idle
    /\ task' = [task EXCEPT ![t] =
           [at |-> "load", op |-> o, client |-> c, now |-> now,
            state |-> EmptyTable]]
    /\ disturbed' = (disturbed \/ \E u \in Task : task[u].at \in Writing)
    /\ UNCHANGED <<store, daemon, drawn, authenticated, subscription, returned,
                   saved, unheard>>

\* The challenge has been taken; it named the client id c, or none.
complete_pairing(t, c) == Enter(t, "complete", c)

renew_client_credential(t, r) ==
    /\ authenticated[r] # NotAuthenticated
    /\ Enter(t, "renew", authenticated[r].client)

\* What loading the file may yield.  Torn contents do not parse, or parse as
\* a document without clients.
Loadable ==
    IF file # Torn THEN {file} ELSE IF TornParses THEN {EmptyTable} ELSE {}

load_client_credentials_or_default(t) ==
    /\ At(t, "load")
    /\ \E state \in Loadable :
           task' = [task EXCEPT ![t].at = "remember", ![t].state = state]
    /\ UNCHANGED <<store, daemon, drawn, authenticated, subscription, history>>

\* The call fails with the load's error.
LoadFails(t) ==
    /\ At(t, "load")
    /\ file = Torn
    /\ Return(t)
    /\ UNCHANGED <<store, daemon, drawn, authenticated, subscription, history>>

\* load_runtime_client_credentials replaces the copy in memory.
Remember(t) ==
    /\ At(t, "remember")
    /\ client_credentials' = task[t].state
    /\ Goto(t, "modify")
    /\ UNCHANGED <<file, events, daemon, drawn, authenticated, subscription,
                   history>>

\* Mutant: the copy in memory is replaced before the file is written.
MutantTruncate(t, c, state) ==
    /\ task' = [task EXCEPT ![t].at = "write", ![t].client = c,
                            ![t].state = state]
    /\ file' = Torn
    /\ client_credentials' = state
    /\ UNCHANGED <<events, daemon, authenticated, subscription, history>>

\* fs::write opens and truncates the file.  State is what will be written.
Truncate(t, c, state) ==
    /\ task' = [task EXCEPT ![t].at = "write", ![t].client = c,
                            ![t].state = state]
    /\ file' = Torn
    /\ UNCHANGED <<client_credentials, events, daemon, authenticated,
                   subscription, history>>

Expiry(t) == task[t].now + Ttl

\* The client id that was asked for, if it has a record.
Known(t) == task[t].client # NoClient /\ task[t].state[task[t].client] # NoRecord

\* issue_client_secret draws a client id, reissue_client_secret keeps it; both
\* draw a secret.
IssueSecret(t) ==
    /\ At(t, "modify")
    /\ task[t].op = "complete"
    /\ next_secret <= MaxSecrets
    /\ LET c == IF Known(t) THEN task[t].client ELSE next_client
       IN  /\ c \in Client
           /\ Truncate(t, c, [task[t].state EXCEPT ![c] =
                  [secret |-> next_secret, expires |-> Expiry(t)]])
    /\ next_client' = IF Known(t) THEN next_client ELSE next_client + 1
    /\ next_secret' = next_secret + 1

RenewRecord(t) ==
    /\ At(t, "modify")
    /\ task[t].op = "renew"
    /\ Known(t)
    /\ Truncate(t, task[t].client,
                [task[t].state EXCEPT ![task[t].client].expires = Expiry(t)])
    /\ UNCHANGED drawn

\* The client's record is gone: Unauthorized.
RenewRefused(t) ==
    /\ At(t, "modify")
    /\ task[t].op = "renew"
    /\ ~Known(t)
    /\ Return(t)
    /\ UNCHANGED <<store, daemon, drawn, authenticated, subscription, history>>

\* The file cannot be opened: the call fails, and nothing has changed.
OpenFails(t) ==
    /\ At(t, "modify")
    /\ Return(t)
    /\ UNCHANGED <<store, daemon, drawn, authenticated, subscription, history>>

\* The file cannot be written once it is truncated.
WriteFails(t) ==
    /\ At(t, "write")
    /\ Return(t)
    /\ disturbed' = TRUE
    /\ UNCHANGED <<store, daemon, drawn, authenticated, subscription, returned,
                   saved, unheard>>

\* Another call has written since the truncation: the longer contents show
\* behind the shorter.
save_client_credentials(t) ==
    /\ At(t, "write")
    /\ \/ file' = task[t].state
       \/ file # Torn /\ file' = Torn
    /\ saved' = saved \cup
           {<<c, task[t].state[c]>> : c \in {d \in Client : task[t].state[d] # NoRecord}}
    /\ Goto(t, "store")
    /\ UNCHANGED <<client_credentials, events, daemon, drawn, authenticated,
                   subscription, returned, disturbed, unheard>>

\* Mutant: the copy in memory is not replaced.
Mutant_store_runtime_client_credentials(t) ==
    /\ At(t, "store")
    /\ Goto(t, "send")
    /\ UNCHANGED <<store, daemon, drawn, authenticated, subscription, history>>

store_runtime_client_credentials(t) ==
    /\ At(t, "store")
    /\ client_credentials' = task[t].state
    /\ Goto(t, "send")
    /\ UNCHANGED <<file, events, daemon, drawn, authenticated, subscription,
                   history>>

\* What the client knows after the answer: a new secret and expiry, or a new
\* expiry of the secret it has.
Told(t) ==
    IF task[t].op = "complete" \/ returned[task[t].client] = NoRecord
    THEN task[t].state[task[t].client]
    ELSE [returned[task[t].client] EXCEPT
              !.expires = task[t].state[task[t].client].expires]

\* Every stream that follows the watch channel now has a value to look at.
Notified ==
    [s \in Subscriber |-> IF subscription[s] = NotSubscribed THEN NotSubscribed
                          ELSE [subscription[s] EXCEPT !.fresh = TRUE]]

\* A stream still holds a receiver of the watch channel.
Heard == \E s \in Subscriber : subscription[s] # NotSubscribed

\* send keeps the value only if there is a receiver: the one made with the
\* channel was dropped, so without a stream the channel keeps its old value
\* and the error is ignored.
SendAndRespond(t) ==
    /\ At(t, "send")
    /\ events' = IF Heard THEN task[t].state ELSE events
    /\ unheard' = ~Heard
    /\ subscription' = Notified
    /\ returned' = [returned EXCEPT ![task[t].client] = Told(t)]
    /\ Return(t)
    /\ UNCHANGED <<file, client_credentials, daemon, drawn, authenticated, saved,
                   disturbed>>

-----------------------------------------------------------------------------
(* SessionAuthenticate *)

BeginAuthenticate(t, r, c, secret) ==
    /\ running
    /\ task[t] = Idle
    /\ authenticated[r] = NotAuthenticated
    /\ task' = [task EXCEPT ![t] = [at |-> "verify", rpc |-> r, client |-> c,
                                    secret |-> secret]]
    /\ UNCHANGED <<store, daemon, drawn, authenticated, subscription, history>>

\* Mutant: the expiry is not looked at.
Mutant_verify_client_credential(record, secret, at) ==
    /\ record # NoRecord
    /\ record.secret = secret

verify_client_credential(record, secret, at) ==
    /\ record # NoRecord
    /\ record.secret = secret
    /\ at < record.expires

verify_session_credentials(t) ==
    verify_client_credential(client_credentials[task[t].client], task[t].secret, now)

Verify(t) ==
    /\ At(t, "verify")
    /\ IF verify_session_credentials(t)
       THEN task' = [task EXCEPT ![t] =
                [at |-> "admit", rpc |-> task[t].rpc, client |-> task[t].client,
                 secret |-> task[t].secret, now |-> now]]
       ELSE Return(t)
    /\ UNCHANGED <<store, daemon, drawn, authenticated, subscription, history>>

\* The session's state is locked again; a second stream may have authenticated
\* the session in between, and is overwritten.
Admit(t) ==
    /\ At(t, "admit")
    /\ authenticated' = [authenticated EXCEPT ![task[t].rpc] =
           [client |-> task[t].client, secret |-> task[t].secret,
            at |-> task[t].now]]
    /\ Return(t)
    /\ UNCHANGED <<store, daemon, drawn, subscription, history>>

-----------------------------------------------------------------------------
(* SubscribeClients (stream_clients_subscription) *)

client_infos_from_credentials(table) ==
    [c \in Client |-> IF table[c] = NoRecord THEN NoRecord ELSE table[c].expires]

\* Mutant: rows that changed are not sent.
Mutant_clients_patch(previous, next) ==
    [removes |-> {c \in Client : previous[c] # NoRecord /\ next[c] = NoRecord},
     upserts |-> {c \in Client : next[c] # NoRecord /\ previous[c] = NoRecord}]

\* The patch from previous to next: its removes and its upserts.
clients_patch(previous, next) ==
    [removes |-> {c \in Client : previous[c] # NoRecord /\ next[c] = NoRecord},
     upserts |-> {c \in Client : next[c] # NoRecord /\ next[c] # previous[c]}]

\* What the client makes of a patch with the rows of next.
ApplyPatch(view, patch, next) ==
    [c \in Client |-> IF c \in patch.upserts THEN next[c]
                      ELSE IF c \in patch.removes THEN NoRecord
                      ELSE view[c]]

SubscribeClients(s) ==
    /\ running
    /\ subscription[s] = NotSubscribed
    /\ LET rows == client_infos_from_credentials(events)
       IN  subscription' = [subscription EXCEPT ![s] =
               [fresh |-> FALSE, rows |-> rows, view |-> rows]]
    /\ UNCHANGED <<store, daemon, drawn, task, authenticated, history>>

\* receiver.changed(): the latest value, however many there were.
ClientsChanged(s) ==
    /\ subscription[s].fresh
    /\ LET next == client_infos_from_credentials(events)
           patch == clients_patch(subscription[s].rows, next)
       IN  subscription' = [subscription EXCEPT ![s] =
               [fresh |-> FALSE, rows |-> next,
                view |-> ApplyPatch(@.view, patch, next)]]
    /\ UNCHANGED <<store, daemon, drawn, task, authenticated, history>>

\* The client is gone: writing the snapshot or a patch fails, the stream
\* function returns and its receiver is dropped.  A stream with nothing to
\* write does not notice.
ClientsWriteFails(s) ==
    /\ subscription[s].fresh
    /\ subscription' = [subscription EXCEPT ![s] = NotSubscribed]
    /\ UNCHANGED <<store, daemon, drawn, task, authenticated, history>>

-----------------------------------------------------------------------------
(* The process and the clock *)

Crash ==
    /\ running
    /\ crashes < MaxCrashes
    /\ crashes' = crashes + 1
    /\ running' = FALSE
    /\ disturbed' = (disturbed \/ \E t \in Task : task[t].at \in Writing)
    /\ task' = [t \in Task |-> Idle]
    /\ authenticated' = [r \in Rpc |-> NotAuthenticated]
    /\ subscription' = [s \in Subscriber |-> NotSubscribed]
    /\ UNCHANGED <<store, now, drawn, returned, saved, unheard>>

\* run_system_server_once loads the file and makes a new channel with what it
\* holds; while the load fails the daemon waits.
Restart ==
    /\ ~running
    /\ running' = TRUE
    /\ \E state \in Loadable :
           client_credentials' = state /\ events' = state
    /\ unheard' = FALSE
    /\ UNCHANGED <<file, crashes, now, drawn, task, authenticated, subscription,
                   returned, saved, disturbed>>

Tick ==
    /\ now < MaxTime
    /\ now' = now + 1
    /\ UNCHANGED <<store, running, crashes, drawn, task, authenticated,
                   subscription, history>>

-----------------------------------------------------------------------------

\* The client ids there are; any other one in a request acts like none.
Drawn == 1 .. next_client - 1

TaskStep(t) ==
    \/ load_client_credentials_or_default(t) \/ LoadFails(t)
    \/ Remember(t)
    \/ IssueSecret(t) \/ RenewRecord(t) \/ RenewRefused(t)
    \/ OpenFails(t) \/ WriteFails(t) \/ save_client_credentials(t)
    \/ store_runtime_client_credentials(t) \/ SendAndRespond(t)
    \/ Verify(t) \/ Admit(t)

Next ==
    \/ \E t \in Task, c \in {NoClient} \cup Drawn : complete_pairing(t, c)
    \/ \E t \in Task, r \in Rpc : renew_client_credential(t, r)
    \/ \E t \in Task, r \in Rpc, c \in Drawn, secret \in 1 .. next_secret - 1 :
          BeginAuthenticate(t, r, c, secret)
    \/ \E t \in Task : TaskStep(t)
    \/ \E s \in Subscriber : SubscribeClients(s) \/ ClientsChanged(s)
                              \/ ClientsWriteFails(s)
    \/ Crash
    \/ Restart
    \/ Tick

Spec == Init /\ [][Next]_vars

-----------------------------------------------------------------------------
(* Properties *)

\* What a client can authenticate with has been saved: no interleaving of
\* loads and stores and no failed save puts a record into memory that was
\* never written to the file.
MemoryWasSaved ==
    \A c \in Client : client_credentials[c] # NoRecord =>
        <<c, client_credentials[c]>> \in saved

\* A session is authenticated as a client only with a secret that was issued
\* to that client and had not expired, whatever was stored or reloaded while
\* the call was under way.
AuthenticatedBySavedSecret ==
    \A r \in Rpc : authenticated[r] # NotAuthenticated =>
        \E pair \in saved :
            /\ pair[1] = authenticated[r].client
            /\ pair[2].secret = authenticated[r].secret
            /\ authenticated[r].at < pair[2].expires

AllIdle == \A t \in Task : task[t].at \notin Writing

\* As long as calls that save do not overlap and no write fails or is cut off,
\* memory and file agree between calls and hold what each client was told; so
\* does the watch channel, unless the last table was sent while no stream was
\* there to receive it, which leaves the channel with an older one.
UndisturbedStoreAgrees ==
    running /\ AllIdle /\ ~disturbed =>
        /\ client_credentials = file
        /\ ~unheard => events = file
        /\ \A c \in Client : returned[c] = file[c]

\* A stream that has looked at the channel's latest value has brought its
\* client's table to exactly the rows of that value, also when it skipped
\* values; and those are the rows of the credentials in memory, between calls
\* that did not disturb each other.  The exception is a stream that subscribed
\* after a table was sent to nobody: it starts with the outdated one and stays
\* with it until the next table is sent.
ClientsViewIsCurrent ==
    \A s \in Subscriber :
        subscription[s] # NotSubscribed /\ ~subscription[s].fresh =>
            /\ subscription[s].view = client_infos_from_credentials(events)
            /\ AllIdle /\ ~disturbed /\ ~unheard =>
                   subscription[s].view =
                       client_infos_from_credentials(client_credentials)

\* "Persistent paired-client credentials returned once after successful
\* pairing": a secret that a client was given stays in the file until the
\* client pairs again, as long as the daemon is not stopped.
ReturnedCredentialsPersist ==
    AllIdle /\ file # Torn =>
        \A c \in Client : returned[c] # NoRecord =>
            file[c] # NoRecord /\ file[c].secret = returned[c].secret
=============================================================================
