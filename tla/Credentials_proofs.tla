------------------------- MODULE Credentials_proofs -------------------------
(***************************************************************************)
(* Proofs about Credentials for any numbers of tasks, sessions, clients    *)
(* and subscribers, any lifetime of a credential, and whether torn         *)
(* contents parse or not: what is in memory was saved, sessions are        *)
(* authenticated by what was saved, undisturbed calls leave file, memory   *)
(* and channel in agreement, and subscribers see the latest value.         *)
(***************************************************************************)
EXTENDS Credentials, TLAPS

\* A call that has chosen the client it writes for has a record for it.
TargetsKnown ==
  \A t \in Task : task[t].at \in {"write", "store", "send"} =>
    task[t].client \in Client /\ task[t].state[task[t].client] \in Record

TypeInv == TypeOK /\ TargetsKnown

-----------------------------------------------------------------------------
(* Types *)

LEMMA TaskTypes ==
  ASSUME TypeOK, NEW t \in Task
  PROVE  /\ task[t] \in TaskState
         /\ task[t].at \in Writing =>
              /\ task[t].op \in {"complete", "renew"}
              /\ task[t].client \in Client \cup {NoClient}
              /\ task[t].now \in Nat
              /\ task[t].state \in Table
         /\ task[t].at \in {"verify", "admit"} =>
              /\ task[t].rpc \in Rpc
              /\ task[t].client \in Client
              /\ task[t].secret \in 1 .. MaxSecrets
         /\ task[t].at = "admit" => task[t].now \in Nat
  BY DEF TypeOK, TaskState, Writing, Idle

\* The states of a task that serves a call that saves.
Saving == [at : Writing, op : {"complete", "renew"}, client : Client \cup {NoClient},
           now : Nat, state : Table]

\* A task at one of the stages of a save is one that saves.
LEMMA SavingTasks ==
  ASSUME TypeOK, NEW t \in Task, task[t].at \in Writing
  PROVE  task[t] \in Saving
  BY DEF TypeOK, TaskState, Writing, Idle, Saving

\* A task at rest is at no stage of a save or an authentication.
LEMMA IdleNotWriting == Idle.at \notin Writing \cup {"verify", "admit"} /\ Idle \in TaskState
  BY DEF Idle, Writing, TaskState

\* One task's state changes.
LEMMA TaskChanges ==
  ASSUME TypeOK, NEW t \in Task, NEW x \in TaskState, task' = [task EXCEPT ![t] = x]
  PROVE  /\ task' \in [Task -> TaskState]
         /\ task'[t] = x
         /\ \A u \in Task : u # t => task'[u] = task[u]
  BY DEF TypeOK

\* Moving to the next stage changes the stage alone.
LEMMA GotoChanges ==
  ASSUME TypeOK, NEW t \in Task, NEW at \in Writing, task[t].at \in Writing, Goto(t, at)
  PROVE  /\ task' \in [Task -> TaskState]
         /\ task'[t].at = at /\ task'[t].op = task[t].op
         /\ task'[t].client = task[t].client /\ task'[t].now = task[t].now
         /\ task'[t].state = task[t].state
         /\ \A u \in Task : u # t => task'[u] = task[u]
<1> DEFINE x == [task[t] EXCEPT !.at = at]
<1>1. /\ x \in TaskState /\ x.at = at /\ x.op = task[t].op
      /\ x.client = task[t].client /\ x.now = task[t].now /\ x.state = task[t].state
  BY DEF TypeOK, TaskState, Writing, Idle
<1>2. task' = [task EXCEPT ![t] = x]
  BY DEF Goto
<1> HIDE DEF x
<1> QED BY <1>1, <1>2, TaskChanges

\* Loading the file gives a task its table.
LEMMA LoadChanges ==
  ASSUME TypeOK, NEW t \in Task, At(t, "load"), NEW state \in Table,
         task' = [task EXCEPT ![t].at = "remember", ![t].state = state]
  PROVE  /\ task' \in [Task -> TaskState]
         /\ task'[t].at = "remember" /\ task'[t].op = task[t].op
         /\ task'[t].client = task[t].client /\ task'[t].now = task[t].now
         /\ task'[t].state = state
         /\ \A u \in Task : u # t => task'[u] = task[u]
<1> DEFINE x == [task[t] EXCEPT !.at = "remember", !.state = state]
<1>1. /\ x \in TaskState /\ x.at = "remember" /\ x.op = task[t].op
      /\ x.client = task[t].client /\ x.now = task[t].now /\ x.state = state
  <2>1. task[t] \in Saving
    BY SavingTasks DEF At, Writing
  <2> QED BY <2>1 DEF Saving, Writing, TaskState
<1>2. task' = [task EXCEPT ![t] = x]
  BY DEF TypeOK
<1> HIDE DEF x
<1> QED BY <1>1, <1>2, TaskChanges

\* Opening the file to write gives it the table to write.
LEMMA TruncateChanges ==
  ASSUME TypeOK, NEW t \in Task, At(t, "modify"), NEW c \in Client,
         NEW state \in Table, Truncate(t, c, state)
  PROVE  /\ task' \in [Task -> TaskState]
         /\ task'[t].at = "write" /\ task'[t].op = task[t].op
         /\ task'[t].client = c /\ task'[t].now = task[t].now
         /\ task'[t].state = state
         /\ \A u \in Task : u # t => task'[u] = task[u]
<1> DEFINE x == [task[t] EXCEPT !.at = "write", !.client = c, !.state = state]
<1>1. /\ x \in TaskState /\ x.at = "write" /\ x.op = task[t].op
      /\ x.client = c /\ x.now = task[t].now /\ x.state = state
  <2>1. task[t] \in Saving
    BY SavingTasks DEF At, Writing
  <2> QED BY <2>1 DEF Saving, Writing, TaskState
<1>2. task' = [task EXCEPT ![t] = x]
  BY DEF Truncate, TypeOK
<1> HIDE DEF x
<1> QED BY <1>1, <1>2, TaskChanges

\* The table of no client is one.
LEMMA EmptyIsTable == EmptyTable \in Table
  BY DEF EmptyTable, Table

\* What a load may return: the file, or nothing from a torn one.
LEMMA LoadableType ==
  ASSUME TypeOK
  PROVE  \A state \in Loadable : state \in Table /\ (state = file \/ state = EmptyTable)
  BY EmptyIsTable DEF TypeOK, Loadable

\* What a call is about to write: the state it has loaded, with a new record
\* for one client.
LEMMA Modified ==
  ASSUME TypeOK, NEW t \in Task, IssueSecret(t) \/ RenewRecord(t)
  PROVE  \E c \in Client, rec \in Record :
           /\ Truncate(t, c, [task[t].state EXCEPT ![c] = rec])
           /\ RenewRecord(t) => /\ c = task[t].client /\ task[t].state[c] \in Record
                                /\ rec = [task[t].state[c] EXCEPT !.expires = rec.expires]
<1>1. task[t].state \in Table /\ task[t].client \in Client \cup {NoClient}
      /\ Expiry(t) \in Nat
  BY TaskTypes, BoundAssumption DEF IssueSecret, RenewRecord, At, Writing, Expiry
<1>2. CASE IssueSecret(t)
  <2>1. [secret |-> next_secret, expires |-> Expiry(t)] \in Record
    BY <1>1, <1>2, BoundAssumption DEF IssueSecret, Record, TypeOK
  <2>2. ~RenewRecord(t)
    BY <1>2 DEF IssueSecret, RenewRecord
  <2> QED BY <1>2, <2>1, <2>2 DEF IssueSecret
<1>3. CASE RenewRecord(t)
  <2>1. PICK c : c = task[t].client
    OBVIOUS
  <2>2. c \in Client /\ task[t].state[c] \in Record
    BY <1>1, <1>3, <2>1 DEF RenewRecord, Known, Table
  <2>3. PICK rec : rec = [task[t].state[c] EXCEPT !.expires = Expiry(t)]
    OBVIOUS
  <2>4. rec \in Record /\ rec.expires = Expiry(t)
    BY <1>1, <2>2, <2>3 DEF Record
  <2>5. Truncate(t, c, [task[t].state EXCEPT ![c] = rec])
    <3>1. [task[t].state EXCEPT ![c].expires = Expiry(t)]
            = [task[t].state EXCEPT ![c] = rec]
      BY <1>1, <2>2, <2>3 DEF Table
    <3> QED BY <1>3, <2>1, <3>1 DEF RenewRecord
  <2> QED BY <2>1, <2>2, <2>3, <2>4, <2>5
<1> QED BY <1>2, <1>3

\* The daemon starts with no task under way.
LEMMA InitTypes == Init => TypeInv
<1> SUFFICES ASSUME Init PROVE TypeInv
  OBVIOUS
<1>1. Idle \in TaskState /\ Idle.at = "idle"
  BY DEF Idle, TaskState
<1>2. NotAuthenticated \in Authenticated /\ NotSubscribed \in Subscription
  BY DEF Authenticated, Subscription
<1>3. 1 \in 1 .. (MaxClients + 1) /\ 1 \in 1 .. (MaxSecrets + 1)
  BY BoundAssumption
<1>4. TypeOK
  BY <1>1, <1>2, <1>3, EmptyIsTable DEF Init, TypeOK
<1>5. TargetsKnown
  BY <1>1 DEF Init, TargetsKnown
<1> QED BY <1>4, <1>5 DEF TypeInv

\* A step after which each task is as it was, idle, or has a known target.
LEMMA TargetsStay ==
  ASSUME TypeInv, NEW t \in Task,
         \A u \in Task : u # t => task'[u] = task[u],
         task'[t].at \in {"write", "store", "send"} =>
           task'[t].client \in Client /\ task'[t].state[task'[t].client] \in Record
  PROVE  TargetsKnown'
  BY DEF TypeInv, TargetsKnown

\* A call that ends leaves its task at rest.
LEMMA ReturnTypes ==
  ASSUME TypeInv, NEW t \in Task, Return(t)
  PROVE  task' \in [Task -> TaskState] /\ TargetsKnown' /\ task'[t] = Idle
         /\ \A u \in Task : u # t => task'[u] = task[u]
<1>1. /\ task' \in [Task -> TaskState] /\ task'[t] = Idle
      /\ \A u \in Task : u # t => task'[u] = task[u]
  BY IdleNotWriting, TaskChanges DEF Return, TypeInv
<1>2. task'[t].at = "idle"
  BY <1>1 DEF Idle
<1> QED BY <1>1, <1>2, TargetsStay

\* A call that begins loads the file first.
LEMMA EnterTypes ==
  ASSUME TypeInv, NEW t \in Task, NEW o \in {"complete", "renew"},
         NEW c \in Client \cup {NoClient}, Enter(t, o, c)
  PROVE  TypeInv' /\ task'[t].at = "load" /\ \A u \in Task : u # t => task'[u] = task[u]
<1>1. PICK x : x = [at |-> "load", op |-> o, client |-> c, now |-> now,
                    state |-> EmptyTable]
  OBVIOUS
<1>2. x \in TaskState /\ x.at = "load" /\ task' = [task EXCEPT ![t] = x]
  BY <1>1, EmptyIsTable DEF Enter, TypeInv, TypeOK, TaskState, Writing
<1>3. /\ task' \in [Task -> TaskState] /\ task'[t] = x
      /\ \A u \in Task : u # t => task'[u] = task[u]
  BY <1>2, TaskChanges DEF TypeInv
<1>4. TargetsKnown'
  BY <1>2, <1>3, TargetsStay
<1>5. disturbed' \in BOOLEAN
  BY DEF Enter, TypeInv, TypeOK
<1> QED BY <1>2, <1>3, <1>4, <1>5
        DEF Enter, TypeInv, TypeOK, store, daemon, drawn

\* The stages of a call keep the types.
LEMMA TaskStepTypes ==
  ASSUME TypeInv, NEW t \in Task, TaskStep(t)
  PROVE  TypeInv'
<1> USE DEF TypeInv
<1>1. CASE load_client_credentials_or_default(t)
  <2>1. PICK state \in Loadable :
          task' = [task EXCEPT ![t].at = "remember", ![t].state = state]
    BY <1>1 DEF load_client_credentials_or_default
  <2>2. At(t, "load") /\ state \in Table
    BY <1>1, LoadableType DEF load_client_credentials_or_default
  <2>3. task' \in [Task -> TaskState] /\ TargetsKnown'
    BY <2>1, <2>2, LoadChanges, TargetsStay
  <2> QED BY <1>1, <2>3 DEF load_client_credentials_or_default, TypeOK, store,
                            daemon, drawn, history
<1>2. CASE LoadFails(t) \/ RenewRefused(t) \/ OpenFails(t)
  <2>1. Return(t) /\ UNCHANGED <<store, daemon, drawn, authenticated, subscription, history>>
    BY <1>2 DEF LoadFails, RenewRefused, OpenFails
  <2> QED BY <2>1, ReturnTypes DEF TypeOK, store, daemon, drawn, history
<1>3. CASE Remember(t)
  <2>1. At(t, "remember") /\ Goto(t, "modify") /\ task[t].state \in Table
    BY <1>3, TaskTypes DEF Remember, At, Writing
  <2>2. task' \in [Task -> TaskState] /\ TargetsKnown'
    BY <2>1, GotoChanges, TargetsStay DEF At, Writing
  <2> QED BY <1>3, <2>1, <2>2 DEF Remember, TypeOK, daemon, drawn, history
<1>4. CASE IssueSecret(t) \/ RenewRecord(t)
  <2>1. PICK c \in Client, rec \in Record :
          Truncate(t, c, [task[t].state EXCEPT ![c] = rec])
    BY <1>4, Modified
  <2>2. PICK state : state = [task[t].state EXCEPT ![c] = rec]
    OBVIOUS
  <2>3. At(t, "modify") /\ task[t].state \in Table
    BY <1>4, TaskTypes DEF IssueSecret, RenewRecord, At, Writing
  <2>4. state \in Table /\ state[c] = rec
    BY <2>2, <2>3 DEF Table
  <2>5. Truncate(t, c, state)
    BY <2>1, <2>2
  <2>6. task' \in [Task -> TaskState] /\ TargetsKnown'
    BY <2>3, <2>4, <2>5, TruncateChanges, TargetsStay
  <2>7. next_client' \in 1 .. (MaxClients + 1) /\ next_secret' \in 1 .. (MaxSecrets + 1)
    <3>1. CASE IssueSecret(t)
      <4>1. ~Known(t) => next_client \in 1 .. MaxClients
        BY <3>1 DEF IssueSecret, Client
      <4> QED BY <3>1, <4>1, BoundAssumption DEF IssueSecret, TypeOK
    <3>2. CASE RenewRecord(t)
      BY <3>2 DEF RenewRecord, drawn, TypeOK
    <3> QED BY <1>4, <3>1, <3>2
  <2> QED BY <2>5, <2>6, <2>7 DEF Truncate, TypeOK, daemon, history
<1>5. CASE WriteFails(t)
  <2>1. Return(t)
    BY <1>5 DEF WriteFails
  <2> QED BY <1>5, <2>1, ReturnTypes DEF WriteFails, TypeOK, store, daemon, drawn
<1>6. CASE save_client_credentials(t)
  <2>1. At(t, "write") /\ Goto(t, "store") /\ task[t].state \in Table
    BY <1>6, TaskTypes DEF save_client_credentials, At, Writing
  <2>2. task' \in [Task -> TaskState] /\ TargetsKnown'
    BY <2>1, GotoChanges, TargetsStay DEF At, Writing, TargetsKnown
  <2>3. \A c \in Client : task[t].state[c] # NoRecord =>
          <<c, task[t].state[c]>> \in Client \X Record
    BY <2>1 DEF Table
  <2>4. saved' \subseteq Client \X Record
    BY <1>6, <2>3 DEF save_client_credentials, TypeOK
  <2>5. file' \in Table \cup {Torn}
    BY <1>6, <2>1 DEF save_client_credentials
  <2> QED BY <1>6, <2>2, <2>4, <2>5 DEF save_client_credentials, TypeOK, daemon, drawn
<1>7. CASE store_runtime_client_credentials(t)
  <2>1. At(t, "store") /\ Goto(t, "send") /\ task[t].state \in Table
    BY <1>7, TaskTypes DEF store_runtime_client_credentials, At, Writing
  <2>2. task' \in [Task -> TaskState] /\ TargetsKnown'
    BY <2>1, GotoChanges, TargetsStay DEF At, Writing, TargetsKnown
  <2> QED BY <1>7, <2>1, <2>2
          DEF store_runtime_client_credentials, TypeOK, daemon, drawn, history
<1>8. CASE SendAndRespond(t)
  <2>1. At(t, "send") /\ Return(t) /\ task[t].state \in Table
    BY <1>8, TaskTypes DEF SendAndRespond, At, Writing
  <2>2. task[t].client \in Client /\ task[t].state[task[t].client] \in Record
    BY <2>1 DEF TargetsKnown, At
  <2>3. Told(t) \in Record
    <3>1. returned[task[t].client] # NoRecord => returned[task[t].client] \in Record
      BY <2>2 DEF TypeOK, Table
    <3> QED BY <2>2, <3>1 DEF Told, Record
  <2>4. returned' \in Table
    BY <1>8, <2>2, <2>3 DEF SendAndRespond, TypeOK, Table
  <2>5. unheard' \in BOOLEAN
    BY <1>8 DEF SendAndRespond
  <2>6. subscription' \in [Subscriber -> Subscription]
    <3>1. \A x \in Subscription : x # NotSubscribed =>
            [x EXCEPT !.fresh = TRUE] \in Subscription
      BY DEF Subscription
    <3> QED BY <1>8, <3>1 DEF SendAndRespond, Notified, TypeOK, Subscription
  <2> QED BY <1>8, <2>1, <2>4, <2>5, <2>6, ReturnTypes DEF SendAndRespond, TypeOK, daemon, drawn
<1>9. CASE Verify(t)
  <2>1. At(t, "verify") /\ UNCHANGED <<store, daemon, drawn, authenticated, subscription, history>>
    BY <1>9 DEF Verify
  <2>2. task' \in [Task -> TaskState] /\ TargetsKnown'
    <3>1. CASE Return(t)
      BY <3>1, ReturnTypes
    <3>2. CASE ~Return(t)
      <4>1. PICK x : x = [at |-> "admit", rpc |-> task[t].rpc, client |-> task[t].client,
                          secret |-> task[t].secret, now |-> now]
        OBVIOUS
      <4>2. x \in TaskState /\ x.at = "admit"
        BY <2>1, <4>1, TaskTypes DEF At, TaskState, TypeOK
      <4>3. task' = [task EXCEPT ![t] = x]
        BY <1>9, <3>2, <4>1 DEF Verify
      <4> QED BY <4>2, <4>3, TaskChanges, TargetsStay
    <3> QED BY <3>1, <3>2
  <2> QED BY <2>1, <2>2 DEF TypeOK, store, daemon, drawn, history
<1>10. CASE Admit(t)
  <2>1. At(t, "admit") /\ Return(t)
    BY <1>10 DEF Admit
  <2>2. [client |-> task[t].client, secret |-> task[t].secret, at |-> task[t].now]
          \in Authenticated
    BY <2>1, TaskTypes DEF At, Authenticated
  <2>3. authenticated' \in [Rpc -> Authenticated]
    BY <1>10, <2>2 DEF Admit, TypeOK
  <2> QED BY <1>10, <2>1, <2>3, ReturnTypes DEF Admit, TypeOK, store, daemon, drawn, history
<1> QED BY <1>1, <1>2, <1>3, <1>4, <1>5, <1>6, <1>7, <1>8, <1>9, <1>10 DEF TaskStep

\* Steps that start a call, and steps of streams, process and clock.
LEMMA EnterSteps ==
  ASSUME TypeInv,
         \/ \E t \in Task, c \in {NoClient} \cup Drawn : complete_pairing(t, c)
         \/ \E t \in Task, r \in Rpc : renew_client_credential(t, r)
  PROVE  \E t \in Task, o \in {"complete", "renew"}, c \in Client \cup {NoClient} :
           Enter(t, o, c)
<1>1. CASE \E t \in Task, c \in {NoClient} \cup Drawn : complete_pairing(t, c)
  <2>1. Drawn \subseteq Client
    BY BoundAssumption DEF TypeInv, TypeOK, Drawn, Client
  <2> QED BY <1>1, <2>1 DEF complete_pairing
<1>2. CASE \E t \in Task, r \in Rpc : renew_client_credential(t, r)
  <2>1. PICK t \in Task, r \in Rpc : renew_client_credential(t, r)
    BY <1>2
  <2>2. authenticated[r] \in Authenticated /\ authenticated[r] # NotAuthenticated
    BY <2>1 DEF renew_client_credential, TypeInv, TypeOK
  <2>3. authenticated[r].client \in Client
    BY <2>2 DEF Authenticated
  <2> QED BY <2>1, <2>3 DEF renew_client_credential
<1> QED BY <1>1, <1>2

\* The rows for a client's table have their type.
LEMMA InfosType ==
  ASSUME NEW table \in Table
  PROVE  client_infos_from_credentials(table) \in Infos
  BY DEF client_infos_from_credentials, Infos, Table, Record

\* An authentication verifies a secret that was drawn.
LEMMA BeginTypes ==
  ASSUME TypeInv, NEW t \in Task, NEW r \in Rpc, NEW c \in Drawn,
         NEW secret \in 1 .. next_secret - 1, BeginAuthenticate(t, r, c, secret)
  PROVE  TypeInv' /\ task'[t].at = "verify" /\ \A u \in Task : u # t => task'[u] = task[u]
<1>1. PICK x : x = [at |-> "verify", rpc |-> r, client |-> c, secret |-> secret]
  OBVIOUS
<1>2. c \in Client /\ secret \in 1 .. MaxSecrets
  BY BoundAssumption DEF TypeInv, TypeOK, Drawn, Client
<1>3. x \in TaskState /\ x.at = "verify" /\ task' = [task EXCEPT ![t] = x]
  BY <1>1, <1>2 DEF BeginAuthenticate, TaskState
<1>4. /\ task' \in [Task -> TaskState] /\ task'[t] = x
      /\ \A u \in Task : u # t => task'[u] = task[u]
  BY <1>3, TaskChanges DEF TypeInv
<1>5. TargetsKnown'
  BY <1>3, <1>4, TargetsStay
<1> QED BY <1>3, <1>4, <1>5
        DEF BeginAuthenticate, TypeInv, TypeOK, store, daemon, drawn, history

\* The streams of clients keep the types.
LEMMA StreamTypes ==
  ASSUME TypeInv, NEW s \in Subscriber,
         SubscribeClients(s) \/ ClientsChanged(s) \/ ClientsWriteFails(s)
  PROVE  TypeInv'
<1>1. PICK next : next = client_infos_from_credentials(events)
  OBVIOUS
<1>2. next \in Infos
  BY <1>1, InfosType DEF TypeInv, TypeOK
<1>3. subscription' \in [Subscriber -> Subscription]
  <2>1. CASE SubscribeClients(s)
    <3>1. [fresh |-> FALSE, rows |-> next, view |-> next] \in Subscription
      BY <1>2 DEF Subscription
    <3> QED BY <1>1, <2>1, <3>1 DEF SubscribeClients, TypeInv, TypeOK
  <2>2. CASE ClientsChanged(s)
    <3>1. subscription[s] \in [fresh : BOOLEAN, rows : Infos, view : Infos]
      BY <2>2 DEF ClientsChanged, TypeInv, TypeOK, Subscription, NotSubscribed
    <3>2. PICK patch : patch = clients_patch(subscription[s].rows, next)
      OBVIOUS
    <3>3. PICK view : view = ApplyPatch(subscription[s].view, patch, next)
      OBVIOUS
    <3>4. view \in Infos
      BY <1>2, <3>1, <3>3 DEF ApplyPatch, Infos
    <3>5. [fresh |-> FALSE, rows |-> next, view |-> view] \in Subscription
      BY <1>2, <3>4 DEF Subscription
    <3>6. subscription' = [subscription EXCEPT ![s] =
             [fresh |-> FALSE, rows |-> next, view |-> view]]
      BY <1>1, <2>2, <3>2, <3>3 DEF ClientsChanged
    <3> QED BY <3>5, <3>6 DEF TypeInv, TypeOK
  <2>3. CASE ClientsWriteFails(s)
    BY <2>3 DEF ClientsWriteFails, TypeInv, TypeOK, Subscription
  <2> QED BY <2>1, <2>2, <2>3
<1>4. UNCHANGED <<store, daemon, drawn, task, authenticated, history>>
  BY DEF SubscribeClients, ClientsChanged, ClientsWriteFails
<1> QED BY <1>3, <1>4 DEF TypeInv, TypeOK, TargetsKnown, store, daemon, drawn, history

\* So do crashes, restarts and time.
LEMMA ProcessTypes ==
  ASSUME TypeInv, Crash \/ Restart \/ Tick \/ UNCHANGED vars
  PROVE  TypeInv'
<1>1. CASE Crash
  <2>1. /\ task' \in [Task -> TaskState] /\ TargetsKnown'
        /\ authenticated' \in [Rpc -> Authenticated]
        /\ subscription' \in [Subscriber -> Subscription]
    BY <1>1, IdleNotWriting DEF Crash, TargetsKnown, Idle, Authenticated, Subscription
  <2>2. disturbed' \in BOOLEAN
    BY <1>1 DEF Crash, TypeInv, TypeOK
  <2>3. /\ running' = FALSE /\ crashes' \in Nat
        /\ UNCHANGED <<file, client_credentials, events, now, next_client,
                       next_secret, returned, saved, unheard>>
    BY <1>1 DEF Crash, TypeInv, TypeOK, store, drawn
  <2> QED BY <2>1, <2>2, <2>3 DEF TypeInv, TypeOK
<1>2. CASE Restart
  <2>1. client_credentials' \in Table /\ events' \in Table
    BY <1>2, LoadableType DEF Restart, TypeInv
  <2> QED BY <1>2, <2>1 DEF Restart, TypeInv, TypeOK, TargetsKnown, drawn
<1>3. CASE Tick
  BY <1>3 DEF Tick, TypeInv, TypeOK, TargetsKnown, store, drawn, history
<1>4. CASE UNCHANGED vars
  BY <1>4 DEF vars, TypeInv, TypeOK, TargetsKnown, store, daemon, drawn, history
<1> QED BY <1>1, <1>2, <1>3, <1>4

\* So does every step.
LEMMA NextTypes == TypeInv /\ [Next]_vars => TypeInv'
  BY EnterSteps, EnterTypes, BeginTypes, TaskStepTypes, StreamTypes, ProcessTypes
     DEF Next

\* Every variable stays in its type, and a call that writes has a record for
\* the client it answers.
THEOREM TypeCorrect == Spec => []TypeOK
<1>1. Spec => []TypeInv
  BY InitTypes, NextTypes, PTL DEF Spec
<1> QED BY <1>1, PTL DEF TypeInv

-----------------------------------------------------------------------------
(* What was saved *)

SavedIn(table, pairs) ==
  \A c \in Client : table[c] # NoRecord => <<c, table[c]>> \in pairs

\* The client was issued the secret, and it had not expired at the given time.
IssuedIn(client, secret, at, pairs) ==
  \E pair \in pairs : /\ pair[1] = client
                     /\ pair[2].secret = secret
                     /\ at < pair[2].expires

\* A call's state was saved, except while it is about to write a new one.
Loaded == {"remember", "modify", "store", "send"}

\* MemoryWasSaved, with what it rests on: memory is replaced by the file or
\* by the state of a call, and a session is admitted by what was in memory.
SavedInv ==
  /\ TypeInv
  /\ file # Torn => SavedIn(file, saved)
  /\ SavedIn(client_credentials, saved)
  /\ \A t \in Task : task[t].at \in Loaded => SavedIn(task[t].state, saved)
  /\ \A t \in Task : task[t].at = "admit" =>
       IssuedIn(task[t].client, task[t].secret, task[t].now, saved)
  /\ AuthenticatedBySavedSecret

\* Records that were saved stay so.
LEMMA SavedGrows ==
  ASSUME saved \subseteq saved'
  PROVE  /\ \A table : SavedIn(table, saved) => SavedIn(table, saved')
         /\ \A c, secret, at : IssuedIn(c, secret, at, saved) => IssuedIn(c, secret, at, saved')
  BY DEF SavedIn, IssuedIn

\* No client has no secret that was not saved.
LEMMA EmptySaved == \A pairs : SavedIn(EmptyTable, pairs)
  BY DEF SavedIn, EmptyTable

\* What a load returns was saved.
LEMMA LoadableSaved ==
  ASSUME SavedInv
  PROVE  \A state \in Loadable : SavedIn(state, saved)
  BY EmptySaved DEF SavedInv, Loadable

\* The step of one task.
LEMMA SavedStep ==
  ASSUME SavedInv, TypeInv', saved \subseteq saved', NEW t \in Task,
         \A u \in Task : u # t => task'[u] = task[u],
         file' # file /\ file' # Torn => SavedIn(file', saved'),
         SavedIn(client_credentials', saved'),
         task'[t].at \in Loaded => SavedIn(task'[t].state, saved'),
         task'[t].at = "admit" =>
           IssuedIn(task'[t].client, task'[t].secret, task'[t].now, saved'),
         \/ authenticated' = authenticated
         \/ /\ At(t, "admit")
            /\ authenticated' = [authenticated EXCEPT ![task[t].rpc] =
                 [client |-> task[t].client, secret |-> task[t].secret,
                  at |-> task[t].now]]
  PROVE  SavedInv'
<1>1. file' # Torn => SavedIn(file', saved')
  BY SavedGrows DEF SavedInv
<1>2. ASSUME NEW u \in Task, task'[u].at \in Loaded
      PROVE  SavedIn(task'[u].state, saved')
  <2>1. CASE u = t
    BY <1>2, <2>1
  <2>2. CASE u # t
    BY <1>2, <2>2, SavedGrows DEF SavedInv
  <2> QED BY <2>1, <2>2
<1>3. ASSUME NEW u \in Task, task'[u].at = "admit"
      PROVE  IssuedIn(task'[u].client, task'[u].secret, task'[u].now, saved')
  <2>1. CASE u = t
    BY <1>3, <2>1
  <2>2. CASE u # t
    BY <1>3, <2>2, SavedGrows DEF SavedInv
  <2> QED BY <2>1, <2>2
<1>4. ASSUME NEW r \in Rpc, authenticated'[r] # NotAuthenticated
      PROVE  IssuedIn(authenticated'[r].client, authenticated'[r].secret,
                      authenticated'[r].at, saved')
  <2>1. CASE authenticated'[r] = authenticated[r]
    <3>1. IssuedIn(authenticated[r].client, authenticated[r].secret,
                   authenticated[r].at, saved)
      BY <1>4, <2>1 DEF SavedInv, AuthenticatedBySavedSecret, IssuedIn
    <3> QED BY <2>1, <3>1, SavedGrows
  <2>2. CASE authenticated'[r] # authenticated[r]
    <3>1. /\ At(t, "admit")
          /\ authenticated'[r] = [client |-> task[t].client, secret |-> task[t].secret,
                                  at |-> task[t].now]
      BY <2>2 DEF SavedInv, TypeInv, TypeOK
    <3>2. IssuedIn(task[t].client, task[t].secret, task[t].now, saved)
      BY <3>1 DEF SavedInv, At
    <3> QED BY <3>1, <3>2, SavedGrows
  <2> QED BY <2>1, <2>2
<1>5. AuthenticatedBySavedSecret'
  BY <1>4 DEF AuthenticatedBySavedSecret, IssuedIn
<1> QED BY <1>1, <1>2, <1>3, <1>5 DEF SavedInv

\* A call that ends leaves what is remembered as it is.
LEMMA SavedReturn ==
  ASSUME SavedInv, TypeInv', NEW t \in Task, Return(t),
         UNCHANGED <<file, client_credentials, authenticated, saved>>
  PROVE  SavedInv'
<1>1. task'[t].at = "idle" /\ \A u \in Task : u # t => task'[u] = task[u]
  BY ReturnTypes DEF SavedInv, Idle
<1> QED BY <1>1, SavedStep DEF SavedInv, Loaded

\* A call's stages remember only what has been written.
LEMMA TaskStepSaved ==
  ASSUME SavedInv, TypeInv', NEW t \in Task, TaskStep(t)
  PROVE  SavedInv'
<1> USE DEF TypeInv
<1>0. TypeOK /\ TypeInv
  BY DEF SavedInv
<1>1. CASE load_client_credentials_or_default(t)
  <2>1. PICK state \in Loadable :
          task' = [task EXCEPT ![t].at = "remember", ![t].state = state]
    BY <1>1 DEF load_client_credentials_or_default
  <2>2. At(t, "load") /\ state \in Table /\ SavedIn(state, saved)
    BY <1>0, <1>1, LoadableType, LoadableSaved DEF load_client_credentials_or_default
  <2>3. /\ task'[t].at = "remember" /\ task'[t].state = state
        /\ \A u \in Task : u # t => task'[u] = task[u]
    BY <1>0, <2>1, <2>2, LoadChanges
  <2>4. UNCHANGED <<file, client_credentials, authenticated, saved>>
    BY <1>1 DEF load_client_credentials_or_default, store, history
  <2> QED BY <2>2, <2>3, <2>4, SavedStep DEF SavedInv
<1>2. CASE LoadFails(t) \/ RenewRefused(t) \/ OpenFails(t) \/ WriteFails(t)
  <2>1. Return(t) /\ UNCHANGED <<file, client_credentials, authenticated, saved>>
    BY <1>2 DEF LoadFails, RenewRefused, OpenFails, WriteFails, store, history
  <2> QED BY <2>1, SavedReturn
<1>3. CASE Remember(t)
  <2>1. At(t, "remember") /\ Goto(t, "modify") /\ SavedIn(task[t].state, saved)
    BY <1>3 DEF Remember, At, SavedInv, Loaded
  <2>2. /\ task'[t].at = "modify" /\ task'[t].state = task[t].state
        /\ \A u \in Task : u # t => task'[u] = task[u]
    BY <1>0, <2>1, GotoChanges DEF At, Writing
  <2>3. UNCHANGED <<file, authenticated, saved>> /\ client_credentials' = task[t].state
    BY <1>3 DEF Remember, history
  <2> QED BY <2>1, <2>2, <2>3, SavedStep DEF SavedInv
<1>4. CASE IssueSecret(t) \/ RenewRecord(t)
  <2>1. PICK c \in Client, rec \in Record :
          Truncate(t, c, [task[t].state EXCEPT ![c] = rec])
    BY <1>0, <1>4, Modified
  <2>2. PICK state : state = [task[t].state EXCEPT ![c] = rec]
    OBVIOUS
  <2>3. At(t, "modify") /\ state \in Table /\ Truncate(t, c, state)
    <3>1. At(t, "modify") /\ task[t].state \in Table
      BY <1>0, <1>4, TaskTypes DEF IssueSecret, RenewRecord, At, Writing
    <3> QED BY <2>1, <2>2, <3>1 DEF Table
  <2>4. task'[t].at = "write" /\ \A u \in Task : u # t => task'[u] = task[u]
    BY <1>0, <2>3, TruncateChanges
  <2>5. file' = Torn /\ UNCHANGED <<client_credentials, authenticated, saved>>
    BY <2>3 DEF Truncate, history
  <2> QED BY <2>4, <2>5, SavedStep DEF SavedInv, Loaded
<1>6. CASE save_client_credentials(t)
  <2>1. At(t, "write") /\ Goto(t, "store")
    BY <1>6 DEF save_client_credentials
  <2>2. /\ task'[t].at = "store" /\ task'[t].state = task[t].state
        /\ \A u \in Task : u # t => task'[u] = task[u]
    BY <1>0, <2>1, GotoChanges DEF At, Writing
  <2>3. SavedIn(task[t].state, saved') /\ saved \subseteq saved'
    BY <1>6 DEF save_client_credentials, SavedIn
  <2>4. /\ file' = task[t].state \/ file' = Torn
        /\ UNCHANGED <<client_credentials, authenticated>>
    BY <1>6 DEF save_client_credentials
  <2>5. SavedIn(client_credentials', saved')
    BY <2>3, <2>4, SavedGrows DEF SavedInv
  <2> QED BY <2>2, <2>3, <2>4, <2>5, SavedStep
<1>7. CASE store_runtime_client_credentials(t)
  <2>1. At(t, "store") /\ Goto(t, "send") /\ SavedIn(task[t].state, saved)
    BY <1>7 DEF store_runtime_client_credentials, At, SavedInv, Loaded
  <2>2. /\ task'[t].at = "send" /\ task'[t].state = task[t].state
        /\ \A u \in Task : u # t => task'[u] = task[u]
    BY <1>0, <2>1, GotoChanges DEF At, Writing
  <2>3. UNCHANGED <<file, authenticated, saved>> /\ client_credentials' = task[t].state
    BY <1>7 DEF store_runtime_client_credentials, history
  <2> QED BY <2>1, <2>2, <2>3, SavedStep
<1>8. CASE SendAndRespond(t)
  <2>1. Return(t) /\ UNCHANGED <<file, client_credentials, authenticated, saved>>
    BY <1>8 DEF SendAndRespond
  <2> QED BY <2>1, SavedReturn
<1>9. CASE Verify(t)
  <2>1. At(t, "verify") /\ UNCHANGED <<file, client_credentials, authenticated, saved>>
    BY <1>9 DEF Verify, store, history
  <2>2. CASE Return(t)
    BY <2>1, <2>2, SavedReturn
  <2>3. CASE ~Return(t)
    <3>1. PICK x : x = [at |-> "admit", rpc |-> task[t].rpc, client |-> task[t].client,
                        secret |-> task[t].secret, now |-> now]
      OBVIOUS
    <3>2. /\ task[t].client \in Client
          /\ x \in TaskState /\ x.at = "admit"
          /\ x.client = task[t].client /\ x.secret = task[t].secret /\ x.now = now
      BY <1>0, <2>1, <3>1, TaskTypes DEF At, TaskState, TypeOK
    <3>3. verify_session_credentials(t) /\ task' = [task EXCEPT ![t] = x]
      BY <1>9, <2>3, <3>1 DEF Verify
    <3>4. task'[t] = x /\ \A u \in Task : u # t => task'[u] = task[u]
      BY <1>0, <3>2, <3>3, TaskChanges
    <3>5. IssuedIn(x.client, x.secret, x.now, saved)
      <4>1. /\ <<task[t].client, client_credentials[task[t].client]>> \in saved
            /\ client_credentials[task[t].client].secret = task[t].secret
            /\ now < client_credentials[task[t].client].expires
        BY <3>2, <3>3 DEF verify_session_credentials, verify_client_credential,
                          SavedInv, SavedIn
      <4> QED BY <3>2, <4>1 DEF IssuedIn
    <3> QED BY <2>1, <3>2, <3>4, <3>5, SavedStep DEF SavedInv, Loaded
  <2> QED BY <2>2, <2>3
<1>10. CASE Admit(t)
  <2>1. task'[t].at = "idle" /\ \A u \in Task : u # t => task'[u] = task[u]
    BY <1>0, <1>10, ReturnTypes DEF Admit, Idle
  <2> QED BY <1>10, <2>1, SavedStep DEF Admit, SavedInv, Loaded, store, history
<1> QED BY <1>1, <1>2, <1>3, <1>4, <1>6, <1>7, <1>8, <1>9, <1>10 DEF TaskStep

\* At first nothing is remembered.
LEMMA InitSaved == Init => SavedInv
<1> SUFFICES ASSUME Init PROVE SavedInv
  OBVIOUS
<1>1. SavedIn(file, saved) /\ SavedIn(client_credentials, saved)
  BY EmptySaved DEF Init
<1>2. \A t \in Task : task[t].at = "idle"
  BY DEF Init, Idle
<1>3. AuthenticatedBySavedSecret
  BY DEF Init, AuthenticatedBySavedSecret
<1> QED BY <1>1, <1>2, <1>3, InitTypes DEF SavedInv, Loaded

\* Every step keeps what is remembered saved.
LEMMA NextSaved == SavedInv /\ [Next]_vars => SavedInv'
<1> SUFFICES ASSUME SavedInv, [Next]_vars PROVE SavedInv'
  OBVIOUS
<1>0. TypeInv /\ TypeInv'
  BY NextTypes DEF SavedInv
<1>1. CASE \/ \E t \in Task, c \in {NoClient} \cup Drawn : complete_pairing(t, c)
           \/ \E t \in Task, r \in Rpc : renew_client_credential(t, r)
  <2>1. PICK t \in Task, o \in {"complete", "renew"}, c \in Client \cup {NoClient} :
          Enter(t, o, c)
    BY <1>0, <1>1, EnterSteps
  <2>2. task'[t].at = "load" /\ \A u \in Task : u # t => task'[u] = task[u]
    BY <1>0, <2>1, EnterTypes
  <2> QED BY <1>0, <2>1, <2>2, SavedStep DEF Enter, SavedInv, Loaded, store
<1>2. CASE \E t \in Task, r \in Rpc, c \in Drawn, secret \in 1 .. next_secret - 1 :
             BeginAuthenticate(t, r, c, secret)
  <2>1. PICK t \in Task, r \in Rpc, c \in Drawn, secret \in 1 .. next_secret - 1 :
          BeginAuthenticate(t, r, c, secret)
    BY <1>2
  <2>2. task'[t].at = "verify" /\ \A u \in Task : u # t => task'[u] = task[u]
    BY <1>0, <2>1, BeginTypes
  <2> QED BY <1>0, <2>1, <2>2, SavedStep
          DEF BeginAuthenticate, SavedInv, Loaded, store, history
<1>3. CASE \E t \in Task : TaskStep(t)
  BY <1>0, <1>3, TaskStepSaved
<1>4. CASE \/ \E s \in Subscriber : SubscribeClients(s) \/ ClientsChanged(s)
                                     \/ ClientsWriteFails(s)
           \/ Tick \/ UNCHANGED vars
  <2>1. UNCHANGED <<file, client_credentials, task, authenticated, saved>>
    BY <1>4 DEF SubscribeClients, ClientsChanged, ClientsWriteFails, Tick, vars, store, history
  <2> QED BY <1>0, <2>1 DEF SavedInv, SavedIn, IssuedIn, AuthenticatedBySavedSecret
<1>5. CASE Crash
  <2>1. /\ UNCHANGED <<file, client_credentials, saved>>
        /\ \A t \in Task : task'[t].at = "idle"
        /\ \A r \in Rpc : authenticated'[r] = NotAuthenticated
    BY <1>5 DEF Crash, store, Idle
  <2> QED BY <1>0, <2>1 DEF SavedInv, SavedIn, AuthenticatedBySavedSecret, Loaded
<1>6. CASE Restart
  <2>1. UNCHANGED <<file, task, authenticated, saved>>
        /\ SavedIn(client_credentials', saved)
    BY <1>6, LoadableSaved DEF Restart
  <2> QED BY <1>0, <2>1 DEF SavedInv, SavedIn, IssuedIn, AuthenticatedBySavedSecret
<1> QED BY <1>1, <1>2, <1>3, <1>4, <1>5, <1>6 DEF Next

\* What a client can authenticate with has been written to the file.
THEOREM MemorySaved == Spec => []MemoryWasSaved
<1>1. Spec => []SavedInv
  BY InitSaved, NextSaved, PTL DEF Spec
<1>2. SavedInv => MemoryWasSaved
  BY DEF SavedInv, SavedIn, MemoryWasSaved
<1> QED BY <1>1, <1>2, PTL

\* A session is authenticated only by a secret that was issued to its client
\* and had not expired.
THEOREM AuthenticationIsSound == Spec => []AuthenticatedBySavedSecret
<1>1. Spec => []SavedInv
  BY InitSaved, NextSaved, PTL DEF Spec
<1> QED BY <1>1, PTL DEF SavedInv

-----------------------------------------------------------------------------
(* What subscribers see *)

\* A stream's rows are its client's view, and the latest value's once it has
\* looked; no stream outlives the process.
ViewInv ==
  /\ TypeInv
  /\ ~running => /\ \A s \in Subscriber : subscription[s] = NotSubscribed
                 /\ \A t \in Task : task[t] = Idle
  /\ \A s \in Subscriber : subscription[s] # NotSubscribed =>
       /\ subscription[s].view = subscription[s].rows
       /\ ~subscription[s].fresh =>
            subscription[s].rows = client_infos_from_credentials(events)

\* A patch brings the rows it was made from to the rows it was made for.
LEMMA PatchApplies ==
  ASSUME NEW previous \in Infos, NEW next \in Infos
  PROVE  ApplyPatch(previous, clients_patch(previous, next), next) = next
<1>1. \A c \in Client :
        (IF c \in clients_patch(previous, next).upserts THEN next[c]
         ELSE IF c \in clients_patch(previous, next).removes THEN NoRecord
         ELSE previous[c]) = next[c]
  BY DEF clients_patch
<1>2. ApplyPatch(previous, clients_patch(previous, next), next)
        = [c \in Client |-> next[c]]
  BY <1>1 DEF ApplyPatch
<1> QED BY <1>2 DEF Infos

\* Sending the new table leaves the streams to look at it.
LEMMA SendView ==
  ASSUME ViewInv, TypeInv', NEW t \in Task, SendAndRespond(t)
  PROVE  ViewInv'
<1>1. running /\ running'
  BY DEF SendAndRespond, ViewInv, At, Idle, daemon, TypeInv, TypeOK
<1>2. \A s \in Subscriber : subscription[s] = NotSubscribed \/
        subscription[s] \in [fresh : BOOLEAN, rows : Infos, view : Infos]
  BY DEF ViewInv, TypeInv, TypeOK, Subscription
<1>3. ASSUME NEW s \in Subscriber, subscription'[s] # NotSubscribed
      PROVE  subscription'[s].view = subscription'[s].rows /\ subscription'[s].fresh
  BY <1>2, <1>3 DEF SendAndRespond, Notified, ViewInv
<1> QED BY <1>1, <1>3 DEF ViewInv

\* A stream that looks brings its client's view up to date.
LEMMA StreamView ==
  ASSUME ViewInv, TypeInv', NEW s \in Subscriber,
         SubscribeClients(s) \/ ClientsChanged(s)
  PROVE  ViewInv'
<1>1. PICK next : next = client_infos_from_credentials(events)
  OBVIOUS
<1>2. next \in Infos
  BY <1>1, InfosType DEF ViewInv, TypeInv, TypeOK
<1>3. UNCHANGED <<running, events, task>>
  BY DEF SubscribeClients, ClientsChanged, store, daemon
<1>4. running
  <2>1. CASE SubscribeClients(s)
    BY <2>1 DEF SubscribeClients
  <2>2. CASE ClientsChanged(s)
    BY <2>2 DEF ClientsChanged, ViewInv, TypeInv, TypeOK, NotSubscribed
  <2> QED BY <2>1, <2>2
<1>5. subscription' = [subscription EXCEPT ![s] =
        [fresh |-> FALSE, rows |-> next, view |-> next]]
  <2>1. CASE SubscribeClients(s)
    BY <1>1, <2>1 DEF SubscribeClients
  <2>2. CASE ClientsChanged(s)
    <3>1. subscription[s] \in [fresh : BOOLEAN, rows : Infos, view : Infos]
          /\ subscription[s] # NotSubscribed
      BY <2>2 DEF ClientsChanged, ViewInv, TypeInv, TypeOK, Subscription, NotSubscribed
    <3>2. subscription[s].view = subscription[s].rows
      BY <3>1 DEF ViewInv
    <3>3. ApplyPatch(subscription[s].view, clients_patch(subscription[s].rows, next), next)
            = next
      BY <1>2, <3>1, <3>2, PatchApplies
    <3> QED BY <1>1, <2>2, <3>3 DEF ClientsChanged
  <2> QED BY <2>1, <2>2
<1>6. ASSUME NEW u \in Subscriber, subscription'[u] # NotSubscribed
      PROVE  /\ subscription'[u].view = subscription'[u].rows
             /\ ~subscription'[u].fresh => subscription'[u].rows = next
  <2>1. CASE u = s
    BY <1>5, <2>1 DEF ViewInv, TypeInv, TypeOK
  <2>2. CASE u # s
    BY <1>1, <1>5, <1>6, <2>2 DEF ViewInv, TypeInv, TypeOK
  <2> QED BY <2>1, <2>2
<1>7. next = client_infos_from_credentials(events')
  BY <1>1, <1>3
<1> QED BY <1>3, <1>4, <1>6, <1>7 DEF ViewInv

\* A stream that cannot write to its client ends.
LEMMA EndView ==
  ASSUME ViewInv, TypeInv', NEW s \in Subscriber, ClientsWriteFails(s)
  PROVE  ViewInv'
<1>1. UNCHANGED <<running, events, task>>
  BY DEF ClientsWriteFails, store, daemon
<1>2. \A u \in Subscriber : subscription'[u] = NotSubscribed
                            \/ subscription'[u] = subscription[u]
  BY DEF ClientsWriteFails, ViewInv, TypeInv, TypeOK
<1>3. client_infos_from_credentials(events') = client_infos_from_credentials(events)
  BY <1>1
<1> QED BY <1>1, <1>2, <1>3 DEF ViewInv

\* Every other step of a task leaves the streams and their value alone.
LEMMA TaskStepView ==
  ASSUME ViewInv, TypeInv', NEW t \in Task, TaskStep(t)
  PROVE  ViewInv'
<1>1. CASE SendAndRespond(t)
  BY <1>1, SendView
<1>2. CASE ~SendAndRespond(t)
  <2>1. UNCHANGED <<running, events, subscription>>
    BY <1>2 DEF TaskStep, load_client_credentials_or_default, LoadFails, Remember,
       IssueSecret, RenewRecord, Truncate, RenewRefused, OpenFails, WriteFails,
       save_client_credentials, store_runtime_client_credentials, Verify, Admit,
       store, daemon
  <2>2. task[t].at # "idle"
    BY DEF TaskStep, load_client_credentials_or_default, LoadFails, Remember,
       IssueSecret, RenewRecord, RenewRefused, OpenFails, WriteFails,
       save_client_credentials, store_runtime_client_credentials, SendAndRespond,
       Verify, Admit, At
  <2>3. running
    BY <2>2 DEF ViewInv, Idle
  <2>4. client_infos_from_credentials(events') = client_infos_from_credentials(events)
    BY <2>1
  <2> QED BY <2>1, <2>3, <2>4 DEF ViewInv
<1> QED BY <1>1, <1>2

\* At first no stream has sent anything.
LEMMA InitView == Init => ViewInv
  BY InitTypes DEF Init, ViewInv

\* Every step keeps the streams' rows and their clients' views equal.
LEMMA NextView == ViewInv /\ [Next]_vars => ViewInv'
<1> SUFFICES ASSUME ViewInv, [Next]_vars PROVE ViewInv'
  OBVIOUS
<1>0. TypeInv /\ TypeInv'
  BY NextTypes DEF ViewInv
<1>1. CASE \/ \E t \in Task, c \in {NoClient} \cup Drawn : complete_pairing(t, c)
           \/ \E t \in Task, r \in Rpc : renew_client_credential(t, r)
           \/ \E t \in Task, r \in Rpc, c \in Drawn, secret \in 1 .. next_secret - 1 :
                 BeginAuthenticate(t, r, c, secret)
  <2>1. running /\ UNCHANGED <<running, events, subscription>>
    BY <1>1 DEF complete_pairing, renew_client_credential, Enter,
                BeginAuthenticate, store, daemon
  <2>2. client_infos_from_credentials(events') = client_infos_from_credentials(events)
    BY <2>1
  <2> QED BY <1>0, <2>1, <2>2 DEF ViewInv
<1>2. CASE \E t \in Task : TaskStep(t)
  BY <1>0, <1>2, TaskStepView
<1>3. CASE \E s \in Subscriber : SubscribeClients(s) \/ ClientsChanged(s)
                                 \/ ClientsWriteFails(s)
  BY <1>0, <1>3, StreamView, EndView
<1>4. CASE Tick \/ UNCHANGED vars
  <2>1. UNCHANGED <<running, events, subscription, task>>
    BY <1>4 DEF Tick, vars, store, daemon
  <2>2. client_infos_from_credentials(events') = client_infos_from_credentials(events)
    BY <2>1
  <2> QED BY <1>0, <2>1, <2>2 DEF ViewInv
<1>5. CASE Crash
  BY <1>0, <1>5 DEF Crash, ViewInv
<1>6. CASE Restart
  <2>1. /\ \A s \in Subscriber : subscription'[s] = NotSubscribed
        /\ running'
    BY <1>6 DEF Restart, ViewInv
  <2> QED BY <1>0, <2>1 DEF ViewInv
<1> QED BY <1>1, <1>2, <1>3, <1>4, <1>5, <1>6 DEF Next

-----------------------------------------------------------------------------
(* File, memory and channel *)

\* The channel has the table, unless the last one was sent to nobody.
Published(table) == unheard \/ events = table

\* Between calls: what is in the file is in memory, published and told.
Quiet ==
  /\ file # Torn
  /\ client_credentials = file /\ Published(file) /\ returned = file

\* The call will tell its client its new record, and changes no other's.
Pending(t) ==
  /\ \A c \in Client : c # task[t].client => task[t].state[c] = returned[c]
  /\ Told(t) = task[t].state[task[t].client]

\* Where the call that saves has got to.
Stage(t) ==
  /\ task[t].at = "load" => Quiet
  /\ task[t].at \in {"remember", "modify"} => Quiet /\ task[t].state = file
  /\ task[t].at = "write" =>
       /\ file = Torn
       /\ client_credentials = returned /\ Published(returned)
       /\ Pending(t)
  /\ task[t].at = "store" =>
       /\ file = task[t].state
       /\ client_credentials = returned /\ Published(returned)
       /\ Pending(t)
  /\ task[t].at = "send" =>
       /\ file = task[t].state /\ client_credentials = task[t].state
       /\ Published(returned)
       /\ Pending(t)

\* UndisturbedStoreAgrees, strengthened to the steps of the one call there is.
Agreement ==
  /\ \A t, u \in Task : task[t].at \in Writing /\ task[u].at \in Writing => t = u
  /\ \A t \in Task : Stage(t)
  /\ AllIdle => file # Torn /\ returned = file
  /\ AllIdle /\ running => Quiet
  /\ ~running => AllIdle

AgreeInv == TypeInv /\ (~disturbed => Agreement)

\* At first file, memory and channel are empty.
LEMMA InitAgree == Init => AgreeInv
<1> SUFFICES ASSUME Init PROVE AgreeInv
  OBVIOUS
<1>1. \A t \in Task : task[t].at = "idle"
  BY DEF Init, Idle
<1>2. Quiet
  BY EmptyIsTable, TornAssumption DEF Init, Quiet, Published
<1>3. Agreement
  BY <1>1, <1>2 DEF Init, Agreement, Stage, AllIdle, Quiet, Published, Writing
<1> QED BY <1>3, InitTypes DEF AgreeInv

\* No other call saves while one does, if nothing has been disturbed.
LEMMA OthersIdle ==
  ASSUME Agreement, NEW t \in Task, task[t].at \in Writing
  PROVE  running /\ \A u \in Task : u # t => task[u].at \notin Writing
  BY DEF Agreement, AllIdle

\* The step of the one call that saves, which has not come to its end.
LEMMA AgreeMoves ==
  ASSUME Agreement, TypeInv', NEW t \in Task, task[t].at \in Writing,
         \A u \in Task : u # t => task'[u] = task[u],
         task'[t].at \in Writing, Stage(t)', running' = running
  PROVE  Agreement'
<1>1. \A u \in Task : u # t => task'[u].at \notin Writing
  BY OthersIdle
<1>2. \A u \in Task : u # t => Stage(u)'
  BY <1>1 DEF Stage, Writing
<1>3. ~AllIdle' /\ running'
  BY OthersIdle DEF AllIdle
<1> QED BY <1>1, <1>2, <1>3 DEF Agreement

\* The call comes to its end.
LEMMA AgreeEnds ==
  ASSUME Agreement, TypeInv, NEW t \in Task, task[t].at \in Writing, Return(t), Quiet',
         running' = running
  PROVE  Agreement'
<1>1. \A u \in Task : task'[u].at \notin Writing
  BY OthersIdle, ReturnTypes, IdleNotWriting
<1>2. \A u \in Task : Stage(u)'
  BY <1>1 DEF Stage, Writing
<1>3. running'
  BY OthersIdle
<1> QED BY <1>1, <1>2, <1>3 DEF Agreement, Quiet, Published

\* Steps of calls that do not save.
LEMMA AgreeStays ==
  ASSUME Agreement, NEW t \in Task, task[t].at \notin Writing, task'[t].at \notin Writing,
         \A u \in Task : u # t => task'[u] = task[u],
         UNCHANGED <<file, client_credentials, events, returned, unheard, running>>
  PROVE  Agreement'
<1>1. \A u \in Task : task'[u].at \in Writing <=> task[u].at \in Writing
  OBVIOUS
<1>2. ASSUME NEW u \in Task PROVE Stage(u)'
  <2>1. CASE u = t
    BY <2>1 DEF Stage, Writing
  <2>2. CASE u # t
    BY <2>2 DEF Agreement, Stage, Quiet, Published, Pending, Told
  <2> QED BY <2>1, <2>2
<1>3. AllIdle' <=> AllIdle
  BY <1>1 DEF AllIdle
<1>4. ASSUME NEW u \in Task, NEW v \in Task, task'[u].at \in Writing, task'[v].at \in Writing
      PROVE  u = v
  BY <1>1, <1>4 DEF Agreement
<1>5. /\ AllIdle => file # Torn /\ returned = file
      /\ AllIdle /\ running => Quiet
      /\ ~running => AllIdle
  BY DEF Agreement
<1> QED BY <1>2, <1>3, <1>4, <1>5 DEF Agreement, Quiet, Published

\* A save in progress goes on as long as its task keeps its table.
LEMMA PendingStays ==
  ASSUME NEW t \in Task, Pending(t), returned' = returned,
         task'[t].op = task[t].op, task'[t].client = task[t].client,
         task'[t].state = task[t].state
  PROVE  Pending(t)'
  BY DEF Pending, Told

\* What a call is about to write differs from the file by what it will tell.
LEMMA TruncateAgrees ==
  ASSUME Agreement, TypeInv, TypeInv', NEW t \in Task, IssueSecret(t) \/ RenewRecord(t)
  PROVE  Agreement'
<1>1. /\ At(t, "modify") /\ task[t].state \in Table
      /\ task[t].at \in Writing
  BY TaskTypes DEF IssueSecret, RenewRecord, At, Writing, TypeInv
<1>2. Quiet /\ task[t].state = file
  BY <1>1 DEF Agreement, Stage, At
<1>3. PICK c \in Client, rec \in Record :
        /\ Truncate(t, c, [task[t].state EXCEPT ![c] = rec])
        /\ RenewRecord(t) => /\ c = task[t].client /\ task[t].state[c] \in Record
                             /\ rec = [task[t].state[c] EXCEPT !.expires = rec.expires]
  BY Modified DEF TypeInv
<1>4. PICK state : state = [task[t].state EXCEPT ![c] = rec]
  OBVIOUS
<1>5. /\ state \in Table /\ state[c] = rec
      /\ \A d \in Client : d # c => state[d] = task[t].state[d]
  BY <1>1, <1>4 DEF Table
<1>6. Truncate(t, c, state)
  BY <1>3, <1>4
<1>7. /\ task'[t].at = "write" /\ task'[t].op = task[t].op
      /\ task'[t].client = c /\ task'[t].state = state
      /\ \A u \in Task : u # t => task'[u] = task[u]
  BY <1>1, <1>5, <1>6, TruncateChanges DEF TypeInv
<1>8. /\ file' = Torn
      /\ UNCHANGED <<client_credentials, events, returned, unheard, running>>
  BY <1>6 DEF Truncate, daemon, history
<1>9. returned[c] = task[t].state[c]
  BY <1>2 DEF Quiet, Published
<1>10. Told(t)' = rec
  <2>1. CASE IssueSecret(t)
    BY <1>5, <1>7, <2>1 DEF IssueSecret, Told
  <2>2. CASE RenewRecord(t)
    <3>1. /\ task'[t].op = "renew" /\ returned'[c] # NoRecord
          /\ [returned'[c] EXCEPT !.expires = rec.expires] = rec
      BY <1>3, <1>7, <1>8, <1>9, <2>2, RecordAssumption DEF RenewRecord
    <3> QED BY <1>5, <1>7, <3>1 DEF Told
  <2> QED BY <2>1, <2>2
<1>11. \A d \in Client : d # c => state[d] = returned'[d]
  BY <1>2, <1>5, <1>8 DEF Quiet, Published
<1>12. Pending(t)'
  BY <1>5, <1>7, <1>10, <1>11 DEF Pending
<1>13. Stage(t)'
  BY <1>2, <1>7, <1>8, <1>12 DEF Stage, Quiet, Published
<1> QED BY <1>1, <1>7, <1>8, <1>13, AgreeMoves DEF Writing

\* The send is the last of the stages, after which all agree again.
LEMMA SendAgrees ==
  ASSUME Agreement, TypeInv, TypeInv', NEW t \in Task, SendAndRespond(t)
  PROVE  Agreement'
<1>1. At(t, "send") /\ Return(t) /\ task[t].at \in Writing
      /\ task[t].state \in Table /\ task[t].client \in Client
  BY TaskTypes DEF SendAndRespond, At, Writing, TypeInv, TargetsKnown
<1>2. /\ file = task[t].state /\ client_credentials = task[t].state
      /\ Pending(t)
  BY <1>1 DEF Agreement, Stage, At
<1>3. /\ unheard' \/ events' = task[t].state
      /\ returned' = [returned EXCEPT ![task[t].client] = Told(t)]
      /\ UNCHANGED <<file, client_credentials, running>>
  BY DEF SendAndRespond, daemon
<1>4. returned' = task[t].state
  <2>1. \A c \in Client : returned'[c] = task[t].state[c]
    BY <1>1, <1>2, <1>3 DEF Pending, TypeInv, TypeOK, Table
  <2> QED BY <1>1, <2>1 DEF TypeInv, TypeOK, Table
<1>5. Quiet'
  BY <1>1, <1>2, <1>3, <1>4, TornAssumption DEF Quiet, Published
<1> QED BY <1>1, <1>3, <1>5, AgreeEnds

\* Each earlier stage brings one more of them to the new table.
LEMMA TaskStepAgrees ==
  ASSUME Agreement, TypeInv, TypeInv', ~disturbed', NEW t \in Task, TaskStep(t)
  PROVE  Agreement'
<1>0. TypeOK
  BY DEF TypeInv
<1>1. CASE load_client_credentials_or_default(t)
  <2>1. PICK state \in Loadable :
          task' = [task EXCEPT ![t].at = "remember", ![t].state = state]
    BY <1>1 DEF load_client_credentials_or_default
  <2>2. At(t, "load") /\ state \in Table /\ Quiet /\ state = file
    BY <1>0, <1>1, LoadableType
       DEF load_client_credentials_or_default, Agreement, Stage, At, Quiet, Published, Loadable
  <2>3. /\ task'[t].at = "remember" /\ task'[t].state = state
        /\ \A u \in Task : u # t => task'[u] = task[u]
    BY <1>0, <2>1, <2>2, LoadChanges
  <2>4. UNCHANGED <<file, client_credentials, events, returned, unheard, running>>
    BY <1>1 DEF load_client_credentials_or_default, store, daemon, history
  <2>5. Stage(t)'
    BY <2>2, <2>3, <2>4 DEF Stage, Quiet, Published
  <2> QED BY <2>2, <2>3, <2>4, <2>5, AgreeMoves DEF At, Writing
<1>2. CASE LoadFails(t) \/ RenewRefused(t) \/ OpenFails(t)
  <2>1. /\ Return(t) /\ task[t].at \in {"load", "modify"}
        /\ UNCHANGED <<file, client_credentials, events, returned, unheard, running>>
    BY <1>2 DEF LoadFails, RenewRefused, OpenFails, At, store, daemon, history
  <2>2. Quiet /\ Quiet'
    BY <2>1 DEF Agreement, Stage, Quiet, Published
  <2> QED BY <2>1, <2>2, AgreeEnds DEF Writing
<1>3. CASE Remember(t)
  <2>1. At(t, "remember") /\ Goto(t, "modify") /\ Quiet /\ task[t].state = file
    BY <1>3 DEF Remember, At, Agreement, Stage
  <2>2. /\ task'[t].at = "modify" /\ task'[t].state = task[t].state
        /\ \A u \in Task : u # t => task'[u] = task[u]
    BY <1>0, <2>1, GotoChanges DEF At, Writing
  <2>3. UNCHANGED <<file, client_credentials, events, returned, unheard, running>>
    BY <1>3, <2>1 DEF Remember, Quiet, Published, daemon, history
  <2>4. Stage(t)'
    BY <2>1, <2>2, <2>3 DEF Stage, Quiet, Published
  <2> QED BY <2>1, <2>2, <2>3, <2>4, AgreeMoves DEF At, Writing
<1>4. CASE IssueSecret(t) \/ RenewRecord(t)
  BY <1>4, TruncateAgrees
<1>5. CASE WriteFails(t)
  BY <1>5 DEF WriteFails
<1>6. CASE save_client_credentials(t)
  <2>1. /\ At(t, "write") /\ Goto(t, "store") /\ file = Torn
        /\ client_credentials = returned /\ Published(returned) /\ Pending(t)
    BY <1>6 DEF save_client_credentials, Agreement, Stage, At
  <2>2. /\ task'[t].at = "store" /\ task'[t].state = task[t].state
        /\ task'[t].op = task[t].op /\ task'[t].client = task[t].client
        /\ \A u \in Task : u # t => task'[u] = task[u]
    BY <1>0, <2>1, GotoChanges DEF At, Writing
  <2>3. /\ file' = task[t].state
        /\ UNCHANGED <<client_credentials, events, returned, unheard, running>>
    BY <1>6, <2>1 DEF save_client_credentials, daemon
  <2>4. Pending(t)'
    BY <2>1, <2>2, <2>3, PendingStays
  <2>5. Stage(t)'
    BY <2>1, <2>2, <2>3, <2>4 DEF Stage, Published
  <2> QED BY <2>1, <2>2, <2>3, <2>5, AgreeMoves DEF At, Writing
<1>7. CASE store_runtime_client_credentials(t)
  <2>1. /\ At(t, "store") /\ Goto(t, "send") /\ file = task[t].state
        /\ Published(returned) /\ Pending(t)
    BY <1>7 DEF store_runtime_client_credentials, Agreement, Stage, At
  <2>2. /\ task'[t].at = "send" /\ task'[t].state = task[t].state
        /\ task'[t].op = task[t].op /\ task'[t].client = task[t].client
        /\ \A u \in Task : u # t => task'[u] = task[u]
    BY <1>0, <2>1, GotoChanges DEF At, Writing
  <2>3. /\ client_credentials' = task[t].state
        /\ UNCHANGED <<file, events, returned, unheard, running>>
    BY <1>7 DEF store_runtime_client_credentials, daemon, history
  <2>4. Pending(t)'
    BY <2>1, <2>2, <2>3, PendingStays
  <2>5. Stage(t)'
    BY <2>1, <2>2, <2>3, <2>4 DEF Stage, Published
  <2> QED BY <2>1, <2>2, <2>3, <2>5, AgreeMoves DEF At, Writing
<1>8. CASE SendAndRespond(t)
  BY <1>8, SendAgrees
<1>9. CASE Verify(t) \/ Admit(t)
  <2>1. /\ task[t].at \notin Writing
        /\ UNCHANGED <<file, client_credentials, events, returned, unheard, running>>
    BY <1>9 DEF Verify, Admit, At, Writing, store, daemon, history
  <2>2. task'[t].at \notin Writing /\ \A u \in Task : u # t => task'[u] = task[u]
    <3>1. CASE Return(t)
      BY <3>1, ReturnTypes, IdleNotWriting
    <3>2. CASE ~Return(t)
      BY <1>9, <3>2 DEF Verify, Admit, Writing, TypeInv, TypeOK
    <3> QED BY <3>1, <3>2
  <2> QED BY <2>1, <2>2, AgreeStays
<1> QED BY <1>1, <1>2, <1>3, <1>4, <1>5, <1>6, <1>7, <1>8, <1>9 DEF TaskStep

\* A call that saves begins; what it overlaps is disturbed.
LEMMA EnterAgrees ==
  ASSUME Agreement, TypeInv, ~disturbed', NEW t \in Task, NEW o \in {"complete", "renew"},
         NEW c \in Client \cup {NoClient}, Enter(t, o, c)
  PROVE  Agreement'
<1>1. AllIdle /\ running /\ running'
      /\ UNCHANGED <<file, client_credentials, events, returned, unheard>>
  BY DEF Enter, AllIdle, store, daemon
<1>2. Quiet /\ Quiet'
  BY <1>1 DEF Agreement, Quiet, Published
<1>3. task'[t].at = "load" /\ \A u \in Task : u # t => task'[u].at \notin Writing
  BY <1>1, EnterTypes DEF AllIdle
<1>4. \A u \in Task : Stage(u)'
  BY <1>2, <1>3 DEF Stage, Writing
<1>5. ~AllIdle'
  BY <1>3 DEF AllIdle, Writing
<1> QED BY <1>1, <1>3, <1>4, <1>5 DEF Agreement

\* Every step keeps the agreement unless it disturbs the store.
LEMMA NextAgree == AgreeInv /\ [Next]_vars => AgreeInv'
<1> SUFFICES ASSUME AgreeInv, [Next]_vars, ~disturbed' PROVE Agreement'
  BY NextTypes DEF AgreeInv
<1>0. TypeInv /\ TypeInv'
  BY NextTypes DEF AgreeInv
<1>1. ~disturbed
  <2>1. ~disturbed \/ disturbed'
    BY DEF Next, complete_pairing, renew_client_credential, Enter, BeginAuthenticate,
       TaskStep, load_client_credentials_or_default, LoadFails, Remember,
       IssueSecret, RenewRecord, Truncate, RenewRefused, OpenFails, WriteFails,
       save_client_credentials, store_runtime_client_credentials, SendAndRespond,
       Verify, Admit, SubscribeClients, ClientsChanged, ClientsWriteFails, Crash, Restart, Tick,
       vars, history
  <2> QED BY <2>1
<1>2. Agreement
  BY <1>1 DEF AgreeInv
<1>3. CASE \/ \E t \in Task, c \in {NoClient} \cup Drawn : complete_pairing(t, c)
           \/ \E t \in Task, r \in Rpc : renew_client_credential(t, r)
  BY <1>0, <1>2, <1>3, EnterSteps, EnterAgrees
<1>4. CASE \E t \in Task, r \in Rpc, c \in Drawn, secret \in 1 .. next_secret - 1 :
             BeginAuthenticate(t, r, c, secret)
  <2>1. PICK t \in Task, r \in Rpc, c \in Drawn, secret \in 1 .. next_secret - 1 :
          BeginAuthenticate(t, r, c, secret)
    BY <1>4
  <2>2. task'[t].at \notin Writing /\ \A u \in Task : u # t => task'[u] = task[u]
    BY <1>0, <2>1, BeginTypes DEF Writing
  <2>3. /\ task[t].at \notin Writing
        /\ UNCHANGED <<file, client_credentials, events, returned, unheard, running>>
    BY <2>1, IdleNotWriting DEF BeginAuthenticate, store, daemon, history
  <2> QED BY <1>2, <2>2, <2>3, AgreeStays
<1>5. CASE \E t \in Task : TaskStep(t)
  BY <1>0, <1>2, <1>5, TaskStepAgrees
<1>6. CASE \/ \E s \in Subscriber : SubscribeClients(s) \/ ClientsChanged(s)
                                     \/ ClientsWriteFails(s)
           \/ Tick \/ UNCHANGED vars
  <2>1. UNCHANGED <<file, client_credentials, events, returned, unheard, running,
                  task>>
    BY <1>6 DEF SubscribeClients, ClientsChanged, ClientsWriteFails, Tick, vars, store, daemon, history
  <2>2. \A t \in Task : Stage(t)'
    BY <1>2, <2>1 DEF Agreement, Stage, Quiet, Published, Pending, Told
  <2>3. (AllIdle' <=> AllIdle) /\ (Quiet' <=> Quiet)
    BY <2>1 DEF AllIdle, Quiet, Published
  <2> QED BY <1>2, <2>1, <2>2, <2>3 DEF Agreement
<1>7. CASE Crash
  <2>1. AllIdle /\ UNCHANGED <<file, returned>> /\ ~running'
    BY <1>7 DEF Crash, AllIdle, store
  <2>2. \A t \in Task : task'[t].at \notin Writing
    BY <1>7, IdleNotWriting DEF Crash
  <2>3. \A t \in Task : Stage(t)'
    BY <2>2 DEF Stage, Writing
  <2>4. AllIdle'
    BY <2>2 DEF AllIdle
  <2> QED BY <1>2, <2>1, <2>2, <2>3, <2>4 DEF Agreement
<1>8. CASE Restart
  <2>1. AllIdle /\ file # Torn /\ returned = file
    BY <1>2, <1>8 DEF Restart, Agreement
  <2>2. Quiet' /\ AllIdle'
    BY <1>8, <2>1 DEF Restart, Loadable, Quiet, Published, AllIdle, history
  <2>3. \A t \in Task : Stage(t)'
    BY <2>2 DEF AllIdle, Stage, Writing
  <2>4. running' /\ file' # Torn /\ returned' = file'
    BY <2>2, <1>8 DEF Restart, Quiet, Published
  <2> QED BY <2>2, <2>3, <2>4 DEF Agreement, AllIdle
<1> QED BY <1>3, <1>4, <1>5, <1>6, <1>7, <1>8 DEF Next

\* Calls that do not overlap and whose writes succeed leave the file, memory
\* and what each client was told in agreement, and the watch channel too unless
\* nobody was there to receive what was sent last.
THEOREM UndisturbedAgrees == Spec => []UndisturbedStoreAgrees
<1>1. Spec => []AgreeInv
  BY InitAgree, NextAgree, PTL DEF Spec
<1>2. AgreeInv => UndisturbedStoreAgrees
  BY DEF AgreeInv, Agreement, Quiet, Published, UndisturbedStoreAgrees
<1> QED BY <1>1, <1>2, PTL

\* A stream that has looked at the latest value shows exactly its rows, which
\* are those of the credentials in memory unless calls disturbed each other or
\* the last table was sent before any stream was there.
THEOREM ViewIsCurrent == Spec => []ClientsViewIsCurrent
<1>1. Spec => [](ViewInv /\ UndisturbedStoreAgrees)
  BY InitView, NextView, UndisturbedAgrees, PTL DEF Spec
<1>2. ViewInv /\ UndisturbedStoreAgrees => ClientsViewIsCurrent
  BY DEF ViewInv, UndisturbedStoreAgrees, ClientsViewIsCurrent
<1> QED BY <1>1, <1>2, PTL
=============================================================================
