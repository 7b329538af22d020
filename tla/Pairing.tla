------------------------------- MODULE Pairing -------------------------------
(***************************************************************************)
(* Pairing attempts and the pairing challenge (StartPairing and            *)
(* CompletePairing in daemon/host/src/server.rs, PairingState).            *)
(*                                                                         *)
(* Every StartPairing call is an attempt with an id of its own.  It waits  *)
(* for the local user twice, to confirm the request and to be shown the    *)
(* code, without holding the lock of the pairing state, so attempts of     *)
(* several RPC sessions and completions interleave at every step.          *)
(* The six-digit code of an attempt is abstracted to the attempt's id, so  *)
(* codes of different attempts are taken to differ; what a client types is *)
(* any of them.  Requests that are refused before an attempt begins        *)
(* (malformed confirmation code, no notifier) change nothing and are left  *)
(* out.  The credential that a completed pairing issues is the subject of  *)
(* module Credentials.                                                     *)
(***************************************************************************)
EXTENDS Integers, Sequences

CONSTANTS
    Rpc,            \* RPC session ids
    Key,            \* PairingAttemptKey: client ids and Anonymous
    Task,           \* tasks that serve CompletePairing calls
    Ttl,            \* PAIRING_TTL_SECONDS
    MaxAttempts,    \* bound: StartPairing calls
    MaxTime         \* bound: the clock

ASSUME BoundAssumption ==
    /\ Ttl \in Nat
    /\ MaxAttempts \in Nat
    /\ MaxTime \in Nat

Attempt == 1 .. MaxAttempts
NoAttempt == 0      \* key absent from current_attempts; ids start at 1
NoChallenge == [attempt_id |-> NoAttempt]

VARIABLES
    next_attempt_id,    \* the last id handed out
    current_attempts,   \* the attempt that counts, for each key
    active_challenge,
    now,
    start,              \* the StartPairing call of each attempt
    completing,         \* the CompletePairing call of each task
    confirmed,          \* history: attempts the local user confirmed
    issued              \* history: credentials issued

vars == <<next_attempt_id, current_attempts, active_challenge, now, start,
          completing, confirmed, issued>>

-----------------------------------------------------------------------------
(* Types *)

Stage == {"confirming", "checking", "creating", "notifying", "succeeded",
          "failed"}

\* A StartPairing call: where it is, who made it, for which key, and when the
\* code that it created expires.
NotStarted == [stage |-> "none"]
Start == {NotStarted} \cup [stage : Stage, rpc : Rpc, key : Key, expires : Nat]

Challenge == [attempt_id : Attempt, attempt_key : Key, owner_session_id : Rpc,
              expires_at_unix : Nat]

NotCompleting == [code |-> NoAttempt]
Completion == {NotCompleting} \cup [rpc : Rpc, code : Attempt, at : Nat]

Issue == [attempt : Attempt, rpc : Rpc, at : Nat]

TypeOK ==
    /\ next_attempt_id \in 0 .. MaxAttempts
    /\ current_attempts \in [Key -> Attempt \cup {NoAttempt}]
    /\ active_challenge \in Challenge \cup {NoChallenge}
    /\ now \in Nat
    /\ start \in [Attempt -> Start]
    /\ completing \in [Task -> Completion]
    /\ confirmed \subseteq Attempt
    /\ issued \in Seq(Issue)

-----------------------------------------------------------------------------

Init ==
    /\ next_attempt_id = 0
    /\ current_attempts = [k \in Key |-> NoAttempt]
    /\ active_challenge = NoChallenge
    /\ now = 0
    /\ start = [a \in Attempt |-> NotStarted]
    /\ completing = [t \in Task |-> NotCompleting]
    /\ confirmed = {}
    /\ issued = <<>>

-----------------------------------------------------------------------------
(* StartPairing *)

At(a, stage) == start[a].stage = stage
Goto(a, stage) == start' = [start EXCEPT ![a].stage = stage]

IsCurrent(a) == current_attempts[start[a].key] = a

\* Mutant: an earlier code for the key stays valid.
MutantChallengeAfterBegin(k) == active_challenge

\* A new attempt for a key withdraws the code shown for the key before.
ChallengeAfterBegin(k) ==
    IF active_challenge # NoChallenge /\ active_challenge.attempt_key = k
    THEN NoChallenge ELSE active_challenge

begin_pairing_attempt(r, k) ==
    /\ next_attempt_id < MaxAttempts
    /\ LET a == next_attempt_id + 1
       IN  /\ next_attempt_id' = a
           /\ current_attempts' = [current_attempts EXCEPT ![k] = a]
           /\ start' = [start EXCEPT ![a] =
                  [stage |-> "confirming", rpc |-> r, key |-> k, expires |-> 0]]
    /\ active_challenge' = ChallengeAfterBegin(k)
    /\ UNCHANGED <<now, completing, confirmed, issued>>

\* load_runtime_config fails: the call returns, and the attempt stays the
\* current one of its key.
LoadConfigFails(a) ==
    /\ At(a, "confirming")
    /\ Goto(a, "failed")
    /\ UNCHANGED <<next_attempt_id, current_attempts, active_challenge, now,
                   completing, confirmed, issued>>

\* The configuration is loaded, and the local user picks the right
\* confirmation code, or does not.
ConfirmPairingRequest(a) ==
    /\ At(a, "confirming")
    /\ Goto(a, "checking")
    /\ confirmed' = confirmed \cup {a}
    /\ UNCHANGED <<next_attempt_id, current_attempts, active_challenge, now,
                   completing, issued>>

RejectPairingRequest(a) ==
    /\ At(a, "confirming")
    /\ Goto(a, "failed")
    /\ current_attempts' = IF IsCurrent(a)
                           THEN [current_attempts EXCEPT ![start[a].key] = NoAttempt]
                           ELSE current_attempts
    /\ UNCHANGED <<next_attempt_id, active_challenge, now, completing,
                   confirmed, issued>>

\* expires_at_unix of a code created now.
create_pairing_code == now + Ttl

\* is_current_pairing_attempt, then the clock is read for create_pairing_code.
CheckCurrent(a) ==
    /\ At(a, "checking")
    /\ IsCurrent(a)
    /\ start' = [start EXCEPT ![a].stage = "creating", ![a].expires = create_pairing_code]
    /\ UNCHANGED <<next_attempt_id, current_attempts, active_challenge, now,
                   completing, confirmed, issued>>

\* Mutant: a superseded attempt is not noticed once its code is created.
MutantStillCurrent(a) == TRUE

\* The second check, made under the lock that stores the challenge.
StillCurrent(a) == IsCurrent(a)

\* "pairing request was superseded", found at either check.
Superseded(a) ==
    /\ \/ At(a, "checking") /\ ~IsCurrent(a)
       \/ At(a, "creating") /\ ~StillCurrent(a)
    /\ Goto(a, "failed")
    /\ UNCHANGED <<next_attempt_id, current_attempts, active_challenge, now,
                   completing, confirmed, issued>>

\* The challenge replaces any other, that of another key included.
StoreChallenge(a) ==
    /\ At(a, "creating")
    /\ StillCurrent(a)
    /\ active_challenge' = [attempt_id |-> a, attempt_key |-> start[a].key,
                            owner_session_id |-> start[a].rpc,
                            expires_at_unix |-> start[a].expires]
    /\ Goto(a, "notifying")
    /\ UNCHANGED <<next_attempt_id, current_attempts, now, completing,
                   confirmed, issued>>

\* The code is shown locally, and the call returns the expiry.
NotifyPairingCode(a) ==
    /\ At(a, "notifying")
    /\ Goto(a, "succeeded")
    /\ UNCHANGED <<next_attempt_id, current_attempts, active_challenge, now,
                   completing, confirmed, issued>>

NotifyFails(a) ==
    /\ At(a, "notifying")
    /\ Goto(a, "failed")
    /\ IF active_challenge.attempt_id = a
       THEN /\ active_challenge' = NoChallenge
            /\ current_attempts' =
                   [current_attempts EXCEPT ![start[a].key] = NoAttempt]
       ELSE UNCHANGED <<active_challenge, current_attempts>>
    /\ UNCHANGED <<next_attempt_id, now, completing, confirmed, issued>>

-----------------------------------------------------------------------------
(* CompletePairing *)

\* The clock is read before the lock of the pairing state is awaited.
BeginComplete(t, r, code) ==
    /\ completing[t] = NotCompleting
    /\ completing' = [completing EXCEPT ![t] =
                         [rpc |-> r, code |-> code, at |-> now]]
    /\ UNCHANGED <<next_attempt_id, current_attempts, active_challenge, now,
                   start, confirmed, issued>>

Respond(t) ==
    /\ completing[t] # NotCompleting
    /\ completing' = [completing EXCEPT ![t] = NotCompleting]

\* Mutant: any session may complete the pairing.
MutantOwns(t) == active_challenge # NoChallenge
Owns(t) ==
    /\ active_challenge # NoChallenge
    /\ active_challenge.owner_session_id = completing[t].rpc

Expired(t) == completing[t].at >= active_challenge.expires_at_unix

\* pairing_not_started, or invalid_pairing_code: the challenge stays.
CompleteRefused(t) ==
    /\ Respond(t)
    /\ \/ ~Owns(t)
       \/ Owns(t) /\ ~Expired(t) /\ completing[t].code # active_challenge.attempt_id
    /\ UNCHANGED <<next_attempt_id, current_attempts, active_challenge, now,
                   start, confirmed, issued>>

Withdraw ==
    /\ active_challenge' = NoChallenge
    /\ current_attempts' =
           [current_attempts EXCEPT ![active_challenge.attempt_key] = NoAttempt]

CompleteExpired(t) ==
    /\ Respond(t)
    /\ Owns(t)
    /\ Expired(t)
    /\ Withdraw
    /\ UNCHANGED <<next_attempt_id, now, start, confirmed, issued>>

\* Mutant: the code is checked and left in place.
MutantTakeChallenge == UNCHANGED <<active_challenge, current_attempts>>
TakeChallenge == Withdraw

\* The code is right: the challenge is taken and a credential issued.
complete_pairing(t) ==
    /\ Respond(t)
    /\ Owns(t)
    /\ ~Expired(t)
    /\ completing[t].code = active_challenge.attempt_id
    /\ TakeChallenge
    /\ issued' = Append(issued, [attempt |-> active_challenge.attempt_id,
                                 rpc |-> completing[t].rpc,
                                 at |-> completing[t].at])
    /\ UNCHANGED <<next_attempt_id, now, start, confirmed>>

Tick ==
    /\ now < MaxTime
    /\ now' = now + 1
    /\ UNCHANGED <<next_attempt_id, current_attempts, active_challenge, start,
                   completing, confirmed, issued>>

-----------------------------------------------------------------------------

StartStep(a) ==
    \/ LoadConfigFails(a)
    \/ ConfirmPairingRequest(a) \/ RejectPairingRequest(a)
    \/ CheckCurrent(a) \/ Superseded(a) \/ StoreChallenge(a)
    \/ NotifyPairingCode(a) \/ NotifyFails(a)

CompleteStep(t) ==
    CompleteRefused(t) \/ CompleteExpired(t) \/ complete_pairing(t)

Next ==
    \/ \E r \in Rpc, k \in Key : begin_pairing_attempt(r, k)
    \/ \E a \in Attempt : StartStep(a)
    \/ \E t \in Task, r \in Rpc, code \in Attempt : BeginComplete(t, r, code)
    \/ \E t \in Task : CompleteStep(t)
    \/ Tick

Spec == Init /\ [][Next]_vars

-----------------------------------------------------------------------------
(* Properties *)

\* The code that can be completed belongs to the latest attempt for its key,
\* so a newer request of the same client always invalidates the older code,
\* whichever of their steps interleave.
ChallengeIsCurrent ==
    active_challenge # NoChallenge =>
        current_attempts[active_challenge.attempt_key] = active_challenge.attempt_id

\* A credential is issued only for an attempt the local user confirmed, to the
\* RPC session that started it, and before the code expired.
IssuedToConfirmedStarter ==
    \A n \in DOMAIN issued :
        LET i == issued[n]
        IN  /\ i.attempt \in confirmed
            /\ start[i.attempt].rpc = i.rpc
            /\ i.at < start[i.attempt].expires

\* A code is good for one credential, however many completions are under way.
CodeIsOneTime ==
    \A m, n \in DOMAIN issued : issued[m].attempt = issued[n].attempt => m = n

\* No credential is issued for an attempt once a newer attempt for the same
\* key has begun.
NothingIssuedAfterSuperseded ==
    [][issued' # issued =>
           LET i == issued'[Len(issued')]
           IN  \A a \in i.attempt + 1 .. next_attempt_id :
                   start[a].key # start[i.attempt].key]_vars
=============================================================================
