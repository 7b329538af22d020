---------------------------- MODULE Pairing_proofs ----------------------------
(***************************************************************************)
(* Proofs about Pairing, for every number of RPC sessions, keys, tasks and *)
(* attempts and for every lifetime of a code: types, which challenge there *)
(* can be, and for whom and how often credentials are issued.              *)
(***************************************************************************)
EXTENDS Pairing, TLAPS, SequenceTheorems

-----------------------------------------------------------------------------
(* The inductive invariant *)

\* The record of a StartPairing call that has been made.
Started == [stage : Stage, rpc : Rpc, key : Key, expires : Nat]

\* Where an attempt is once its challenge has been stored, or it has failed.
Past == {"notifying", "succeeded", "failed"}

\* Attempts are handed out in order, and none gets on unconfirmed.
AttemptsInOrder ==
    \A a \in Attempt :
        /\ start[a] # NotStarted <=> a <= next_attempt_id
        /\ start[a].stage \in {"checking", "creating", "notifying", "succeeded"}
           => a \in confirmed

\* The current attempt of a key is the last one made for it.
CurrentIsLatest ==
    \A k \in Key :
        LET a == current_attempts[k]
        IN  a # NoAttempt =>
                /\ start[a] # NotStarted
                /\ start[a].key = k
                /\ \A b \in a + 1 .. next_attempt_id : start[b].key # k

\* The challenge repeats what its attempt recorded.
ChallengeOfAttempt ==
    active_challenge # NoChallenge =>
        LET a == active_challenge.attempt_id
        IN  /\ start[a] # NotStarted
            /\ start[a].stage \in Past
            /\ a \in confirmed
            /\ start[a].key = active_challenge.attempt_key
            /\ start[a].rpc = active_challenge.owner_session_id
            /\ start[a].expires = active_challenge.expires_at_unix

\* What has been issued for will not be stored or completed again.
IssuedIsSpent ==
    \A n \in DOMAIN issued :
        /\ start[issued[n].attempt] # NotStarted
        /\ start[issued[n].attempt].stage \in Past
        /\ active_challenge # NoChallenge =>
               issued[n].attempt # active_challenge.attempt_id

PairingInv ==
    /\ TypeOK
    /\ AttemptsInOrder
    /\ CurrentIsLatest
    /\ ChallengeIsCurrent
    /\ ChallengeOfAttempt
    /\ IssuedIsSpent
    /\ IssuedToConfirmedStarter
    /\ CodeIsOneTime

-----------------------------------------------------------------------------
(* Steps of a call *)

\* A call that is somewhere is a call that was made.
LEMMA StartedType ==
    ASSUME TypeOK, NEW a \in Attempt, start[a] # NotStarted
    PROVE  start[a] \in Started
BY DEF TypeOK, Start, Started

\* What has been issued was issued for some attempt.
LEMMA IssuedType ==
    ASSUME TypeOK
    PROVE  \A n \in DOMAIN issued :
               issued[n].attempt \in Attempt /\ issued[n].rpc \in Rpc
<1>1. issued \in Seq(Issue)
  BY DEF TypeOK
<1>2. \A n \in DOMAIN issued : issued[n] \in Issue
  BY <1>1, ElementOfSeq, LenProperties
<1> QED
  BY <1>2 DEF Issue

\* A session without an attempt.
LEMMA NotStartedStage == NotStarted.stage = "none"
BY DEF NotStarted

\* An attempt's step changes its stage, to one no less advanced, and for the
\* rest leaves its record and the other attempts alone.
LEMMA GotoStep ==
    ASSUME TypeOK, NEW a \in Attempt, start[a] # NotStarted,
           NEW stage \in Stage, Goto(a, stage)
    PROVE  /\ start' \in [Attempt -> Start]
           /\ \A b \in Attempt : b # a => start'[b] = start[b]
           /\ start'[a] # NotStarted
           /\ start'[a].stage = stage
           /\ start'[a].rpc = start[a].rpc
           /\ start'[a].key = start[a].key
           /\ start'[a].expires = start[a].expires
<1>1. start[a] \in Started /\ start \in [Attempt -> Start]
  BY StartedType DEF TypeOK
<1>2. start' = [start EXCEPT ![a] = [start[a] EXCEPT !.stage = stage]]
  BY DEF Goto
<1>3. [start[a] EXCEPT !.stage = stage] \in Started
  BY <1>1 DEF Started
<1>4. /\ [start[a] EXCEPT !.stage = stage].stage = stage
      /\ [start[a] EXCEPT !.stage = stage].rpc = start[a].rpc
      /\ [start[a] EXCEPT !.stage = stage].key = start[a].key
      /\ [start[a] EXCEPT !.stage = stage].expires = start[a].expires
  BY <1>1 DEF Started
<1>5. stage # "none"
  BY DEF Stage
<1>6. [start[a] EXCEPT !.stage = stage] # NotStarted
  BY <1>4, <1>5, NotStartedStage
<1> HIDE DEF NotStarted
<1>7. start'[a] = [start[a] EXCEPT !.stage = stage]
  BY <1>1, <1>2
<1>8. \A b \in Attempt : b # a => start'[b] = start[b]
  BY <1>1, <1>2
<1>9. start' \in [Attempt -> Start]
  BY <1>1, <1>2, <1>3 DEF Start, Started
<1> QED
  BY <1>4, <1>6, <1>7, <1>8, <1>9

\* What every step but the first of an attempt leaves of the attempts.
Kept ==
    /\ next_attempt_id' = next_attempt_id
    /\ confirmed \subseteq confirmed'
    /\ \A b \in Attempt :
           /\ start'[b] # NotStarted <=> start[b] # NotStarted
           /\ start[b] # NotStarted =>
                  /\ start'[b].key = start[b].key
                  /\ start'[b].rpc = start[b].rpc
                  /\ start[b].stage \in Past =>
                         /\ start'[b].stage \in Past
                         /\ start'[b].expires = start[b].expires

\* A step that keeps the attempts, issues nothing and at most withdraws
\* challenge and current attempts keeps the invariant.
LEMMA KeptInv ==
    ASSUME PairingInv, TypeOK', AttemptsInOrder', ChallengeIsCurrent', Kept,
           issued' = issued,
           \A k \in Key : current_attempts'[k] \in {current_attempts[k], NoAttempt},
           active_challenge' \in {active_challenge, NoChallenge}
    PROVE  PairingInv'
<1> USE DEF PairingInv
<1>1. CurrentIsLatest'
  <2> SUFFICES ASSUME NEW k \in Key, current_attempts'[k] # NoAttempt
               PROVE  LET a == current_attempts'[k]
                      IN  /\ start'[a] # NotStarted
                          /\ start'[a].key = k
                          /\ \A b \in a + 1 .. next_attempt_id' : start'[b].key # k
    BY DEF CurrentIsLatest
  <2> DEFINE a == current_attempts[k]
  <2>1. current_attempts'[k] = a /\ a \in Attempt
    BY DEF TypeOK
  <2>2. start[a] # NotStarted /\ start[a].key = k
    BY <2>1 DEF CurrentIsLatest
  <2>3. ASSUME NEW b \in a + 1 .. next_attempt_id PROVE start'[b].key # k
    <3>1. b \in Attempt /\ b <= next_attempt_id
      BY <2>1, BoundAssumption DEF TypeOK, Attempt
    <3>2. start[b] # NotStarted /\ start[b].key # k
      BY <2>1, <3>1 DEF CurrentIsLatest, AttemptsInOrder
    <3> QED
      BY <3>1, <3>2 DEF Kept
  <2> QED
    BY <2>1, <2>2, <2>3 DEF Kept
<1>2. ChallengeOfAttempt'
  <2> SUFFICES ASSUME active_challenge' # NoChallenge PROVE ChallengeOfAttempt'
    BY DEF ChallengeOfAttempt
  <2>1. active_challenge' = active_challenge /\ active_challenge \in Challenge
    BY DEF TypeOK
  <2>2. active_challenge.attempt_id \in Attempt
    BY <2>1 DEF Challenge
  <2> QED
    BY <2>1, <2>2 DEF ChallengeOfAttempt, Kept
<1>3. \A n \in DOMAIN issued : issued[n].attempt \in Attempt
  BY IssuedType
<1>4. IssuedIsSpent'
  BY <1>3 DEF IssuedIsSpent, Kept
<1>5. IssuedToConfirmedStarter'
  BY <1>3 DEF IssuedToConfirmedStarter, IssuedIsSpent, Kept
<1>6. CodeIsOneTime'
  BY DEF CodeIsOneTime
<1> QED
  BY <1>1, <1>2, <1>4, <1>5, <1>6

\* An attempt that goes from one stage to the next keeps the attempts.
LEMMA GotoKeeps ==
    ASSUME PairingInv, NEW a \in Attempt, start[a] # NotStarted,
           NEW stage \in Stage, Goto(a, stage),
           next_attempt_id' = next_attempt_id,
           confirmed \subseteq confirmed',
           start[a].stage \in Past => stage \in Past,
           stage # "failed" => a \in confirmed'
    PROVE  AttemptsInOrder' /\ Kept
<1> USE DEF PairingInv
<1>1. /\ \A b \in Attempt : b # a => start'[b] = start[b]
      /\ start'[a] # NotStarted
      /\ start'[a].stage = stage
      /\ start'[a].rpc = start[a].rpc
      /\ start'[a].key = start[a].key
      /\ start'[a].expires = start[a].expires
  BY GotoStep
<1>2. AttemptsInOrder'
  BY <1>1 DEF AttemptsInOrder
<1>3. Kept
  BY <1>1 DEF Kept
<1> QED
  BY <1>2, <1>3

-----------------------------------------------------------------------------
(* One lemma for each kind of step *)

LEMMA PairingInit == Init => PairingInv
<1> SUFFICES ASSUME Init PROVE PairingInv
  OBVIOUS
<1>1. <<>> \in Seq(Issue) /\ DOMAIN <<>> = {}
  OBVIOUS
<1>2. TypeOK
  BY <1>1, BoundAssumption DEF Init, TypeOK, Start, Completion
<1>3. AttemptsInOrder
  BY NotStartedStage, BoundAssumption DEF Init, AttemptsInOrder, Attempt
<1> QED
  BY <1>1, <1>2, <1>3
     DEF Init, PairingInv, CurrentIsLatest, ChallengeIsCurrent, ChallengeOfAttempt,
         IssuedIsSpent, IssuedToConfirmedStarter, CodeIsOneTime

\* Beginning an attempt ends the session's earlier one.
LEMMA BeginInv ==
    ASSUME PairingInv, NEW r \in Rpc, NEW k \in Key, begin_pairing_attempt(r, k)
    PROVE  PairingInv'
<1> USE DEF PairingInv
<1> DEFINE a == next_attempt_id + 1
           record == [stage |-> "confirming", rpc |-> r, key |-> k, expires |-> 0]
<1>1. a \in Attempt /\ next_attempt_id \in Nat /\ a # NoAttempt
  BY BoundAssumption DEF begin_pairing_attempt, TypeOK, Attempt, NoAttempt
<1>2. /\ start[a] = NotStarted
      /\ \A b \in Attempt : b # a => (b <= a <=> b <= next_attempt_id)
  BY <1>1 DEF AttemptsInOrder, Attempt
<1>3. /\ record \in Started
      /\ record.stage = "confirming" /\ record.key = k
      /\ record # NotStarted
  <2>1. record \in Started /\ record.stage = "confirming" /\ record.key = k
    BY DEF Started, Stage
  <2> QED
    BY <2>1, NotStartedStage
<1>4. /\ next_attempt_id' = a
      /\ current_attempts' = [current_attempts EXCEPT ![k] = a]
      /\ start' = [start EXCEPT ![a] = record]
      /\ active_challenge' = ChallengeAfterBegin(k)
      /\ UNCHANGED <<now, completing, confirmed, issued>>
  BY DEF begin_pairing_attempt
<1> HIDE DEF record
<1>5. /\ start'[a] = record
      /\ \A b \in Attempt : b # a => start'[b] = start[b]
  BY <1>1, <1>4 DEF TypeOK
<1>6. active_challenge' \in {active_challenge, NoChallenge}
  BY <1>4 DEF ChallengeAfterBegin
<1>7. TypeOK'
  <2>1. next_attempt_id' \in 0 .. MaxAttempts
    BY <1>1, <1>4, BoundAssumption DEF Attempt
  <2>2. start' \in [Attempt -> Start]
    BY <1>3, <1>4 DEF TypeOK, Start, Started
  <2>3. current_attempts' \in [Key -> Attempt \cup {NoAttempt}]
    BY <1>1, <1>4 DEF TypeOK
  <2> QED
    BY <1>4, <1>6, <2>1, <2>2, <2>3 DEF TypeOK
<1>8. AttemptsInOrder'
  BY <1>1, <1>2, <1>3, <1>4, <1>5 DEF AttemptsInOrder
<1>9. CurrentIsLatest'
  <2> SUFFICES ASSUME NEW j \in Key, current_attempts'[j] # NoAttempt
               PROVE  LET c == current_attempts'[j]
                      IN  /\ start'[c] # NotStarted
                          /\ start'[c].key = j
                          /\ \A b \in c + 1 .. a : start'[b].key # j
    BY <1>4 DEF CurrentIsLatest
  <2>1. CASE j = k
    <3>1. current_attempts'[j] = a
      BY <1>4, <2>1 DEF TypeOK
    <3> QED
      BY <1>1, <1>3, <1>5, <2>1, <3>1
  <2>2. CASE j # k
    <3> DEFINE c == current_attempts[j]
    <3>1. current_attempts'[j] = c /\ c \in Attempt /\ c # a
      BY <1>1, <1>2, <1>4, <2>2 DEF TypeOK, CurrentIsLatest
    <3>2. ASSUME NEW b \in c + 1 .. a PROVE start'[b].key # j
      <4>1. CASE b = a
        BY <1>3, <1>5, <2>2, <4>1
      <4>2. CASE b # a
        <5>1. b \in c + 1 .. next_attempt_id /\ b \in Attempt
          BY <1>1, <3>1, <4>2, BoundAssumption DEF Attempt
        <5> QED
          BY <1>5, <3>1, <4>2, <5>1 DEF CurrentIsLatest
      <4> QED
        BY <4>1, <4>2
    <3> QED
      BY <1>5, <3>1, <3>2 DEF CurrentIsLatest
  <2> QED
    BY <2>1, <2>2
<1>10. ASSUME active_challenge' # NoChallenge
       PROVE  /\ active_challenge' = active_challenge
              /\ active_challenge.attempt_key # k
              /\ active_challenge.attempt_key \in Key
              /\ active_challenge.attempt_id \in Attempt
              /\ active_challenge.attempt_id # a
  <2>1. active_challenge' = active_challenge /\ active_challenge.attempt_key # k
    BY <1>4, <1>6, <1>10 DEF ChallengeAfterBegin
  <2>2. active_challenge \in Challenge
    BY <1>10, <2>1 DEF TypeOK
  <2> QED
    BY <1>2, <1>10, <2>1, <2>2 DEF Challenge, ChallengeOfAttempt
<1>11. ChallengeIsCurrent'
  BY <1>4, <1>10 DEF ChallengeIsCurrent, TypeOK
<1>12. ChallengeOfAttempt'
  BY <1>4, <1>5, <1>10 DEF ChallengeOfAttempt
<1>13. ASSUME NEW n \in DOMAIN issued
       PROVE  issued[n].attempt \in Attempt /\ issued[n].attempt # a
  BY <1>2, IssuedType DEF IssuedIsSpent
<1>14. IssuedIsSpent'
  BY <1>4, <1>5, <1>6, <1>13 DEF IssuedIsSpent
<1>15. IssuedToConfirmedStarter' /\ CodeIsOneTime'
  BY <1>4, <1>5, <1>13 DEF IssuedToConfirmedStarter, CodeIsOneTime
<1> QED
  BY <1>7, <1>8, <1>9, <1>11, <1>12, <1>14, <1>15

\* The steps of StartPairing that neither withdraw nor store anything.
LEMMA QuietStartInv ==
    ASSUME PairingInv, NEW a \in Attempt,
           \/ LoadConfigFails(a) \/ ConfirmPairingRequest(a)
           \/ Superseded(a) \/ NotifyPairingCode(a)
    PROVE  PairingInv'
<1> USE DEF PairingInv
<1>1. start[a] # NotStarted
  BY NotStartedStage
     DEF LoadConfigFails, ConfirmPairingRequest, Superseded, NotifyPairingCode, At
<1>2. PICK stage \in {"checking", "succeeded", "failed"} :
          /\ Goto(a, stage)
          /\ stage = "checking" => a \in confirmed' /\ start[a].stage = "confirming"
          /\ stage = "succeeded" => start[a].stage = "notifying"
  BY DEF LoadConfigFails, ConfirmPairingRequest, Superseded, NotifyPairingCode, At
<1>3. /\ UNCHANGED <<next_attempt_id, current_attempts, active_challenge, now,
                     completing, issued>>
      /\ confirmed' \in {confirmed, confirmed \cup {a}}
  BY DEF LoadConfigFails, ConfirmPairingRequest, Superseded, NotifyPairingCode
<1>4. AttemptsInOrder' /\ Kept
  BY <1>1, <1>2, <1>3, GotoKeeps DEF Stage, Past, AttemptsInOrder
<1>5. start' \in [Attempt -> Start]
  BY <1>1, <1>2, GotoStep DEF Stage
<1>6. TypeOK'
  BY <1>3, <1>5 DEF TypeOK
<1>7. ChallengeIsCurrent'
  BY <1>3 DEF ChallengeIsCurrent
<1> QED
  BY <1>3, <1>4, <1>6, <1>7, KeptInv

\* A rejected request withdraws itself, if it is the current one; no challenge
\* depends on it, as none has been stored yet.
LEMMA RejectInv ==
    ASSUME PairingInv, NEW a \in Attempt, RejectPairingRequest(a)
    PROVE  PairingInv'
<1> USE DEF PairingInv
<1>1. start[a] # NotStarted /\ start[a].stage = "confirming" /\ Goto(a, "failed")
  BY NotStartedStage DEF RejectPairingRequest, At
<1>2. UNCHANGED <<next_attempt_id, active_challenge, now, completing, confirmed,
                  issued>>
  BY DEF RejectPairingRequest
<1>3. AttemptsInOrder' /\ Kept
  BY <1>1, <1>2, GotoKeeps DEF Stage, Past
<1>4. start[a].key \in Key
  BY <1>1, StartedType DEF Started
<1>5. \A k \in Key :
          \/ current_attempts'[k] = current_attempts[k]
          \/ current_attempts[k] = a /\ current_attempts'[k] = NoAttempt
  BY <1>4 DEF RejectPairingRequest, IsCurrent, TypeOK
<1>6. current_attempts' \in [Key -> Attempt \cup {NoAttempt}]
  BY DEF RejectPairingRequest, TypeOK
<1>7. start' \in [Attempt -> Start]
  BY <1>1, GotoStep DEF Stage
<1>8. TypeOK'
  BY <1>2, <1>6, <1>7 DEF TypeOK
<1>9. ChallengeIsCurrent'
  <2> SUFFICES ASSUME active_challenge # NoChallenge PROVE ChallengeIsCurrent'
    BY <1>2 DEF ChallengeIsCurrent
  <2>1. active_challenge.attempt_key \in Key
    BY DEF TypeOK, Challenge
  <2>2. active_challenge.attempt_id # a
    BY <1>1 DEF ChallengeOfAttempt, Past
  <2> QED
    BY <1>2, <1>5, <2>1, <2>2 DEF ChallengeIsCurrent
<1> QED
  BY <1>2, <1>3, <1>5, <1>8, <1>9, KeptInv

\* The code is created: its expiry is recorded, which so far nothing relies on.
LEMMA CheckInv ==
    ASSUME PairingInv, NEW a \in Attempt, CheckCurrent(a)
    PROVE  PairingInv'
<1> USE DEF PairingInv
<1> DEFINE record == [start[a] EXCEPT !.stage = "creating", !.expires = create_pairing_code]
<1>1. start[a] # NotStarted /\ start[a].stage = "checking"
  BY NotStartedStage DEF CheckCurrent, At
<1>2. start[a] \in Started
  BY <1>1, StartedType
<1>3. create_pairing_code \in Nat
  BY BoundAssumption DEF create_pairing_code, TypeOK
<1>4. /\ record \in Started
      /\ record.stage = "creating"
      /\ record.rpc = start[a].rpc
      /\ record.key = start[a].key
  BY <1>2, <1>3 DEF Started, Stage
<1>5. record # NotStarted
  BY <1>4, NotStartedStage
<1>6. /\ start' = [start EXCEPT ![a] = record]
      /\ UNCHANGED <<next_attempt_id, current_attempts, active_challenge, now,
                     completing, confirmed, issued>>
  BY DEF CheckCurrent
<1> HIDE DEF record
<1>7. start'[a] = record /\ \A b \in Attempt : b # a => start'[b] = start[b]
  BY <1>6 DEF TypeOK
<1>8. TypeOK'
  BY <1>4, <1>6 DEF TypeOK, Start, Started
<1>9. AttemptsInOrder'
  BY <1>1, <1>4, <1>5, <1>6, <1>7 DEF AttemptsInOrder
<1>10. Kept
  BY <1>1, <1>4, <1>5, <1>6, <1>7 DEF Kept, Past
<1>11. ChallengeIsCurrent'
  BY <1>6 DEF ChallengeIsCurrent
<1> QED
  BY <1>6, <1>8, <1>9, <1>10, <1>11, KeptInv

\* The challenge is stored: its attempt is the current one, and nothing has
\* been issued for it, as its stage has only now become one of Past.
LEMMA StoreInv ==
    ASSUME PairingInv, NEW a \in Attempt, StoreChallenge(a)
    PROVE  PairingInv'
<1> USE DEF PairingInv
<1> DEFINE challenge == [attempt_id |-> a, attempt_key |-> start[a].key,
                         owner_session_id |-> start[a].rpc,
                         expires_at_unix |-> start[a].expires]
<1>1. /\ start[a] # NotStarted /\ start[a].stage = "creating"
      /\ Goto(a, "notifying")
      /\ current_attempts[start[a].key] = a
  BY NotStartedStage DEF StoreChallenge, At, StillCurrent, IsCurrent
<1>2. /\ active_challenge' = challenge
      /\ UNCHANGED <<next_attempt_id, current_attempts, now, completing, confirmed,
                     issued>>
  BY DEF StoreChallenge
<1>3. start[a] \in Started
  BY <1>1, StartedType
<1>4. /\ challenge \in Challenge
      /\ challenge.attempt_id = a
      /\ challenge.attempt_key = start[a].key
      /\ challenge.owner_session_id = start[a].rpc
      /\ challenge.expires_at_unix = start[a].expires
  BY <1>3 DEF Challenge, Started
<1> HIDE DEF challenge
<1>5. /\ start' \in [Attempt -> Start]
      /\ \A b \in Attempt : b # a => start'[b] = start[b]
      /\ start'[a] # NotStarted
      /\ start'[a].stage = "notifying"
      /\ start'[a].rpc = start[a].rpc
      /\ start'[a].key = start[a].key
      /\ start'[a].expires = start[a].expires
  BY <1>1, GotoStep DEF Stage
<1>6. AttemptsInOrder' /\ Kept
  BY <1>1, <1>2, GotoKeeps DEF Stage, Past, AttemptsInOrder
<1>7. TypeOK'
  BY <1>2, <1>4, <1>5 DEF TypeOK
<1>8. CurrentIsLatest'
  <2> SUFFICES ASSUME NEW k \in Key, current_attempts[k] # NoAttempt
               PROVE  LET c == current_attempts[k]
                      IN  /\ start'[c] # NotStarted
                          /\ start'[c].key = k
                          /\ \A b \in c + 1 .. next_attempt_id : start'[b].key # k
    BY <1>2 DEF CurrentIsLatest
  <2>1. current_attempts[k] \in Attempt
    BY DEF TypeOK
  <2>2. current_attempts[k] + 1 .. next_attempt_id \subseteq Attempt
    BY <2>1, BoundAssumption DEF TypeOK, Attempt
  <2>3. \A b \in Attempt : start'[b].key = start[b].key
    BY <1>5
  <2>4. start'[current_attempts[k]] # NotStarted
    BY <1>5, <2>1 DEF CurrentIsLatest
  <2> QED
    BY <2>1, <2>2, <2>3, <2>4 DEF CurrentIsLatest
<1>9. ChallengeIsCurrent'
  BY <1>1, <1>2, <1>4 DEF ChallengeIsCurrent
<1>10. ChallengeOfAttempt'
  BY <1>1, <1>2, <1>4, <1>5 DEF ChallengeOfAttempt, AttemptsInOrder, Past
<1>11. \A n \in DOMAIN issued :
           issued[n].attempt \in Attempt /\ issued[n].attempt # a
  BY <1>1, IssuedType DEF IssuedIsSpent, Past
<1>12. IssuedIsSpent'
  BY <1>2, <1>4, <1>5, <1>11 DEF IssuedIsSpent
<1>13. IssuedToConfirmedStarter' /\ CodeIsOneTime'
  BY <1>2, <1>5, <1>11 DEF IssuedToConfirmedStarter, CodeIsOneTime
<1> QED
  BY <1>6, <1>7, <1>8, <1>9, <1>10, <1>12, <1>13

\* The code could not be shown: its own challenge is withdrawn, no other one.
LEMMA NotifyFailsInv ==
    ASSUME PairingInv, NEW a \in Attempt, NotifyFails(a)
    PROVE  PairingInv'
<1> USE DEF PairingInv
<1>1. start[a] # NotStarted /\ start[a].stage = "notifying" /\ Goto(a, "failed")
  BY NotStartedStage DEF NotifyFails, At
<1>2. UNCHANGED <<next_attempt_id, now, completing, confirmed, issued>>
  BY DEF NotifyFails
<1>3. AttemptsInOrder' /\ Kept
  BY <1>1, <1>2, GotoKeeps DEF Stage, Past
<1>4. \/ UNCHANGED <<active_challenge, current_attempts>>
      \/ /\ active_challenge' = NoChallenge
         /\ current_attempts' = [current_attempts EXCEPT ![start[a].key] = NoAttempt]
  BY DEF NotifyFails
<1>5. /\ current_attempts' \in [Key -> Attempt \cup {NoAttempt}]
      /\ \A k \in Key : current_attempts'[k] \in {current_attempts[k], NoAttempt}
  BY <1>4 DEF TypeOK
<1>6. start' \in [Attempt -> Start]
  BY <1>1, GotoStep DEF Stage
<1>7. TypeOK'
  BY <1>2, <1>4, <1>5, <1>6 DEF TypeOK
<1>8. ChallengeIsCurrent'
  BY <1>4 DEF ChallengeIsCurrent
<1> QED
  BY <1>2, <1>3, <1>4, <1>5, <1>7, <1>8, KeptInv
\* A completion that issues nothing leaves the attempts alone.
LEMMA CompleteNothingInv ==
    ASSUME PairingInv, NEW t \in Task, CompleteRefused(t) \/ CompleteExpired(t)
    PROVE  PairingInv'
<1> USE DEF PairingInv
<1>1. completing' = [completing EXCEPT ![t] = NotCompleting]
  BY DEF CompleteRefused, CompleteExpired, Respond
<1>2. UNCHANGED <<next_attempt_id, now, start, confirmed, issued>>
  BY DEF CompleteRefused, CompleteExpired
<1>3. \/ UNCHANGED <<active_challenge, current_attempts>>
      \/ Withdraw
  BY DEF CompleteRefused, CompleteExpired
<1>4. /\ current_attempts' \in [Key -> Attempt \cup {NoAttempt}]
      /\ \A k \in Key : current_attempts'[k] \in {current_attempts[k], NoAttempt}
      /\ active_challenge' \in {active_challenge, NoChallenge}
  BY <1>3 DEF Withdraw, TypeOK
<1>5. TypeOK'
  BY <1>1, <1>2, <1>4 DEF TypeOK, Completion
<1>6. AttemptsInOrder' /\ Kept
  BY <1>2 DEF AttemptsInOrder, Kept
<1>7. ChallengeIsCurrent'
  BY <1>3 DEF ChallengeIsCurrent, Withdraw
<1> QED
  BY <1>2, <1>4, <1>5, <1>6, <1>7, KeptInv

\* Steps that touch neither the attempts nor the challenge.
LEMMA ClockInv ==
    ASSUME PairingInv,
           \/ Tick
           \/ \E t \in Task, r \in Rpc, code \in Attempt : BeginComplete(t, r, code)
           \/ UNCHANGED vars
    PROVE  PairingInv'
<1> USE DEF PairingInv
<1>1. UNCHANGED <<next_attempt_id, current_attempts, active_challenge, start,
                  confirmed, issued>>
  BY DEF Tick, BeginComplete, vars
<1>2. now' \in Nat
  BY DEF Tick, BeginComplete, vars, TypeOK
<1>3. completing' \in [Task -> Completion]
  BY DEF Tick, BeginComplete, vars, TypeOK, Completion
<1>4. TypeOK'
  BY <1>1, <1>2, <1>3 DEF TypeOK
<1>5. AttemptsInOrder' /\ Kept /\ ChallengeIsCurrent'
  BY <1>1 DEF AttemptsInOrder, Kept, ChallengeIsCurrent
<1> QED
  BY <1>1, <1>4, <1>5, KeptInv

\* What the challenge says when its code is found right.
CompletedFor(t) ==
    [attempt |-> active_challenge.attempt_id, rpc |-> completing[t].rpc,
     at |-> completing[t].at]

\* A completed pairing issues for a confirmed attempt, to its starter and in
\* time, and never for one it has issued for before: IssuedIsSpent.
LEMMA CompleteInv ==
    ASSUME PairingInv, NEW t \in Task, complete_pairing(t)
    PROVE  PairingInv'
<1> USE DEF PairingInv
<1> DEFINE a == active_challenge.attempt_id
           new == CompletedFor(t)
<1>1. /\ active_challenge # NoChallenge
      /\ active_challenge \in Challenge
      /\ completing[t] \in [rpc : Rpc, code : Attempt, at : Nat]
  BY DEF complete_pairing, Owns, Respond, TypeOK, Completion
<1>2. /\ start[a] # NotStarted
      /\ start[a].stage \in Past
      /\ a \in confirmed
      /\ a \in Attempt
      /\ start[a].rpc = active_challenge.owner_session_id
      /\ start[a].expires = active_challenge.expires_at_unix
  BY <1>1 DEF ChallengeOfAttempt, Challenge
<1>3. /\ new \in Issue
      /\ new.attempt = a
      /\ new.rpc = completing[t].rpc
      /\ new.at = completing[t].at
  BY <1>1, <1>2 DEF CompletedFor, Issue
<1>4. start[a].rpc = completing[t].rpc
  BY <1>2 DEF complete_pairing, Owns
<1>5. completing[t].at < start[a].expires
  <2>1. active_challenge.expires_at_unix \in Nat /\ completing[t].at \in Nat
    BY <1>1 DEF Challenge
  <2>2. ~(completing[t].at >= active_challenge.expires_at_unix)
    BY DEF complete_pairing, Expired
  <2> QED
    BY <1>2, <2>1, <2>2
<1>6. /\ active_challenge' = NoChallenge
      /\ current_attempts' =
             [current_attempts EXCEPT ![active_challenge.attempt_key] = NoAttempt]
      /\ issued' = Append(issued, new)
      /\ completing' = [completing EXCEPT ![t] = NotCompleting]
      /\ UNCHANGED <<next_attempt_id, now, start, confirmed>>
  BY DEF complete_pairing, TakeChallenge, Withdraw, Respond, CompletedFor
<1> HIDE DEF new
<1>7. issued \in Seq(Issue)
  BY DEF TypeOK
<1>8. /\ Len(issued) \in Nat
      /\ DOMAIN issued = 1 .. Len(issued)
      /\ DOMAIN issued' = 1 .. Len(issued) + 1
      /\ issued'[Len(issued) + 1] = new
      /\ \A n \in DOMAIN issued : issued'[n] = issued[n]
  BY <1>3, <1>6, <1>7
<1>9. \A n \in DOMAIN issued' : n \in DOMAIN issued \/ issued'[n] = new
  BY <1>8
<1>10. \A n \in DOMAIN issued : issued[n].attempt # a
  BY <1>1 DEF IssuedIsSpent
<1>11. TypeOK'
  <2>1. issued' \in Seq(Issue)
    BY <1>3, <1>6, <1>7
  <2>2. current_attempts' \in [Key -> Attempt \cup {NoAttempt}]
    BY <1>6 DEF TypeOK
  <2>3. completing' \in [Task -> Completion]
    BY <1>6 DEF TypeOK, Completion
  <2> QED
    BY <1>6, <2>1, <2>2, <2>3 DEF TypeOK
<1>12. AttemptsInOrder'
  BY <1>6 DEF AttemptsInOrder
<1>13. CurrentIsLatest'
  BY <1>6 DEF CurrentIsLatest, TypeOK
<1>14. ChallengeIsCurrent' /\ ChallengeOfAttempt'
  BY <1>6 DEF ChallengeIsCurrent, ChallengeOfAttempt
<1>15. IssuedIsSpent'
  BY <1>2, <1>3, <1>6, <1>8, <1>9 DEF IssuedIsSpent
<1>16. IssuedToConfirmedStarter'
  BY <1>2, <1>3, <1>4, <1>5, <1>6, <1>8, <1>9 DEF IssuedToConfirmedStarter
<1>17. CodeIsOneTime'
  <2> SUFFICES ASSUME NEW m \in DOMAIN issued', NEW n \in DOMAIN issued',
                      issued'[m].attempt = issued'[n].attempt
               PROVE  m = n
    BY DEF CodeIsOneTime
  <2>1. CASE m \in DOMAIN issued /\ n \in DOMAIN issued
    BY <1>8, <2>1 DEF CodeIsOneTime
  <2>2. CASE m \notin DOMAIN issued /\ n \notin DOMAIN issued
    BY <1>8, <2>2
  <2>3. CASE m \in DOMAIN issued /\ n \notin DOMAIN issued
    BY <1>3, <1>8, <1>9, <1>10, <2>3
  <2>4. CASE m \notin DOMAIN issued /\ n \in DOMAIN issued
    BY <1>3, <1>8, <1>9, <1>10, <2>4
  <2> QED
    BY <2>1, <2>2, <2>3, <2>4
<1> QED
  BY <1>11, <1>12, <1>13, <1>14, <1>15, <1>16, <1>17

\* Every step keeps the invariant.
LEMMA PairingStep == PairingInv /\ [Next]_vars => PairingInv'
<1> SUFFICES ASSUME PairingInv, [Next]_vars PROVE PairingInv'
  OBVIOUS
<1>1. CASE \E r \in Rpc, k \in Key : begin_pairing_attempt(r, k)
  BY <1>1, BeginInv
<1>2. CASE \E a \in Attempt : StartStep(a)
  <2> PICK a \in Attempt : StartStep(a)
    BY <1>2
  <2>1. CASE \/ LoadConfigFails(a) \/ ConfirmPairingRequest(a)
             \/ Superseded(a) \/ NotifyPairingCode(a)
    BY <2>1, QuietStartInv
  <2>2. CASE RejectPairingRequest(a)
    BY <2>2, RejectInv
  <2>3. CASE CheckCurrent(a)
    BY <2>3, CheckInv
  <2>4. CASE StoreChallenge(a)
    BY <2>4, StoreInv
  <2>5. CASE NotifyFails(a)
    BY <2>5, NotifyFailsInv
  <2> QED
    BY <2>1, <2>2, <2>3, <2>4, <2>5 DEF StartStep
<1>3. CASE \E t \in Task : CompleteStep(t)
  <2> PICK t \in Task : CompleteStep(t)
    BY <1>3
  <2>1. CASE CompleteRefused(t) \/ CompleteExpired(t)
    BY <2>1, CompleteNothingInv
  <2>2. CASE complete_pairing(t)
    BY <2>2, CompleteInv
  <2> QED
    BY <2>1, <2>2 DEF CompleteStep
<1>4. CASE \/ Tick
           \/ \E t \in Task, r \in Rpc, code \in Attempt : BeginComplete(t, r, code)
           \/ UNCHANGED vars
  BY <1>4, ClockInv
<1> QED
  BY <1>1, <1>2, <1>3, <1>4 DEF Next

\* The attempt that is issued for is the current one of its key, and so the
\* last one made for it.
LEMMA IssueStep ==
    PairingInv /\ [Next]_vars =>
        (issued' # issued =>
            LET i == issued'[Len(issued')]
            IN  \A a \in i.attempt + 1 .. next_attempt_id :
                    start[a].key # start[i.attempt].key)
<1> SUFFICES ASSUME PairingInv, [Next]_vars, issued' # issued
             PROVE  LET i == issued'[Len(issued')]
                    IN  \A a \in i.attempt + 1 .. next_attempt_id :
                            start[a].key # start[i.attempt].key
  OBVIOUS
<1> USE DEF PairingInv
<1>1. PICK t \in Task : complete_pairing(t)
  BY DEF Next, vars, StartStep, CompleteStep, begin_pairing_attempt, LoadConfigFails,
         ConfirmPairingRequest, RejectPairingRequest, CheckCurrent, Superseded,
         StoreChallenge, NotifyPairingCode, NotifyFails, BeginComplete,
         CompleteRefused, CompleteExpired, Tick
<1>2. active_challenge # NoChallenge /\ active_challenge \in Challenge
  BY <1>1 DEF complete_pairing, Owns, TypeOK
<1> DEFINE b == active_challenge.attempt_id
           k == active_challenge.attempt_key
<1>3. /\ issued' = Append(issued, CompletedFor(t))
      /\ CompletedFor(t).attempt = b
  BY <1>1 DEF complete_pairing, CompletedFor
<1>4. issued'[Len(issued')] = CompletedFor(t)
  BY <1>3 DEF TypeOK
<1>5. k \in Key /\ b \in Attempt /\ current_attempts[k] = b /\ b # NoAttempt
  BY <1>2 DEF Challenge, ChallengeIsCurrent, Attempt, NoAttempt
<1>6. start[b].key = k /\ \A a \in b + 1 .. next_attempt_id : start[a].key # k
  BY <1>5 DEF CurrentIsLatest
<1> QED
  BY <1>3, <1>4, <1>6

-----------------------------------------------------------------------------
(* Theorems *)

LEMMA PairingInvariant == Spec => []PairingInv
<1>1. Init => PairingInv
  BY PairingInit
<1>2. PairingInv /\ [Next]_vars => PairingInv'
  BY PairingStep
<1> QED
  BY <1>1, <1>2, PTL DEF Spec

\* The pairing state always holds values of its types, attempt ids among them
\* that were handed out (PairingState in server.rs).
THEOREM PairingTypes == Spec => []TypeOK
<1>1. PairingInv => TypeOK
  BY DEF PairingInv
<1> QED
  BY <1>1, PairingInvariant, PTL

\* However StartPairing and CompletePairing calls interleave, the challenge in
\* place is that of the current attempt of its key.
THEOREM ChallengeStaysCurrent == Spec => []ChallengeIsCurrent
<1>1. PairingInv => ChallengeIsCurrent
  BY DEF PairingInv
<1> QED
  BY <1>1, PairingInvariant, PTL

\* complete_pairing issues only for an attempt the local user confirmed, to
\* the session that started it, and in time.
THEOREM IssuedRightly == Spec => []IssuedToConfirmedStarter
<1>1. PairingInv => IssuedToConfirmedStarter
  BY DEF PairingInv
<1> QED
  BY <1>1, PairingInvariant, PTL

\* complete_pairing never issues twice for one attempt.
THEOREM CodesAreOneTime == Spec => []CodeIsOneTime
<1>1. PairingInv => CodeIsOneTime
  BY DEF PairingInv
<1> QED
  BY <1>1, PairingInvariant, PTL

\* begin_pairing_attempt makes every earlier attempt for its key useless: none
\* of them is ever issued for again.
THEOREM SupersededIsUseless == Spec => NothingIssuedAfterSuperseded
<1>1. PairingInv /\ [Next]_vars =>
          [issued' # issued =>
               LET i == issued'[Len(issued')]
               IN  \A a \in i.attempt + 1 .. next_attempt_id :
                       start[a].key # start[i.attempt].key]_vars
  BY IssueStep
<1> QED
  BY <1>1, PairingInvariant, PTL DEF Spec, NothingIssuedAfterSuperseded
=============================================================================
