-------------------------- MODULE CloudCardsProofs --------------------------
(***************************************************************************)
(* Proofs about CloudCards, for any number of requests, users, cards,      *)
(* certificates, sessions and changes of the PIN.                           *)
(***************************************************************************)
EXTENDS CloudCards, TLAPS

USE RetriesAssumption, MaxEpochAssumption, NullAssumption

----------------------------------------------------------------------------
(* What ties the tables, the sessions and the requests together.           *)

\* A card in use has a UUID that is given away, and a certificate's card is
\* in use: the UUID is never given twice, and the foreign key cascades.
RowsOK ==
    /\ \A c \in Cards : owner[c] # NoUser => c \in made
    /\ \A x \in Certs : certCard[x] # NoCard => owner[certCard[x]] # NoUser

\* What a request carries: its card is its user's or is gone, the count it
\* read was below the limit, and its user passed the check of the PIN where
\* the step needs it.
CarriesOK(t) ==
    LET j == job[t] IN
    /\ pc[t] # "idle" => /\ j.card \in made /\ j.user \in Users
                         /\ owner[j.card] \in {j.user, NoUser}
    /\ pc[t] \in {"count", "clear"} => j.failed < Retries
    /\ pc[t] \in {"clear", "issue"} => <<j.card, j.user>> \in passed
    /\ pc[t] \in {"session", "card", "use"} => j.cert \in Certs
    /\ pc[t] \in {"card", "use"} /\ j.guarded => <<j.card, j.user>> \in passed

Carries == \A t \in Threads : CarriesOK(t)

\* A session belongs to one who passed the check of its card's PIN.
SessionsEarned ==
    \A k \in Tokens :
        sessions[k].state = "live" =>
            /\ sessions[k].card \in Cards /\ sessions[k].user \in Users
            /\ <<sessions[k].card, sessions[k].user>> \in passed

IInv == TypeOK /\ LockMatchesCount /\ RowsOK /\ Carries /\ SessionsEarned
          /\ OldSessionsExplained

LEMMA InitIInv == Init => IInv
<1> SUFFICES ASSUME Init PROVE IInv
  OBVIOUS
<1>1. Unissued \in Sessions /\ NoJob \in Jobs
  BY DEF Unissued, NoSession, Sessions, NoJob, Jobs
<1>2. TypeOK
  BY <1>1 DEF Init, TypeOK, Steps
<1>3. LockMatchesCount /\ RowsOK /\ Carries
  BY DEF Init, LockMatchesCount, RowsOK, Carries, CarriesOK
<1>4. SessionsEarned /\ OldSessionsExplained
  BY DEF Init, Unissued, NoSession, SessionsEarned, OldSessionsExplained
<1> QED BY <1>2, <1>3, <1>4 DEF IInv

----------------------------------------------------------------------------
(* Cards and certificates. *)

LEMMA ManageKeeps == ASSUME IInv, Manage PROVE IInv'
<1>0. UNCHANGED <<sessions, pc, job, epoch, passed, half>>
  BY DEF Manage, CreateCard, DeleteCard, AssignCert
<1>1. SessionsEarned' /\ OldSessionsExplained'
  BY <1>0 DEF IInv, SessionsEarned, OldSessionsExplained
<1>2. ASSUME NEW u \in Users, NEW c \in Cards, NEW p \in BOOLEAN,
             NEW q \in BOOLEAN, NEW a \in BOOLEAN, CreateCard(u, c, p, q, a)
      PROVE  TypeOK' /\ LockMatchesCount' /\ RowsOK' /\ Carries'
  <2>1. TypeOK'
    BY <1>0, <1>2 DEF CreateCard, IInv, TypeOK
  <2>2. LockMatchesCount'
    BY <1>2 DEF CreateCard, IInv, LockMatchesCount
  <2>3. RowsOK'
    BY <1>2 DEF CreateCard, IInv, TypeOK, RowsOK
  <2>4. Carries'
    BY <1>0, <1>2 DEF CreateCard, IInv, TypeOK, Carries, CarriesOK
  <2> QED BY <2>1, <2>2, <2>3, <2>4
<1>3. ASSUME NEW u \in Users, NEW c \in Cards, DeleteCard(u, c)
      PROVE  TypeOK' /\ LockMatchesCount' /\ RowsOK' /\ Carries'
  <2>1. TypeOK'
    BY <1>0, <1>3 DEF DeleteCard, IInv, TypeOK
  <2>2. LockMatchesCount'
    BY <1>3 DEF DeleteCard, IInv, LockMatchesCount
  <2>3. RowsOK'
    BY <1>3 DEF DeleteCard, IInv, TypeOK, RowsOK
  <2>4. Carries'
    BY <1>0, <1>3 DEF DeleteCard, IInv, TypeOK, Carries, CarriesOK
  <2> QED BY <2>1, <2>2, <2>3, <2>4
<1>4. ASSUME NEW x \in Certs, NEW c \in Cards, AssignCert(x, c)
      PROVE  TypeOK' /\ LockMatchesCount' /\ RowsOK' /\ Carries'
  BY <1>0, <1>4 DEF AssignCert, Exists, IInv, TypeOK, LockMatchesCount, RowsOK,
                     Carries, CarriesOK
<1> QED BY <1>1, <1>2, <1>3, <1>4 DEF Manage, IInv

----------------------------------------------------------------------------
(* A step that begins or ends a request, and what it leaves alone. *)

\* The end of a request.
LEMMA AnsweredKeeps ==
  ASSUME IInv, NEW t \in Threads, Answered(t), UNCHANGED <<made, owner, passed>>
  PROVE  /\ pc' \in [Threads -> Steps] /\ job' \in [Threads -> Jobs]
         /\ Carries'
<1>1. NoJob \in Jobs
  BY DEF NoJob, Jobs
<1> QED BY <1>1 DEF Answered, IInv, TypeOK, Steps, Carries, CarriesOK

LEMMA VerifyPINKeeps ==
  ASSUME IInv, NEW t \in Threads, NEW u \in Users, NEW c \in Cards,
         NEW right \in BOOLEAN, VerifyPIN(t, u, c, right)
  PROVE  IInv'
<1> DEFINE j == [NoJob EXCEPT !.card = c, !.user = u, !.failed = failed[c],
                               !.epoch = epoch[c]]
<1>1. j \in Jobs /\ j.card = c /\ j.user = u /\ j.failed = failed[c]
        /\ j.guarded = FALSE
  BY DEF NoJob, Jobs, IInv, TypeOK
<1>2. job' = [job EXCEPT ![t] = j] /\ pc' \in [Threads -> Steps]
  BY DEF VerifyPIN, Goto, IInv, TypeOK, Steps
<1>3. TypeOK'
  <2>1. passed' \subseteq Cards \X Users
    BY DEF VerifyPIN, IInv, TypeOK
  <2>2. job' \in [Threads -> Jobs]
    <3> HIDE DEF j
    <3> QED BY <1>1, <1>2 DEF IInv, TypeOK
  <2> QED BY <1>2, <2>1, <2>2 DEF VerifyPIN, rowVars, IInv, TypeOK
<1>4. LockMatchesCount' /\ RowsOK'
  BY DEF VerifyPIN, rowVars, IInv, LockMatchesCount, RowsOK
<1>5. failed[c] < Retries /\ c \in made
  BY DEF VerifyPIN, Owns, IInv, TypeOK, LockMatchesCount, RowsOK
<1>6. Carries'
  <2>1. ASSUME NEW r \in Threads, r # t PROVE CarriesOK(r)'
    BY <2>1 DEF VerifyPIN, Goto, rowVars, IInv, TypeOK, Carries, CarriesOK
  <2>2. /\ pc'[t] \in {"count", "clear", "issue"}
        /\ pc'[t] # "count" => <<c, u>> \in passed'
    BY DEF VerifyPIN, Goto, IInv, TypeOK
  <2>3. job'[t] = j /\ owner'[c] = u /\ made' = made
    BY <1>2 DEF VerifyPIN, Owns, rowVars, IInv, TypeOK
  <2>4. CarriesOK(t)'
    BY <1>1, <1>5, <2>2, <2>3 DEF CarriesOK
  <2> QED BY <2>1, <2>4 DEF Carries
<1>7. SessionsEarned'
  BY DEF VerifyPIN, IInv, SessionsEarned
<1>8. OldSessionsExplained'
  <2>1. ASSUME NEW r \in Threads, pc[r] \in {"puk", "revoke"}
        PROVE  pc'[r] = pc[r] /\ job'[r] = job[r]
    BY <2>1 DEF VerifyPIN, Goto, IInv, TypeOK
  <2> QED BY <2>1 DEF VerifyPIN, IInv, OldSessionsExplained
<1> QED BY <1>3, <1>4, <1>6, <1>7, <1>8 DEF IInv

\* UpdatePINStatus keeps the lock and the count in step.
LEMMA WriteStatusKeeps ==
  ASSUME TypeOK, LockMatchesCount, NEW c \in Cards, NEW n \in 0 .. Retries,
         WriteStatus(c, n, n >= Retries)
  PROVE  /\ failed' \in [Cards -> 0 .. Retries] /\ locked' \in [Cards -> BOOLEAN]
         /\ LockMatchesCount'
<1>1. CASE Exists(c)
  <2>1. /\ failed' = [failed EXCEPT ![c] = n] /\ locked' = [locked EXCEPT ![c] = n >= Retries]
    BY <1>1 DEF WriteStatus
  <2>2. /\ failed' \in [Cards -> 0 .. Retries] /\ locked' \in [Cards -> BOOLEAN]
        /\ failed'[c] = n
    BY <2>1 DEF TypeOK
  <2>3. locked'[c] <=> n >= Retries
    BY <2>1, Zenon DEF TypeOK
  <2>4. ASSUME NEW d \in Cards, d # c
        PROVE  locked'[d] = locked[d] /\ failed'[d] = failed[d]
    BY <2>1, <2>4, Zenon DEF TypeOK
  <2> QED BY <2>2, <2>3, <2>4 DEF TypeOK, LockMatchesCount
<1>2. CASE ~Exists(c)
  <2>1. failed' = failed /\ locked' = locked
    BY <1>2 DEF WriteStatus, TypeOK
  <2> QED BY <2>1 DEF TypeOK, LockMatchesCount
<1> QED BY <1>1, <1>2

LEMMA CountFailureKeeps ==
  ASSUME IInv, NEW t \in Threads, CountFailure(t) PROVE IInv'
<1> DEFINE c == job[t].card
           n == job[t].failed + 1
<1>1. c \in Cards /\ n \in 1 .. Retries
  <2>1. job[t] \in Jobs
    BY DEF IInv, TypeOK
  <2>2. job[t].failed \in 0 .. Retries
    BY <2>1 DEF Jobs
  <2>3. c \in made /\ job[t].failed < Retries
    BY DEF CountFailure, IInv, Carries, CarriesOK
  <2> QED BY <2>2, <2>3 DEF IInv, TypeOK
<1>2. WriteStatus(c, n, n >= Retries) /\ Answered(t)
        /\ UNCHANGED <<sessions, epoch, passed, half>>
  BY DEF CountFailure
<1>3. /\ failed' \in [Cards -> 0 .. Retries] /\ locked' \in [Cards -> BOOLEAN]
      /\ LockMatchesCount'
  <2>1. n \in 0 .. Retries /\ TypeOK /\ LockMatchesCount
    BY <1>1 DEF IInv
  <2> HIDE DEF c, n
  <2> QED BY <1>1, <1>2, <2>1, WriteStatusKeeps
<1>4. UNCHANGED <<owner, made, pinSet, pukSet, adminSet, certCard>>
  BY <1>2 DEF WriteStatus
<1>5. /\ pc' \in [Threads -> Steps] /\ job' \in [Threads -> Jobs] /\ Carries'
  BY <1>2, <1>4, AnsweredKeeps
<1>6. TypeOK' /\ RowsOK' /\ SessionsEarned'
  BY <1>2, <1>3, <1>4, <1>5 DEF IInv, TypeOK, RowsOK, SessionsEarned
<1>7. OldSessionsExplained'
  BY <1>2 DEF CountFailure, Answered, IInv, TypeOK, OldSessionsExplained
<1> QED BY <1>3, <1>5, <1>6, <1>7 DEF IInv

LEMMA ClearFailuresKeeps ==
  ASSUME IInv, NEW t \in Threads, ClearFailures(t) PROVE IInv'
<1> DEFINE c == job[t].card
<1>1. c \in Cards
  BY DEF ClearFailures, IInv, TypeOK, Jobs, Carries, CarriesOK
<1>2. WriteStatus(c, 0, FALSE) \/ UNCHANGED rowVars
  BY DEF ClearFailures
<1>3. /\ failed' \in [Cards -> 0 .. Retries] /\ locked' \in [Cards -> BOOLEAN]
      /\ LockMatchesCount'
  <2> HIDE DEF c
  <2>1. CASE WriteStatus(c, 0, FALSE)
    <3>1. WriteStatus(c, 0, 0 >= Retries)
      <4>1. (0 >= Retries) = FALSE
        OBVIOUS
      <4> QED BY <2>1, <4>1
    <3>2. 0 \in 0 .. Retries
      OBVIOUS
    <3> QED BY <1>1, <3>1, <3>2, WriteStatusKeeps DEF IInv
  <2>2. CASE UNCHANGED rowVars
    BY <2>2 DEF rowVars, IInv, TypeOK, LockMatchesCount
  <2> QED BY <1>2, <2>1, <2>2
<1>4. UNCHANGED <<owner, made, pinSet, pukSet, adminSet, certCard>>
  BY <1>2 DEF WriteStatus, rowVars
<1>5. pc' \in [Threads -> Steps] /\ Carries'
  BY <1>4 DEF ClearFailures, Goto, IInv, TypeOK, Steps, Carries, CarriesOK
<1>6. TypeOK' /\ RowsOK' /\ SessionsEarned'
  BY <1>3, <1>4, <1>5 DEF ClearFailures, IInv, TypeOK, RowsOK, SessionsEarned
<1>7. OldSessionsExplained'
  BY DEF ClearFailures, Goto, IInv, TypeOK, OldSessionsExplained
<1> QED BY <1>3, <1>5, <1>6, <1>7 DEF IInv

LEMMA IssueSessionKeeps ==
  ASSUME IInv, NEW t \in Threads, NEW k \in Tokens, IssueSession(t, k) PROVE IInv'
<1> DEFINE j == job[t]
           s == [state |-> "live", card |-> j.card, user |-> j.user,
                 epoch |-> j.epoch, late |-> j.epoch # epoch[j.card]]
<1>1. /\ j \in Jobs /\ j.card \in Cards /\ j.user \in Users
      /\ <<j.card, j.user>> \in passed
  BY DEF IssueSession, IInv, TypeOK, Carries, CarriesOK
<1>2. s \in Sessions
  BY <1>1 DEF Sessions, Jobs
<1>3. sessions' = [sessions EXCEPT ![k] = s] /\ Answered(t)
        /\ UNCHANGED <<rowVars, epoch, passed, half>>
  BY DEF IssueSession
<1>4. sessions' \in [Tokens -> Sessions]
  <2> HIDE DEF s
  <2> QED BY <1>2, <1>3 DEF IInv, TypeOK
<1>5. pc' \in [Threads -> Steps] /\ job' \in [Threads -> Jobs] /\ Carries'
  BY <1>3, AnsweredKeeps DEF rowVars
<1>6. TypeOK' /\ RowsOK' /\ LockMatchesCount'
  BY <1>3, <1>4, <1>5 DEF rowVars, IInv, TypeOK, RowsOK, LockMatchesCount
<1>7. SessionsEarned'
  BY <1>1, <1>3 DEF IInv, TypeOK, SessionsEarned
<1>8. OldSessionsExplained'
  <2>1. ASSUME NEW r \in Threads, pc[r] \in {"puk", "revoke"}
        PROVE  pc'[r] = pc[r] /\ job'[r] = job[r]
    BY <2>1 DEF IssueSession, Answered, IInv, TypeOK
  <2>2. ASSUME NEW l \in Tokens, l # k PROVE sessions'[l] = sessions[l]
    BY <1>3, <2>2 DEF IInv, TypeOK
  <2>3. sessions'[k] = s /\ epoch' = epoch /\ half' = half
    BY <1>3 DEF IInv, TypeOK
  <2>4. s.epoch # epoch[s.card] => s.late
    OBVIOUS
  <2> HIDE DEF s
  <2> QED BY <2>1, <2>2, <2>3, <2>4 DEF IInv, OldSessionsExplained
<1> QED BY <1>5, <1>6, <1>7, <1>8 DEF IInv

LEMMA FailKeeps == ASSUME IInv, NEW t \in Threads, Fail(t) PROVE IInv'
<1>1. Answered(t) /\ UNCHANGED <<rowVars, sessions, epoch, passed, half>>
  BY DEF Fail
<1>2. pc' \in [Threads -> Steps] /\ job' \in [Threads -> Jobs] /\ Carries'
  BY <1>1, AnsweredKeeps DEF rowVars
<1>3. TypeOK' /\ RowsOK' /\ LockMatchesCount' /\ SessionsEarned'
  BY <1>1, <1>2 DEF rowVars, IInv, TypeOK, RowsOK, LockMatchesCount, SessionsEarned
<1>4. OldSessionsExplained'
  BY <1>1 DEF Fail, Answered, IInv, TypeOK, OldSessionsExplained
<1> QED BY <1>2, <1>3, <1>4 DEF IInv

LEMMA VerifyKeeps == ASSUME IInv, NEW t \in Threads, Verify(t) PROVE IInv'
  BY VerifyPINKeeps, CountFailureKeeps, ClearFailuresKeeps, IssueSessionKeeps
     DEF Verify
----------------------------------------------------------------------------
(* Resets. *)

\* What is left of a session that is removed.
LEMMA GoneIsASession == Gone \in Sessions /\ Gone.state = "gone"
<1>1. 0 \in 0 .. MaxEpoch
  BY SMT
<1>2. Gone \in Sessions
  BY <1>1, Zenon DEF Gone, NoSession, Sessions
<1>3. Gone.state = "gone"
  BY DEF Gone, NoSession
<1> QED BY <1>2, <1>3

LEMMA NoJobIsAJob == NoJob \in Jobs
  BY DEF NoJob, Jobs

\* A request that begins without a verification of the PIN.
LEMMA BeginKeeps ==
  ASSUME IInv, NEW t \in Threads, NEW u \in Users, NEW c \in Cards, NEW j \in Jobs,
         NEW step \in {"pin", "puk", "revoke", "session", "card"},
         pc[t] = "idle", owner[c] = u, pc' = [pc EXCEPT ![t] = step],
         job' = [job EXCEPT ![t] = j],
         j.card = c, j.user = u,
         step \in {"session", "card"} => j.cert \in Certs,
         step = "card" => ~j.guarded,
         UNCHANGED <<rowVars, sessions, epoch, passed, half>>
  PROVE  IInv'
<1>1. pc' = [pc EXCEPT ![t] = step] /\ pc' \in [Threads -> Steps]
        /\ job' \in [Threads -> Jobs]
  BY DEF Goto, IInv, TypeOK, Steps
<1>2. TypeOK'
  BY <1>1 DEF rowVars, IInv, TypeOK
<1>3. LockMatchesCount' /\ RowsOK' /\ SessionsEarned'
  BY DEF rowVars, IInv, LockMatchesCount, RowsOK, SessionsEarned
<1>4. ASSUME NEW r \in Threads, r # t
      PROVE  pc'[r] = pc[r] /\ job'[r] = job[r]
  BY <1>1, <1>4 DEF IInv, TypeOK
<1>5. Carries'
  <2>1. ASSUME NEW r \in Threads, r # t PROVE CarriesOK(r)'
    BY <1>4, <2>1 DEF rowVars, IInv, Carries, CarriesOK
  <2>2. pc'[t] = step /\ job'[t] = j /\ c \in made' /\ owner'[c] = u
    BY <1>1 DEF rowVars, Owns, IInv, TypeOK, RowsOK
  <2>3. CarriesOK(t)'
    BY <2>2 DEF CarriesOK
  <2> QED BY <2>1, <2>3 DEF Carries
<1>6. OldSessionsExplained'
  BY <1>4 DEF IInv, OldSessionsExplained
<1> QED BY <1>2, <1>3, <1>5, <1>6 DEF IInv

LEMMA UnlockWithPUKKeeps ==
  ASSUME IInv, NEW t \in Threads, NEW u \in Users, NEW c \in Cards,
         NEW newPin \in BOOLEAN, UnlockWithPUK(t, u, c, newPin)
  PROVE  IInv'
<1> DEFINE j == [NoJob EXCEPT !.card = c, !.user = u, !.newPin = newPin]
<1>1. j \in Jobs /\ j.card = c /\ j.user = u
  BY NoJobIsAJob DEF Jobs
<1>2. /\ pc[t] = "idle" /\ owner[c] = u /\ pc' = [pc EXCEPT ![t] = "pin"]
      /\ job' = [job EXCEPT ![t] = j]
      /\ UNCHANGED <<rowVars, sessions, epoch, passed, half>>
  BY DEF UnlockWithPUK, Owns, Goto
<1>3. "pin" \in {"pin", "puk", "revoke", "session", "card"}
        /\ "pin" \notin {"session", "card"} /\ "pin" # "card"
  OBVIOUS
<1> HIDE DEF j
<1> QED BY <1>1, <1>2, <1>3, BeginKeeps, Zenon

LEMMA ResetWithAdminKeyKeeps ==
  ASSUME IInv, NEW t \in Threads, NEW u \in Users, NEW c \in Cards,
         NEW newPin \in BOOLEAN, NEW newPuk \in BOOLEAN,
         ResetWithAdminKey(t, u, c, newPin, newPuk)
  PROVE  IInv'
<1> DEFINE j == [NoJob EXCEPT !.card = c, !.user = u, !.newPin = newPin,
                               !.newPuk = newPuk]
           step == IF newPin THEN "pin" ELSE IF newPuk THEN "puk" ELSE "revoke"
<1>1. j \in Jobs /\ j.card = c /\ j.user = u
  BY NoJobIsAJob DEF Jobs
<1>2. /\ pc[t] = "idle" /\ owner[c] = u /\ pc' = [pc EXCEPT ![t] = step]
      /\ job' = [job EXCEPT ![t] = j]
      /\ UNCHANGED <<rowVars, sessions, epoch, passed, half>>
  BY DEF ResetWithAdminKey, Owns, Goto
<1>3. step \in {"pin", "puk", "revoke", "session", "card"}
        /\ step \notin {"session", "card"} /\ step # "card"
  OBVIOUS
<1> HIDE DEF j, step
<1> QED BY <1>1, <1>2, <1>3, BeginKeeps, Zenon

LEMMA WritePINKeeps ==
  ASSUME IInv, NEW t \in Threads, WritePIN(t) PROVE IInv'
<1> DEFINE c == job[t].card
<1>1. c \in Cards /\ job[t] \in Jobs /\ pc[t] = "pin"
  BY DEF WritePIN, IInv, TypeOK, Carries, CarriesOK
<1>2. /\ pc' = [pc EXCEPT ![t] = IF job[t].newPuk THEN "puk" ELSE "revoke"]
      /\ UNCHANGED <<owner, made, pukSet, adminSet, certCard, sessions, job,
                     passed, half>>
  BY DEF WritePIN, Goto
<1>3. /\ failed' \in [Cards -> 0 .. Retries] /\ locked' \in [Cards -> BOOLEAN]
      /\ LockMatchesCount'
  <2>1. CASE Exists(c)
    <3>1. /\ failed' = [failed EXCEPT ![c] = 0]
          /\ locked' \in [Cards -> BOOLEAN] /\ locked'[c] = FALSE
          /\ \A d \in Cards : d # c => locked'[d] = locked[d]
      BY <1>1, <2>1 DEF WritePIN, IInv, TypeOK
    <3> QED BY <1>1, <3>1 DEF IInv, TypeOK, LockMatchesCount
  <2>2. CASE ~Exists(c)
    <3>1. failed' = failed /\ locked' = locked
      BY <1>1, <2>2 DEF WritePIN, IInv, TypeOK
    <3> QED BY <3>1 DEF IInv, TypeOK, LockMatchesCount
  <2> QED BY <2>1, <2>2
<1>4. pinSet' \in [Cards -> BOOLEAN]
  BY <1>1 DEF WritePIN, IInv, TypeOK
<1>5. epoch' \in [Cards -> 0 .. MaxEpoch]
  BY <1>1 DEF WritePIN, IInv, TypeOK
<1>6. /\ pc' \in [Threads -> Steps] /\ pc'[t] \in {"puk", "revoke"}
      /\ \A r \in Threads : r # t => pc'[r] = pc[r]
  BY <1>2 DEF IInv, TypeOK, Steps
<1>7. TypeOK' /\ RowsOK' /\ SessionsEarned'
  BY <1>2, <1>3, <1>4, <1>5, <1>6 DEF IInv, TypeOK, RowsOK, SessionsEarned
<1>8. Carries'
  BY <1>1, <1>2, <1>6 DEF IInv, Carries, CarriesOK
<1>9. OldSessionsExplained'
  <2>1. CASE job[t].newPin
    <3>1. \A d \in Cards : d # c => epoch'[d] = epoch[d]
      BY <1>1 DEF WritePIN, IInv, TypeOK
    <3> QED BY <1>1, <1>2, <1>6, <2>1, <3>1, ZenonT(40)
            DEF IInv, SessionsEarned, OldSessionsExplained
  <2>2. CASE ~job[t].newPin
    <3>1. epoch' = epoch
      BY <1>1, <2>2 DEF WritePIN, IInv, TypeOK
    <3> QED BY <1>1, <1>2, <1>6, <3>1 DEF IInv, OldSessionsExplained
  <2> QED BY <2>1, <2>2
<1> QED BY <1>3, <1>7, <1>8, <1>9 DEF IInv

LEMMA WritePUKKeeps ==
  ASSUME IInv, NEW t \in Threads, WritePUK(t) PROVE IInv'
<1>1. /\ pc[t] = "puk" /\ pc' = [pc EXCEPT ![t] = "revoke"]
      /\ pukSet' \in [Cards -> BOOLEAN]
      /\ UNCHANGED <<owner, made, pinSet, adminSet, failed, locked, certCard,
                     sessions, job, epoch, passed, half>>
  BY DEF WritePUK, Goto, IInv, TypeOK
<1>2. /\ pc' \in [Threads -> Steps] /\ pc'[t] = "revoke"
      /\ \A r \in Threads : r # t => pc'[r] = pc[r]
  BY <1>1 DEF IInv, TypeOK, Steps
<1>3. TypeOK' /\ LockMatchesCount' /\ RowsOK' /\ SessionsEarned'
  BY <1>1, <1>2 DEF IInv, TypeOK, LockMatchesCount, RowsOK, SessionsEarned
<1>4. Carries' /\ OldSessionsExplained'
  BY <1>1, <1>2 DEF IInv, Carries, CarriesOK, OldSessionsExplained
<1> QED BY <1>3, <1>4 DEF IInv

LEMMA FailPUKKeeps ==
  ASSUME IInv, NEW t \in Threads, FailPUK(t) PROVE IInv'
<1>1. /\ pc[t] = "puk" /\ Answered(t)
      /\ half' = IF job[t].newPin THEN half \cup {job[t].card} ELSE half
      /\ UNCHANGED <<rowVars, sessions, epoch, passed>>
  BY DEF FailPUK
<1>2. pc' \in [Threads -> Steps] /\ job' \in [Threads -> Jobs] /\ Carries'
  BY <1>1, AnsweredKeeps DEF rowVars
<1>3. job[t].card \in Cards
  BY <1>1 DEF IInv, TypeOK, Carries, CarriesOK
<1>4. TypeOK' /\ LockMatchesCount' /\ RowsOK' /\ SessionsEarned'
  BY <1>1, <1>2, <1>3
     DEF rowVars, IInv, TypeOK, LockMatchesCount, RowsOK, SessionsEarned
<1>5. OldSessionsExplained'
  <2>1. ASSUME NEW r \in Threads, r # t PROVE pc'[r] = pc[r] /\ job'[r] = job[r]
    BY <1>1, <2>1 DEF Answered, IInv, TypeOK
  <2> QED BY <1>1, <2>1 DEF IInv, OldSessionsExplained
<1> QED BY <1>2, <1>4, <1>5 DEF IInv

LEMMA RevokeByCardKeeps ==
  ASSUME IInv, NEW t \in Threads, RevokeByCard(t) PROVE IInv'
<1>1. /\ Answered(t)
      /\ UNCHANGED <<rowVars, epoch, passed, half>>
  BY DEF RevokeByCard
<1>2. pc' \in [Threads -> Steps] /\ job' \in [Threads -> Jobs] /\ Carries'
  BY <1>1, AnsweredKeeps DEF rowVars
<1>3. Gone \in Sessions /\ Gone.state = "gone"
  BY GoneIsASession
<1>4. /\ sessions' \in [Tokens -> Sessions]
      /\ \A k \in Tokens : sessions'[k].state = "live" =>
            sessions'[k] = sessions[k] /\ sessions[k].card # job[t].card
  BY <1>3 DEF RevokeByCard, IInv, TypeOK
<1>5. TypeOK' /\ LockMatchesCount' /\ RowsOK' /\ SessionsEarned'
  BY <1>1, <1>2, <1>4
     DEF rowVars, IInv, TypeOK, LockMatchesCount, RowsOK, SessionsEarned
<1>6. OldSessionsExplained'
  <2>1. ASSUME NEW r \in Threads, r # t PROVE pc'[r] = pc[r] /\ job'[r] = job[r]
    BY <1>1, <2>1 DEF Answered, IInv, TypeOK
  <2> QED BY <1>1, <1>4, <2>1 DEF IInv, OldSessionsExplained
<1> QED BY <1>2, <1>5, <1>6 DEF IInv

LEMMA ResetKeeps == ASSUME IInv, NEW t \in Threads, Reset(t) PROVE IInv'
  BY UnlockWithPUKKeeps, ResetWithAdminKeyKeeps, WritePINKeeps, WritePUKKeeps,
     FailPUKKeeps, RevokeByCardKeeps
     DEF Reset

----------------------------------------------------------------------------
(* Sessions that end. *)

\* A step that removes sessions, or lets them expire, and begins no request.
LEMMA DropKeeps ==
  ASSUME IInv, sessions' \in [Tokens -> Sessions],
         \A k \in Tokens : sessions'[k].state = "live" => sessions'[k] = sessions[k],
         UNCHANGED <<rowVars, pc, job, epoch, passed, half>>
  PROVE  IInv'
<1>1. TypeOK'
  BY DEF rowVars, IInv, TypeOK
<1>2. LockMatchesCount' /\ RowsOK' /\ Carries'
  BY DEF rowVars, IInv, LockMatchesCount, RowsOK, Carries, CarriesOK
<1>3. SessionsEarned' /\ OldSessionsExplained'
  BY DEF IInv, SessionsEarned, OldSessionsExplained
<1> QED BY <1>1, <1>2, <1>3 DEF IInv

LEMMA LogoutKeeps ==
  ASSUME IInv, NEW k \in Tokens, LogoutPINSession(k) PROVE IInv'
<1>1. /\ sessions' \in [Tokens -> Sessions]
      /\ \A l \in Tokens : sessions'[l].state = "live" => sessions'[l] = sessions[l]
  BY GoneIsASession DEF LogoutPINSession, IInv, TypeOK
<1> QED BY <1>1, DropKeeps DEF LogoutPINSession

LEMMA ExpireKeeps ==
  ASSUME IInv, NEW k \in Tokens, Expire(k) PROVE IInv'
<1> DEFINE s == [sessions[k] EXCEPT !.state = "expired"]
<1>1. s \in Sessions /\ s.state = "expired"
  <2>1. sessions[k] \in Sessions
    BY DEF IInv, TypeOK
  <2> QED BY <2>1 DEF Sessions
<1>2. sessions' = [sessions EXCEPT ![k] = s]
  BY DEF Expire
<1>3. /\ sessions' \in [Tokens -> Sessions]
      /\ \A l \in Tokens : sessions'[l].state = "live" => sessions'[l] = sessions[l]
  <2> HIDE DEF s
  <2> QED BY <1>1, <1>2 DEF IInv, TypeOK
<1> QED BY <1>3, DropKeeps DEF Expire

LEMMA CleanupKeeps == ASSUME IInv, Cleanup PROVE IInv'
<1>1. /\ sessions' \in [Tokens -> Sessions]
      /\ \A l \in Tokens : sessions'[l].state = "live" => sessions'[l] = sessions[l]
  BY GoneIsASession DEF Cleanup, IInv, TypeOK
<1> QED BY <1>1, DropKeeps DEF Cleanup

----------------------------------------------------------------------------
(* Operations on keys. *)

LEMMA CheckPINKeeps ==
  ASSUME IInv, NEW t \in Threads, NEW op \in KeyOps, NEW u \in Users,
         NEW c \in Cards, NEW k \in Tokens \cup {NoToken}, NEW x \in Certs,
         CheckPIN(t, op, u, c, k, x)
  PROVE  IInv'
<1> DEFINE j == [NoJob EXCEPT !.op = op, !.card = c, !.user = u, !.token = k,
                               !.cert = x, !.guarded = pinSet[c]]
           step == IF pinSet[c] THEN "session" ELSE "card"
<1>1. j \in Jobs /\ j.card = c /\ j.user = u /\ j.cert \in Certs
  BY NoJobIsAJob DEF Jobs, IInv, TypeOK
<1>2. /\ pc[t] = "idle" /\ owner[c] = u /\ pc' = [pc EXCEPT ![t] = step]
      /\ job' = [job EXCEPT ![t] = j]
      /\ UNCHANGED <<rowVars, sessions, epoch, passed, half>>
  BY DEF CheckPIN, Owns, Goto
<1>3. step \in {"pin", "puk", "revoke", "session", "card"}
  OBVIOUS
<1>4. step = "card" => ~j.guarded
  BY NoJobIsAJob DEF Jobs
<1> HIDE DEF j, step
<1> QED BY <1>1, <1>2, <1>3, <1>4, BeginKeeps, Zenon

LEMMA VerifySessionKeeps ==
  ASSUME IInv, NEW t \in Threads, VerifySession(t) PROVE IInv'
<1> DEFINE k == job[t].token
<1>1. /\ sessions' \in [Tokens -> Sessions]
      /\ \A l \in Tokens : sessions'[l].state = "live" => sessions'[l] = sessions[l]
  BY GoneIsASession DEF VerifySession, IInv, TypeOK
<1>2. pc[t] = "session" /\ UNCHANGED <<rowVars, epoch, passed, half>>
  BY DEF VerifySession
<1>3. /\ pc' \in [Threads -> Steps] /\ job' \in [Threads -> Jobs]
      /\ Carries'
  <2>1. CASE Answered(t)
    BY <1>2, <2>1, AnsweredKeeps DEF rowVars
  <2>2. CASE Admits(k, job[t].card, job[t].user) /\ Goto(t, "card") /\ UNCHANGED job
    <3>1. <<job[t].card, job[t].user>> \in passed
      BY <2>2 DEF Admits, IInv, SessionsEarned
    <3> QED BY <1>2, <2>2, <3>1
            DEF Goto, rowVars, IInv, TypeOK, Steps, Carries, CarriesOK
  <2> QED BY <2>1, <2>2 DEF VerifySession
<1>4. TypeOK' /\ LockMatchesCount' /\ RowsOK' /\ SessionsEarned'
  BY <1>1, <1>2, <1>3
     DEF rowVars, IInv, TypeOK, LockMatchesCount, RowsOK, SessionsEarned
<1>5. OldSessionsExplained'
  <2>1. ASSUME NEW r \in Threads, r # t PROVE pc'[r] = pc[r] /\ job'[r] = job[r]
    BY <2>1 DEF VerifySession, Goto, Answered, IInv, TypeOK
  <2> QED BY <1>1, <1>2, <2>1 DEF IInv, OldSessionsExplained
<1> QED BY <1>3, <1>4, <1>5 DEF IInv

LEMMA GetCardKeeps ==
  ASSUME IInv, NEW t \in Threads, GetCard(t) PROVE IInv'
<1>1. pc[t] = "card" /\ UNCHANGED <<rowVars, sessions, epoch, passed, half>>
  BY DEF GetCard
<1>2. /\ pc' \in [Threads -> Steps] /\ job' \in [Threads -> Jobs]
      /\ Carries'
  <2>1. CASE Answered(t)
    BY <1>1, <2>1, AnsweredKeeps DEF rowVars
  <2>2. CASE Goto(t, "use") /\ UNCHANGED job
    BY <1>1, <2>2 DEF Goto, rowVars, IInv, TypeOK, Steps, Carries, CarriesOK
  <2> QED BY <2>1, <2>2 DEF GetCard
<1>3. TypeOK' /\ LockMatchesCount' /\ RowsOK' /\ SessionsEarned'
  BY <1>1, <1>2
     DEF rowVars, IInv, TypeOK, LockMatchesCount, RowsOK, SessionsEarned
<1>4. OldSessionsExplained'
  <2>1. ASSUME NEW r \in Threads, r # t PROVE pc'[r] = pc[r] /\ job'[r] = job[r]
    BY <2>1 DEF GetCard, Goto, Answered, IInv, TypeOK
  <2> QED BY <1>1, <2>1 DEF IInv, OldSessionsExplained
<1> QED BY <1>2, <1>3, <1>4 DEF IInv

\* The end of a request that may have added or deleted a certificate.
LEMMA CertsKeep ==
  ASSUME IInv, NEW t \in Threads, pc[t] = "use", Answered(t),
         certCard' \in [Certs -> Cards \cup {NoCard}], RowsOK',
         UNCHANGED <<owner, made, pinSet, pukSet, adminSet, failed, locked,
                     sessions, epoch, passed, half>>
  PROVE  IInv'
<1>1. pc' \in [Threads -> Steps] /\ job' \in [Threads -> Jobs] /\ Carries'
  BY AnsweredKeeps
<1>2. TypeOK' /\ LockMatchesCount' /\ SessionsEarned'
  BY <1>1 DEF IInv, TypeOK, LockMatchesCount, SessionsEarned
<1>3. OldSessionsExplained'
  BY DEF Answered, IInv, TypeOK, OldSessionsExplained
<1> QED BY <1>1, <1>2, <1>3 DEF IInv

LEMMA OperateKeeps == ASSUME IInv, NEW t \in Threads, Operate(t) PROVE IInv'
<1>1. CASE UseKey(t)
  BY <1>1, CertsKeep DEF UseKey, rowVars, IInv, TypeOK, RowsOK
<1>2. CASE StoreCert(t)
  <2>1. job[t].card \in Cards /\ job[t].cert \in Certs
    BY <1>2 DEF StoreCert, IInv, TypeOK, Carries, CarriesOK
  <2>2. certCard' \in [Certs -> Cards \cup {NoCard}] /\ RowsOK'
    BY <1>2, <2>1 DEF StoreCert, Exists, IInv, TypeOK, RowsOK
  <2> QED BY <1>2, <2>2, CertsKeep DEF StoreCert
<1>3. CASE DeleteCert(t)
  <2>1. certCard' \in [Certs -> Cards \cup {NoCard}] /\ RowsOK'
    BY <1>3 DEF DeleteCert, IInv, TypeOK, RowsOK
  <2> QED BY <1>3, <2>1, CertsKeep DEF DeleteCert
<1> QED BY <1>1, <1>2, <1>3, CheckPINKeeps, VerifySessionKeeps, GetCardKeeps
        DEF Operate

----------------------------------------------------------------------------
(* The invariant, and what follows from it. *)

LEMMA IInvInductive == IInv /\ [Next]_vars => IInv'
<1> SUFFICES ASSUME IInv, [Next]_vars PROVE IInv'
  OBVIOUS
<1>1. CASE Manage
  BY <1>1, ManageKeeps
<1>2. ASSUME NEW t \in Threads, Verify(t) \/ Reset(t) \/ Operate(t) \/ Fail(t)
      PROVE  IInv'
  BY <1>2, VerifyKeeps, ResetKeeps, OperateKeeps, FailKeeps
<1>3. ASSUME NEW k \in Tokens, LogoutPINSession(k) \/ Expire(k) PROVE IInv'
  BY <1>3, LogoutKeeps, ExpireKeeps
<1>4. CASE Cleanup
  BY <1>4, CleanupKeeps
<1>5. CASE UNCHANGED vars
  <2>1. UNCHANGED <<rowVars, pc, job, epoch, passed, half>> /\ sessions' = sessions
    BY <1>5 DEF vars, rowVars
  <2>2. sessions' \in [Tokens -> Sessions]
    BY <2>1 DEF IInv, TypeOK
  <2> QED BY <2>1, <2>2, DropKeeps
<1> QED BY <1>1, <1>2, <1>3, <1>4, <1>5 DEF Next

LEMMA SpecIInv == Spec => []IInv
<1> QED BY InitIInv, IInvInductive, PTL DEF Spec

\* The rows, the PIN sessions and the requests have their types: the count of
\* failures never passes the limit, whichever requests interleave.
THEOREM TypeCorrect == Spec => []TypeOK
<1>1. IInv => TypeOK
  BY DEF IInv
<1> QED BY SpecIInv, <1>1, PTL

\* A card is locked exactly when its count of failures is at the limit, for
\* any number of verifications and resets under way on copies of the row.
THEOREM LockMatchesCountCorrect == Spec => []LockMatchesCount
<1>1. IInv => LockMatchesCount
  BY DEF IInv
<1> QED BY SpecIInv, <1>1, PTL

\* A PIN session older than its card's PIN is one of three kinds: about to be
\* revoked, left by a reset that failed half way, or stored after the reset.
THEOREM OldSessionsExplainedCorrect == Spec => []OldSessionsExplained
<1>1. IInv => OldSessionsExplained
  BY DEF IInv
<1> QED BY SpecIInv, <1>1, PTL

\* A key is used for the owner of its card, who passed the check of the PIN
\* when the card had one as the request began: no deletion, move of a
\* certificate or reset in between changes that.
THEOREM KeyUseEarnedCorrect == Spec => KeyUseEarned
<1> DEFINE Earned ==
      \A t \in Threads :
         UseKey(t) =>
            LET j == job[t] IN
            /\ owner[j.card] = j.user
            /\ j.guarded => <<j.card, j.user>> \in passed
<1>1. IInv => Earned
  <2> SUFFICES ASSUME IInv, NEW t \in Threads, UseKey(t)
               PROVE  /\ owner[job[t].card] = job[t].user
                      /\ job[t].guarded => <<job[t].card, job[t].user>> \in passed
    OBVIOUS
  <2>1. /\ job[t].card \in Cards /\ job[t].cert \in Certs
        /\ owner[job[t].card] \in {job[t].user, NoUser}
        /\ job[t].guarded => <<job[t].card, job[t].user>> \in passed
    BY DEF UseKey, IInv, TypeOK, Carries, CarriesOK
  <2>2. owner[job[t].card] # NoUser
    BY <2>1 DEF UseKey, IInv, RowsOK
  <2> QED BY <2>1, <2>2
<1>2. IInv => [Earned]_vars
  BY <1>1
<1> QED BY SpecIInv, <1>2, PTL DEF KeyUseEarned

\* A lock comes off only by a reset, or by a verification that read the card
\* before it was locked: never by one that found it locked.
THEOREM LockHoldsCorrect == Spec => [][LockHolds]_vars
<1>1. IInv /\ [Next]_vars => [LockHolds]_vars
  <2> SUFFICES ASSUME IInv, Next, NEW c \in Cards, locked[c], ~locked'[c]
               PROVE  \E t \in Threads :
                        /\ job[t].card = c
                        /\ \/ pc[t] = "pin"
                           \/ pc[t] \in {"count", "clear"} /\ job[t].failed < Retries
    BY DEF LockHolds
  <2>1. ASSUME NEW t \in Threads, WritePIN(t) PROVE job[t].card = c /\ pc[t] = "pin"
    BY <2>1 DEF WritePIN, IInv, TypeOK
  <2>2. ASSUME NEW t \in Threads, CountFailure(t) \/ ClearFailures(t)
        PROVE  /\ job[t].card = c /\ pc[t] \in {"count", "clear"}
               /\ job[t].failed < Retries
    <3>1. pc[t] \in {"count", "clear"} /\ job[t].failed < Retries
      BY <2>2 DEF CountFailure, ClearFailures, IInv, Carries, CarriesOK
    <3>2. ASSUME job[t].card # c PROVE locked'[c] = locked[c]
      BY <2>2, <3>2, Zenon
         DEF CountFailure, ClearFailures, WriteStatus, rowVars, IInv, TypeOK
    <3> QED BY <3>1, <3>2
  <2>3. \/ locked' = locked
        \/ \E t \in Threads : WritePIN(t) \/ CountFailure(t) \/ ClearFailures(t)
    <3>1. CASE Manage \/ Cleanup \/ \E k \in Tokens : LogoutPINSession(k) \/ Expire(k)
      BY <3>1 DEF Manage, CreateCard, DeleteCard, AssignCert, Cleanup,
                  LogoutPINSession, Expire, rowVars
    <3>2. ASSUME NEW t \in Threads, Verify(t) \/ Fail(t)
          PROVE  locked' = locked \/ CountFailure(t) \/ ClearFailures(t)
      BY <3>2 DEF Verify, VerifyPIN, IssueSession, Fail, rowVars
    <3>3. ASSUME NEW t \in Threads, Reset(t) PROVE locked' = locked \/ WritePIN(t)
      BY <3>3 DEF Reset, UnlockWithPUK, ResetWithAdminKey, WritePUK, FailPUK,
                  RevokeByCard, rowVars
    <3>4. ASSUME NEW t \in Threads, Operate(t) PROVE locked' = locked
      BY <3>4 DEF Operate, CheckPIN, VerifySession, GetCard, UseKey, StoreCert,
                  DeleteCert, rowVars
    <3> QED BY <3>1, <3>2, <3>3, <3>4 DEF Next
  <2> QED BY <2>1, <2>2, <2>3
<1> QED BY SpecIInv, <1>1, PTL DEF Spec

\* The lock of a card is on when it should be, and comes off as it should.
THEOREM LockIsRightCorrect == Spec => LockIsRight
BY LockMatchesCountCorrect, LockHoldsCorrect, PTL DEF LockIsRight
=============================================================================
