--------------------------- MODULE EcAuth_proofs ---------------------------
(***************************************************************************)
(* For any number of runs, users and verify calls: the types of EcAuth and *)
(* SoleRunNotRejected.  The invariant says, for a run that has its         *)
(* username for itself, what the store holds at every stage of the run.    *)
(***************************************************************************)
EXTENDS EcAuth, TLAPS

\* The record of the run's user once it has registered, and once it has
\* stored its commitment.
Registered(c) == [y |-> SecretOf[c], r |-> None]
Committed(c) == [y |-> SecretOf[c], r |-> c]

\* What the store and the run hold, stage by stage.
RunInv(c) ==
  /\ stage[c] \in {"registered", "challenging"} => users[UserOf[c]] = Registered(c)
  /\ stage[c] = "challenging" => copy[c] = Committed(c)
  /\ stage[c] = "challenged" => users[UserOf[c]] = Committed(c)
  /\ stage[c] # "challenged" => \A i \in Calls : call[c][i] = "idle"
  /\ \A i \in Calls : call[c][i] \notin {"rejected", "panicked"}

SoleInv == \A c \in Clients : Sole(c) => RunInv(c)

IInv == TypeOK /\ SoleInv

-----------------------------------------------------------------------------
\* The records the handlers write are records of the store.
LEMMA RecordsWritten ==
  /\ NoUser \in Record
  /\ \A c \in Clients : Registered(c) \in Record
  /\ \A rec \in Record, c \in Clients : [rec EXCEPT !.r = c] \in Record
BY AuthAssumption DEF Record, NoUser, Registered

\* The variables of the server and its clients keep their types.
LEMMA InitType == Init => TypeOK
BY RecordsWritten DEF Init, TypeOK, Stages

LEMMA NextType == ASSUME TypeOK, [Next]_vars PROVE TypeOK'
<1> USE AuthAssumption, RecordsWritten DEF TypeOK, Stages, Running, Outcomes
<1>1. ASSUME NEW c \in Clients, RegisterUser(c) PROVE TypeOK'
  BY <1>1 DEF RegisterUser, verifyVars, Registered
<1>2. ASSUME NEW c \in Clients, ReadForChallenge(c) PROVE TypeOK'
  <2> DEFINE new == [users[UserOf[c]] EXCEPT !.r = c]
  <2>1. users[UserOf[c]] \in Record
    OBVIOUS
  <2>2. new \in Record
    BY <2>1
  <2>3. copy' = copy \/ copy' = [copy EXCEPT ![c] = new]
    BY <1>2 DEF ReadForChallenge
  <2>4. copy' \in [Clients -> Record]
    <3> HIDE DEF new
    <3>1. QED BY <2>2, <2>3
  <2>5. stage' \in [Clients -> Stages]
    BY <1>2 DEF ReadForChallenge
  <2>6. QED
    BY <1>2, <2>4, <2>5 DEF ReadForChallenge, verifyVars, storeVars
<1>3. ASSUME NEW c \in Clients, StoreChallenge(c) PROVE TypeOK'
  BY <1>3 DEF StoreChallenge, verifyVars
<1>4. ASSUME NEW c \in Clients, NEW i \in Calls, CallVerify(c, i) PROVE TypeOK'
  BY <1>4 DEF CallVerify, storeVars
<1>5. ASSUME NEW c \in Clients, NEW i \in Calls, GetChallenge(c, i) PROVE TypeOK'
  BY <1>5 DEF GetChallenge, storeVars
<1>6. ASSUME NEW c \in Clients, NEW i \in Calls, ReadUserAndCheck(c, i) PROVE TypeOK'
  BY <1>6 DEF ReadUserAndCheck, Verdict, storeVars
<1>7. ASSUME NEW c \in Clients, NEW i \in Calls, DeleteChallenge(c, i) PROVE TypeOK'
  BY <1>7 DEF DeleteChallenge
<1>8. ASSUME NEW c \in Clients, DropChallenge(c) PROVE TypeOK'
  BY <1>8 DEF DropChallenge, storeVars, verifyVars
<1>9. ASSUME NEW c \in Clients, NEW i \in Calls, DropVerify(c, i) PROVE TypeOK'
  BY <1>9 DEF DropVerify, storeVars
<1>10. CASE UNCHANGED vars
  BY <1>10 DEF vars, storeVars, verifyVars
<1>11. QED
  BY <1>1, <1>2, <1>3, <1>4, <1>5, <1>6, <1>7, <1>8, <1>9, <1>10 DEF Next, Progress

THEOREM TypeCorrect == Spec => []TypeOK
<1>1. QED BY InitType, NextType, PTL DEF Spec

-----------------------------------------------------------------------------
\* A step of another run leaves alone what SoleInv says of c: it works on
\* another username.
LEMMA OtherRunsApart ==
  ASSUME TypeOK, NEW c \in Clients, Sole(c), NEW d \in Clients, d # c,
         \/ Progress(d)
         \/ DropChallenge(d)
         \/ \E i \in Calls : DropVerify(d, i)
  PROVE  /\ users'[UserOf[c]] = users[UserOf[c]]
         /\ stage'[c] = stage[c]
         /\ copy'[c] = copy[c]
         /\ call'[c] = call[c]
<1>1. UserOf[d] # UserOf[c] /\ UserOf[c] \in Users /\ UserOf[d] \in Users
  BY AuthAssumption DEF Sole
<1> USE <1>1 DEF TypeOK
<1>2. CASE RegisterUser(d)
  BY <1>2 DEF RegisterUser, verifyVars
<1>3. CASE ReadForChallenge(d)
  BY <1>3 DEF ReadForChallenge, verifyVars, storeVars
<1>4. CASE StoreChallenge(d)
  BY <1>4 DEF StoreChallenge, verifyVars
<1>5. CASE \E i \in Calls : CallVerify(d, i)
  BY <1>5 DEF CallVerify, storeVars
<1>6. CASE \E i \in Calls : GetChallenge(d, i)
  BY <1>6 DEF GetChallenge, storeVars
<1>7. CASE \E i \in Calls : ReadUserAndCheck(d, i)
  BY <1>7 DEF ReadUserAndCheck, storeVars
<1>8. CASE \E i \in Calls : DeleteChallenge(d, i)
  BY <1>8 DEF DeleteChallenge
<1>9. CASE DropChallenge(d)
  BY <1>9 DEF DropChallenge, storeVars, verifyVars
<1>10. CASE \E i \in Calls : DropVerify(d, i)
  BY <1>10 DEF DropVerify, storeVars
<1>11. QED
  BY <1>2, <1>3, <1>4, <1>5, <1>6, <1>7, <1>8, <1>9, <1>10 DEF Progress

\* The run's own steps, one lock section after the other.
LEMMA OwnSteps ==
  ASSUME TypeOK, NEW c \in Clients, RunInv(c),
         \/ Progress(c)
         \/ DropChallenge(c)
         \/ \E i \in Calls : DropVerify(c, i)
  PROVE  RunInv(c)'
<1> USE AuthAssumption DEF TypeOK, RunInv
<1>1. UserOf[c] \in Users
  OBVIOUS
<1>2. CASE RegisterUser(c)
  BY <1>1, <1>2 DEF RegisterUser, verifyVars, Registered
<1>3. CASE ReadForChallenge(c)
  BY <1>1, <1>3 DEF ReadForChallenge, verifyVars, storeVars, Registered,
                    Committed, NoUser
<1>4. CASE StoreChallenge(c)
  <2>1. stage[c] = "challenging" /\ copy[c] = Committed(c)
    BY <1>4 DEF StoreChallenge
  <2>2. users[UserOf[c]] # NoUser
    BY <2>1 DEF Registered, NoUser
  <2>3. users' = [users EXCEPT ![UserOf[c]] = copy[c]]
    BY <1>4, <2>2 DEF StoreChallenge
  <2>4. users'[UserOf[c]] = Committed(c)
    BY <1>1, <2>1, <2>3
  <2>5. stage' = [stage EXCEPT ![c] = "challenged"] /\ call' = call
    BY <1>4 DEF StoreChallenge, verifyVars
  <2>6. QED
    BY <2>4, <2>5 DEF Committed
<1>5. CASE \E i \in Calls : CallVerify(c, i)
  <2>1. PICK i \in Calls : CallVerify(c, i)
    BY <1>5
  <2>2. QED
    BY <2>1 DEF CallVerify, storeVars
<1>6. CASE \E i \in Calls : GetChallenge(c, i)
  <2>1. PICK i \in Calls : GetChallenge(c, i)
    BY <1>6
  <2>2. QED
    BY <2>1 DEF GetChallenge, storeVars
<1>7. CASE \E i \in Calls : ReadUserAndCheck(c, i)
  <2>1. PICK i \in Calls : ReadUserAndCheck(c, i)
    BY <1>7
  <2>2. stage[c] = "challenged"
    BY <2>1 DEF ReadUserAndCheck
  <2>3. Verdict(c, users[UserOf[c]]) = "verified" /\ users[UserOf[c]] # NoUser
    BY <2>2 DEF Verdict, Committed, NoUser
  <2>4. QED
    BY <2>1, <2>2, <2>3 DEF ReadUserAndCheck, storeVars
<1>8. CASE \E i \in Calls : DeleteChallenge(c, i)
  <2>1. PICK i \in Calls : DeleteChallenge(c, i)
    BY <1>8
  <2>2. QED
    BY <2>1 DEF DeleteChallenge
<1>9. CASE DropChallenge(c)
  BY <1>9 DEF DropChallenge, storeVars, verifyVars
<1>10. CASE \E i \in Calls : DropVerify(c, i)
  <2>1. PICK i \in Calls : DropVerify(c, i)
    BY <1>10
  <2>2. stage[c] = "challenged" /\ stage' = stage /\ users' = users /\ copy' = copy
    BY <2>1 DEF DropVerify, storeVars, Running
  <2>3. call' = [call EXCEPT ![c][i] = "cancelled"]
    BY <2>1 DEF DropVerify
  <2>4. QED
    BY <2>2, <2>3
<1>11. QED
  BY <1>2, <1>3, <1>4, <1>5, <1>6, <1>7, <1>8, <1>9, <1>10 DEF Progress

\* IInv is inductive.
LEMMA InitInv == Init => IInv
BY InitType DEF Init, IInv, SoleInv, RunInv

LEMMA NextInv == ASSUME IInv, [Next]_vars PROVE IInv'
<1>1. TypeOK'
  BY NextType DEF IInv
<1>2. ASSUME NEW c \in Clients, Sole(c) PROVE RunInv(c)'
  <2>1. TypeOK /\ RunInv(c)
    BY <1>2 DEF IInv, SoleInv
  <2>2. CASE UNCHANGED vars
    BY <2>1, <2>2 DEF RunInv, vars, storeVars, verifyVars
  <2>3. ASSUME NEW d \in Clients,
               \/ Progress(d)
               \/ DropChallenge(d)
               \/ \E i \in Calls : DropVerify(d, i)
        PROVE  RunInv(c)'
    <3>1. CASE d = c
      BY <2>1, <2>3, <3>1, OwnSteps
    <3>2. CASE d # c
      <4>1. /\ users'[UserOf[c]] = users[UserOf[c]]
            /\ stage'[c] = stage[c]
            /\ copy'[c] = copy[c]
            /\ call'[c] = call[c]
        BY <1>2, <2>1, <2>3, <3>2, OtherRunsApart
      <4>2. QED
        BY <2>1, <4>1 DEF RunInv, Registered, Committed
    <3>3. QED
      BY <3>1, <3>2
  <2>4. QED
    BY <2>2, <2>3 DEF Next
<1>3. SoleInv'
  BY <1>2 DEF SoleInv, Sole
<1>4. QED
  BY <1>1, <1>3 DEF IInv

\* A run that has its username for itself is never rejected and never makes
\* the handler panic, for any number of other runs in any interleaving.
THEOREM SoleRunsNeverRejected == Spec => []SoleRunNotRejected
<1>1. IInv => SoleRunNotRejected
  BY DEF IInv, SoleInv, RunInv, SoleRunNotRejected
<1>2. QED
  BY InitInv, NextInv, <1>1, PTL DEF Spec

-----------------------------------------------------------------------------
\* A challenge that has given a session is gone, and the run that could store
\* it again is past that point.
UsedInv ==
  /\ TypeOK
  /\ \A c \in Clients : sessions[c] > 0 => stage[c] = "challenged" /\ c \notin challenges
  /\ \A c \in Clients, i \in Calls : call[c][i] # "idle" => stage[c] = "challenged"

\* UsedInv is inductive.
LEMMA InitUsed == Init => UsedInv
BY InitType DEF Init, UsedInv

LEMMA NextUsed == ASSUME UsedInv, [Next]_vars PROVE UsedInv'
<1>1. SUFFICES
        /\ \A c \in Clients : sessions'[c] > 0 => stage'[c] = "challenged" /\ c \notin challenges'
        /\ \A c \in Clients, i \in Calls : call'[c][i] # "idle" => stage'[c] = "challenged"
  BY NextType DEF UsedInv
<1> USE DEF UsedInv, TypeOK, storeVars, verifyVars
<1> DEFINE Goal ==
        /\ \A c \in Clients : sessions'[c] > 0 => stage'[c] = "challenged" /\ c \notin challenges'
        /\ \A c \in Clients, i \in Calls : call'[c][i] # "idle" => stage'[c] = "challenged"
<1>2. ASSUME NEW d \in Clients,
             \/ RegisterUser(d) \/ ReadForChallenge(d)
             \/ StoreChallenge(d) \/ DropChallenge(d)
      PROVE  Goal
  <2>1. stage[d] # "challenged" /\ call' = call /\ sessions' = sessions
    BY <1>2 DEF RegisterUser, ReadForChallenge, StoreChallenge, DropChallenge
  <2>2. /\ \A c \in Clients : c # d => stage'[c] = stage[c]
        /\ challenges' \subseteq challenges \cup {d}
    BY <1>2 DEF RegisterUser, ReadForChallenge, StoreChallenge, DropChallenge
  <2>3. QED
    BY <2>1, <2>2
<1>3. ASSUME NEW d \in Clients, NEW j \in Calls,
             \/ CallVerify(d, j) \/ GetChallenge(d, j)
             \/ ReadUserAndCheck(d, j) \/ DropVerify(d, j)
      PROVE  Goal
  <2>1. /\ stage[d] = "challenged"
        /\ UNCHANGED <<stage, sessions, challenges>>
    BY <1>3 DEF CallVerify, GetChallenge, ReadUserAndCheck, DropVerify, Running
  <2>2. \A c \in Clients : c # d => call'[c] = call[c]
    BY <1>3 DEF CallVerify, GetChallenge, ReadUserAndCheck, DropVerify
  <2>3. QED
    BY <2>1, <2>2
<1>4. ASSUME NEW d \in Clients, NEW j \in Calls, DeleteChallenge(d, j)
      PROVE  Goal
  <2>1. stage[d] = "challenged" /\ stage' = stage
    BY <1>4 DEF DeleteChallenge
  <2>2. /\ \A c \in Clients : c # d => call'[c] = call[c] /\ sessions'[c] = sessions[c]
        /\ challenges' = challenges \ {d}
    BY <1>4 DEF DeleteChallenge
  <2>3. QED
    BY <2>1, <2>2
<1>5. CASE UNCHANGED vars
  BY <1>5 DEF vars
<1>6. QED
  BY <1>2, <1>3, <1>4, <1>5 DEF Next, Progress

\* From a used challenge, no step accepts a call that has not read it.
LEMMA StepUsed == ASSUME UsedInv, [Next]_vars PROVE [UnreadCallsStayOut]_vars
<1>1. SUFFICES ASSUME NEW c \in Clients, NEW i \in Calls,
                      sessions[c] > 0, call[c][i] \in {"idle", "called"}
               PROVE  call'[c][i] \in {"idle", "called", "notFound", "cancelled"}
  BY DEF UnreadCallsStayOut
<1> USE DEF UsedInv, TypeOK
<1>2. c \notin challenges
  BY <1>1
<1>3. ASSUME NEW d \in Clients,
             \/ RegisterUser(d) \/ ReadForChallenge(d)
             \/ StoreChallenge(d) \/ DropChallenge(d)
      PROVE  call' = call
  BY <1>3 DEF RegisterUser, ReadForChallenge, StoreChallenge, DropChallenge, verifyVars
<1>4. ASSUME NEW d \in Clients, NEW j \in Calls,
             \/ CallVerify(d, j) \/ GetChallenge(d, j) \/ ReadUserAndCheck(d, j)
             \/ DeleteChallenge(d, j) \/ DropVerify(d, j)
      PROVE  call'[c][i] \in {"idle", "called", "notFound", "cancelled"}
  <2>1. CASE c = d /\ i = j
    <3>1. CASE CallVerify(d, j)
      BY <2>1, <3>1 DEF CallVerify
    <3>2. CASE GetChallenge(d, j)
      BY <1>2, <2>1, <3>2 DEF GetChallenge
    <3>3. CASE DropVerify(d, j)
      BY <2>1, <3>3 DEF DropVerify
    <3>4. ~ReadUserAndCheck(d, j) /\ ~DeleteChallenge(d, j)
      BY <1>1, <2>1 DEF ReadUserAndCheck, DeleteChallenge
    <3>5. QED
      BY <1>4, <3>1, <3>2, <3>3, <3>4
  <2>2. CASE ~(c = d /\ i = j)
    <3>1. call'[c][i] = call[c][i]
      <4>1. CASE CallVerify(d, j)
        BY <2>2, <4>1 DEF CallVerify
      <4>2. CASE GetChallenge(d, j)
        BY <2>2, <4>2 DEF GetChallenge
      <4>3. CASE ReadUserAndCheck(d, j)
        BY <2>2, <4>3 DEF ReadUserAndCheck
      <4>4. CASE DeleteChallenge(d, j)
        BY <2>2, <4>4 DEF DeleteChallenge
      <4>5. CASE DropVerify(d, j)
        BY <2>2, <4>5 DEF DropVerify
      <4>6. QED
        BY <1>4, <4>1, <4>2, <4>3, <4>4, <4>5
    <3>2. QED
      BY <1>1, <3>1
  <2>3. QED
    BY <2>1, <2>2
<1>5. CASE UNCHANGED vars
  BY <1>1, <1>5 DEF vars, verifyVars
<1>6. QED
  BY <1>1, <1>3, <1>4, <1>5 DEF Next, Progress

\* A challenge logs in only calls that had read it before it was used.
THEOREM UsedChallengesStayUsed == Spec => NoLoginWithUsedChallenge
<1>1. QED
  BY InitUsed, NextUsed, StepUsed, PTL DEF Spec, NoLoginWithUsedChallenge
=============================================================================
