------------------------------- MODULE EcAuth -------------------------------
(***************************************************************************)
(* The gRPC authentication server of Rust/craft-main (server/src/service.rs*)
(* over the in-memory store) with clients that follow run_protocol of      *)
(* client/src/logic.rs: register, ask for a challenge, answer it.          *)
(*                                                                         *)
(* A handler gives the store's mutex back between its lock sections, so    *)
(* each lock section is a step and what a handler read is a local copy in  *)
(* between.  A client is one run of the protocol.  Its commitment random,  *)
(* its challenge and its auth_id are fresh random values, so the client    *)
(* itself stands for each of them, and the curve equations of verify hold  *)
(* exactly when secret, commitment and challenge are the ones the response *)
(* was made from.                                                          *)
(***************************************************************************)
EXTENDS Integers, FiniteSets

CONSTANTS
  Clients,     \* runs of the protocol
  Users,       \* usernames
  Secrets,
  UserOf,      \* the username a run uses
  SecretOf,    \* the secret a run knows
  None,        \* Option::None
  MaxCalls     \* bound: verify calls a run makes for its challenge

ASSUME AuthAssumption ==
  /\ UserOf \in [Clients -> Users]
  /\ SecretOf \in [Clients -> Secrets]
  /\ None \notin Clients /\ None \notin Secrets
  /\ MaxCalls \in Nat \ {0}

VARIABLES
  users,       \* username -> its record, y = None when there is none
  challenges,  \* auth_ids with an open challenge
  stage,       \* how far a run is
  copy,        \* the user record create_challenge read and changed
  call,        \* the verify calls: position of the handler
  sessions     \* session ids handed out, per auth_id

storeVars == <<users, challenges>>
verifyVars == <<call, sessions>>
vars == <<storeVars, stage, copy, verifyVars>>

Calls == 1..MaxCalls
Record == [y : Secrets \cup {None}, r : Clients \cup {None}]
NoUser == [y |-> None, r |-> None]

Stages == {"new", "registered", "challenging", "challenged", "failed"}
Running == {"called", "gotChallenge", "verified"}
Outcomes == {"accepted", "rejected", "panicked", "notFound", "cancelled"}

Init ==
  /\ users = [u \in Users |-> NoUser]
  /\ challenges = {}
  /\ stage = [c \in Clients |-> "new"]
  /\ copy = [c \in Clients |-> NoUser]
  /\ call = [c \in Clients |-> [i \in Calls |-> "idle"]]
  /\ sessions = [c \in Clients |-> 0]

\* Mistake: the proof values end up in the fields of the commitment.
RegisterUser_WrongField(c) ==
  /\ stage[c] = "new"
  /\ users' = [users EXCEPT ![UserOf[c]] = [y |-> None, r |-> SecretOf[c]]]
  /\ stage' = [stage EXCEPT ![c] = "registered"]
  /\ UNCHANGED <<challenges, copy, verifyVars>>

\* register_user: creates or replaces the record, without a commitment.
RegisterUser(c) ==
  /\ stage[c] = "new"
  /\ users' = [users EXCEPT ![UserOf[c]] = [y |-> SecretOf[c], r |-> None]]
  /\ stage' = [stage EXCEPT ![c] = "registered"]
  /\ UNCHANGED <<challenges, copy, verifyVars>>

\* create_challenge, first lock section: copy the record, set r1 and r2 in it.
ReadForChallenge(c) ==
  /\ stage[c] = "registered"
  /\ IF users[UserOf[c]] = NoUser
     THEN /\ stage' = [stage EXCEPT ![c] = "failed"]
          /\ UNCHANGED copy
     ELSE /\ stage' = [stage EXCEPT ![c] = "challenging"]
          /\ copy' = [copy EXCEPT ![c] = [users[UserOf[c]] EXCEPT !.r = c]]
  /\ UNCHANGED <<storeVars, verifyVars>>

\* Mistake: the changed copy of the user is not written back.
StoreChallenge_NoUpdate(c) ==
  /\ stage[c] = "challenging"
  /\ challenges' = challenges \cup {c}
  /\ stage' = [stage EXCEPT ![c] = "challenged"]
  /\ copy' = [copy EXCEPT ![c] = NoUser]
  /\ UNCHANGED <<users, verifyVars>>

\* Mistake: the user is written back, the challenge is not stored.
StoreChallenge_NotStored(c) ==
  /\ stage[c] = "challenging"
  /\ users' = [users EXCEPT ![UserOf[c]] = copy[c]]
  /\ stage' = [stage EXCEPT ![c] = "challenged"]
  /\ copy' = [copy EXCEPT ![c] = NoUser]
  /\ UNCHANGED <<challenges, verifyVars>>

\* create_challenge, second lock section: write the copy back (update does
\* nothing for an unknown user) and store the challenge.
StoreChallenge(c) ==
  LET u == UserOf[c] IN
  /\ stage[c] = "challenging"
  /\ users' = IF users[u] = NoUser THEN users ELSE [users EXCEPT ![u] = copy[c]]
  /\ challenges' = challenges \cup {c}
  /\ stage' = [stage EXCEPT ![c] = "challenged"]
  /\ copy' = [copy EXCEPT ![c] = NoUser]
  /\ UNCHANGED verifyVars

\* The client sends its answer, and again when no reply has reached it, be it
\* late, lost or an error.
CallVerify(c, i) ==
  /\ stage[c] = "challenged"
  /\ call[c][i] = "idle"
  /\ \A j \in Calls : j < i => call[c][j] # "idle"
  /\ call' = [call EXCEPT ![c][i] = "called"]
  /\ UNCHANGED <<storeVars, stage, copy, sessions>>

\* verify, first lock section
GetChallenge(c, i) ==
  /\ call[c][i] = "called"
  /\ call' = [call EXCEPT ![c][i] =
                IF c \in challenges THEN "gotChallenge" ELSE "notFound"]
  /\ UNCHANGED <<storeVars, stage, copy, sessions>>

\* The check of the response against a user record: unwrap panics without a
\* commitment, and the equations compare secret and commitment.
Verdict(c, user) ==
  CASE user.r = None -> "panicked"
    [] user.r = c /\ user.y = SecretOf[c] -> "verified"
    [] OTHER -> "rejected"

\* verify, second lock section and the check
ReadUserAndCheck(c, i) ==
  LET user == users[UserOf[c]] IN
  /\ call[c][i] = "gotChallenge"
  /\ call' = [call EXCEPT ![c][i] =
                IF user = NoUser THEN "notFound" ELSE Verdict(c, user)]
  /\ UNCHANGED <<storeVars, stage, copy, sessions>>

\* Mistake: the challenge stays in the store.
DeleteChallenge_Kept(c, i) ==
  /\ call[c][i] = "verified"
  /\ sessions' = [sessions EXCEPT ![c] = @ + 1]
  /\ call' = [call EXCEPT ![c][i] = "accepted"]
  /\ UNCHANGED <<storeVars, stage, copy>>

\* verify, third lock section: the session is issued whether or not the
\* challenge is still there.
DeleteChallenge(c, i) ==
  /\ call[c][i] = "verified"
  /\ challenges' = challenges \ {c}
  /\ sessions' = [sessions EXCEPT ![c] = @ + 1]
  /\ call' = [call EXCEPT ![c][i] = "accepted"]
  /\ UNCHANGED <<users, stage, copy>>

\* The connection is gone: the server drops the handler where it waits for
\* the lock.
DropChallenge(c) ==
  /\ stage[c] \in {"registered", "challenging"}
  /\ stage' = [stage EXCEPT ![c] = "failed"]
  /\ copy' = [copy EXCEPT ![c] = NoUser]
  /\ UNCHANGED <<storeVars, verifyVars>>

DropVerify(c, i) ==
  /\ call[c][i] \in Running
  /\ call' = [call EXCEPT ![c][i] = "cancelled"]
  /\ UNCHANGED <<storeVars, stage, copy, sessions>>

\* What the run and the server do when the connection holds.
Progress(c) ==
  \/ RegisterUser(c)
  \/ ReadForChallenge(c)
  \/ StoreChallenge(c)
  \/ \E i \in Calls : CallVerify(c, i)
  \/ \E i \in Calls : GetChallenge(c, i)
  \/ \E i \in Calls : ReadUserAndCheck(c, i)
  \/ \E i \in Calls : DeleteChallenge(c, i)

Next ==
  \/ \E c \in Clients : Progress(c)
  \/ \E c \in Clients : DropChallenge(c)
  \/ \E c \in Clients, i \in Calls : DropVerify(c, i)

\* Tasks of the server and of the clients are scheduled fairly, and the
\* mutex is handed over in order.
Spec == Init /\ [][Next]_vars /\ \A c \in Clients : WF_vars(Progress(c))

-----------------------------------------------------------------------------
TypeOK ==
  /\ users \in [Users -> Record]
  /\ challenges \subseteq Clients
  /\ stage \in [Clients -> Stages]
  /\ copy \in [Clients -> Record]
  /\ call \in [Clients -> [Calls -> {"idle"} \cup Running \cup Outcomes]]
  /\ sessions \in [Clients -> Nat]

\* Runs whose username nobody else uses.
Sole(c) == \A d \in Clients : UserOf[d] = UserOf[c] => d = c

\* The lock sections of other users' requests never reach a user's record:
\* a run that has its username for itself is never turned down, and does not
\* panic, in any interleaving.
SoleRunNotRejected ==
  \A c \in Clients, i \in Calls : Sole(c) => call[c][i] \notin {"rejected", "panicked"}

\* README, Verification: "If both equations hold, the verifier accepts the
\* proof".  Every client here answers its own challenge with its own secret
\* and commitment, so no call should be turned down.
HonestRunNotRejected ==
  \A c \in Clients, i \in Calls : call[c][i] \notin {"rejected", "panicked"}

UnreadCallsStayOut ==
  \A c \in Clients, i \in Calls :
    sessions[c] > 0 /\ call[c][i] \in {"idle", "called"} =>
      call'[c][i] \in {"idle", "called", "notFound", "cancelled"}

\* A challenge is good for one login: once it has given a session, a call
\* that has not read it yet can only end in not-found, a client's retry after
\* a lost reply included.  (Calls that have read it may still be accepted.)
NoLoginWithUsedChallenge == [][UnreadCallsStayOut]_vars

\* A run with a username of its own ends with a session, unless its
\* connection is lost.
SoleRunLogsIn ==
  \A c \in Clients : Sole(c) =>
    <>(\/ sessions[c] > 0
       \/ stage[c] = "failed"
       \/ \E i \in Calls : call[c][i] = "cancelled")
=============================================================================
