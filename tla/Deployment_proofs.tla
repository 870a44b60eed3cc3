-------------------------- MODULE Deployment_proofs --------------------------
(***************************************************************************)
(* For any number of failing runs: what the deployment leaves on a chain.  *)
(*                                                                         *)
(* The scripts are tables of steps, which the first lemmas look up once.   *)
(* RecInv then says what is on record at each place of a run, the other    *)
(* parts of the invariant what follows for the timelock, for the votes and *)
(* for runs that begin after the setup.                                    *)
(***************************************************************************)
EXTENDS Deployment, TLAPS

-----------------------------------------------------------------------------
(* The scripts as tables *)

LEMMA Lengths ==
  /\ Len(Scripts[1].steps) = 3 /\ Len(Scripts[2].steps) = 2 /\ Len(Scripts[3].steps) = 3
  /\ Len(Scripts[4].steps) = 4 /\ Len(Scripts[5].steps) = 2 /\ Len(Scripts[6].steps) = 2
BY DEF Scripts, GovernorToken, TimeLock, GovernorContract, SetupGovernance,
       StableCookieScript, CookieStoreScript

LEMMA Tags ==
  /\ Scripts[1].tags = {"all", "governor"} /\ Scripts[2].tags = {"all", "timelock"}
  /\ Scripts[3].tags = {"all", "governor"} /\ Scripts[4].tags = {"all", "setup"}
  /\ Scripts[5].tags = {"all", "stableCookie"} /\ Scripts[6].tags = {"all", "CookieStore"}
BY DEF Scripts, GovernorToken, TimeLock, GovernorContract, SetupGovernance,
       StableCookieScript, CookieStoreScript

\* The kind of the n-th step of script s, and the contracts it is about.
Kind(s, n) == Scripts[s].steps[n].do
About(s, n) == Scripts[s].steps[n].on

LEMMA KindTable ==
  /\ Kind(1, 1) = "deploy" /\ Kind(1, 2) = "verify" /\ Kind(1, 3) = "delegate"
  /\ Kind(2, 1) = "deploy" /\ Kind(2, 2) = "verify []"
  /\ Kind(3, 1) = "get" /\ Kind(3, 2) = "deploy" /\ Kind(3, 3) = "verify"
  /\ Kind(4, 1) = "get" /\ Kind(4, 2) = "grant proposer"
  /\ Kind(4, 3) = "grant executor" /\ Kind(4, 4) = "revoke admin"
  /\ Kind(5, 1) = "deploy" /\ Kind(5, 2) = "verify"
  /\ Kind(6, 1) = "get" /\ Kind(6, 2) = "deploy"
BY DEF Kind, Scripts, GovernorToken, TimeLock, GovernorContract, SetupGovernance,
       StableCookieScript, CookieStoreScript, Get, Deploy, Verify, VerifyBare, Call

LEMMA AboutTable ==
  /\ About(1, 1) = {"GovernanceToken"} /\ About(1, 2) = {"GovernanceToken"}
  /\ About(2, 1) = {"TimeLock"} /\ About(2, 2) = {"TimeLock"}
  /\ About(3, 1) = {"GovernanceToken", "TimeLock"}
  /\ About(3, 2) = {"GovernorContract"} /\ About(3, 3) = {"GovernorContract"}
  /\ About(4, 1) = {"TimeLock", "GovernorContract"}
  /\ About(5, 1) = {"StableCookie"} /\ About(5, 2) = {"StableCookie"}
  /\ About(6, 1) = {"StableCookie", "GovernorContract"}
  /\ About(6, 2) = {"CookieStore"}
BY DEF About, Scripts, GovernorToken, TimeLock, GovernorContract, SetupGovernance,
       StableCookieScript, CookieStoreScript, Get, Deploy, Verify, VerifyBare, Call

\* The run is at a step of its script, or there is no run.
Within == /\ script \in 0..6 /\ pc \in Nat
          /\ script # 0 => pc \in 1..Len(Scripts[script].steps)

IsAt(s, n) == script = s /\ pc = n

LEMMA Positions ==
  ASSUME Within, script # 0
  PROVE  \/ IsAt(1, 1) \/ IsAt(1, 2) \/ IsAt(1, 3) \/ IsAt(2, 1) \/ IsAt(2, 2)
         \/ IsAt(3, 1) \/ IsAt(3, 2) \/ IsAt(3, 3)
         \/ IsAt(4, 1) \/ IsAt(4, 2) \/ IsAt(4, 3) \/ IsAt(4, 4)
         \/ IsAt(5, 1) \/ IsAt(5, 2)
         \/ IsAt(6, 1) \/ IsAt(6, 2)
<1> DEFINE n == Len(Scripts[script].steps)
<1>1. /\ script = 1 => n = 3
      /\ script = 2 => n = 2
      /\ script = 3 => n = 3
      /\ script = 4 => n = 4
      /\ script = 5 => n = 2
      /\ script = 6 => n = 2
  BY Lengths
<1>2. script \in 1..6 /\ pc \in 1..n
  BY DEF Within
<1> HIDE DEF n
<1>3. QED
  BY <1>1, <1>2 DEF IsAt

\* Where a step of each kind is.
LEMMA WhereDeploy ==
  ASSUME Within, NEW c \in Contracts, At(Deploy(c))
  PROVE  \/ IsAt(1, 1) /\ c = "GovernanceToken"
         \/ IsAt(2, 1) /\ c = "TimeLock"
         \/ IsAt(3, 2) /\ c = "GovernorContract"
         \/ IsAt(5, 1) /\ c = "StableCookie"
         \/ IsAt(6, 2) /\ c = "CookieStore"
<1>1. script # 0 /\ Kind(script, pc) = "deploy" /\ About(script, pc) = {c}
  BY DEF At, Deploy, Kind, About
<1>2. IsAt(1, 1) \/ IsAt(2, 1) \/ IsAt(3, 2) \/ IsAt(5, 1) \/ IsAt(6, 2)
  BY <1>1, KindTable, Positions DEF IsAt
<1>3. QED
  BY <1>1, <1>2, AboutTable DEF IsAt

LEMMA WhereGet ==
  ASSUME Within, NEW S, At(Get(S))
  PROVE  \/ IsAt(3, 1) /\ S = {"GovernanceToken", "TimeLock"}
         \/ IsAt(4, 1) /\ S = {"TimeLock", "GovernorContract"}
         \/ IsAt(6, 1) /\ S = {"StableCookie", "GovernorContract"}
<1>1. script # 0 /\ Kind(script, pc) = "get" /\ About(script, pc) = S
  BY DEF At, Get, Kind, About
<1>2. IsAt(3, 1) \/ IsAt(4, 1) \/ IsAt(6, 1)
  BY <1>1, KindTable, Positions DEF IsAt
<1>3. QED
  BY <1>1, <1>2, AboutTable DEF IsAt

LEMMA WhereVerify ==
  ASSUME Within, NEW c \in Contracts, At(Verify(c)) \/ At(VerifyBare(c))
  PROVE  \/ IsAt(1, 2) /\ c = "GovernanceToken"
         \/ IsAt(2, 2) /\ c = "TimeLock"
         \/ IsAt(3, 3) /\ c = "GovernorContract"
         \/ IsAt(5, 2) /\ c = "StableCookie"
<1>1. /\ script # 0 /\ About(script, pc) = {c}
      /\ Kind(script, pc) = "verify" \/ Kind(script, pc) = "verify []"
  <2>1. CASE At(Verify(c))
    <3>1. script # 0 /\ About(script, pc) = {c} /\ Kind(script, pc) = "verify"
      BY <2>1 DEF At, Verify, Kind, About
    <3>2. QED
      BY <3>1
  <2>2. CASE At(VerifyBare(c))
    <3>1. script # 0 /\ Scripts[script].steps[pc] = VerifyBare(c)
      BY <2>2 DEF At
    <3>2. VerifyBare(c).do = "verify []" /\ VerifyBare(c).on = {c}
      BY DEF VerifyBare
    <3>3. QED
      BY <3>1, <3>2 DEF Kind, About
  <2>3. QED
    BY <2>1, <2>2
<1>2. IsAt(1, 2) \/ IsAt(2, 2) \/ IsAt(3, 3) \/ IsAt(5, 2)
  BY <1>1, KindTable, Positions DEF IsAt
<1>3. About(script, pc) = {c}
  BY <1>1
<1>4. QED
  BY <1>2, <1>3, AboutTable DEF IsAt

LEMMA WhereCall ==
  ASSUME Within
  PROVE  /\ At(Call("delegate")) => IsAt(1, 3)
         /\ At(Call("grant proposer")) => IsAt(4, 2)
         /\ At(Call("grant executor")) => IsAt(4, 3)
         /\ At(Call("revoke admin")) => IsAt(4, 4)
<1>1. ASSUME NEW name, At(Call(name)) PROVE script # 0 /\ Kind(script, pc) = name
  BY <1>1 DEF At, Call, Kind
<1>2. /\ At(Call("delegate")) => script # 0 /\ Kind(script, pc) = "delegate"
      /\ At(Call("grant proposer")) => script # 0 /\ Kind(script, pc) = "grant proposer"
      /\ At(Call("grant executor")) => script # 0 /\ Kind(script, pc) = "grant executor"
      /\ At(Call("revoke admin")) => script # 0 /\ Kind(script, pc) = "revoke admin"
  BY <1>1
<1>3. QED
  BY <1>2, KindTable, Positions DEF IsAt

-----------------------------------------------------------------------------
(* How a run goes on *)

LEMMA NextScriptFits ==
  ASSUME NEW n \in 0..6, NEW t
  PROVE  \/ NextScript(n, t) = 0 /\ \A m \in (n + 1)..6 : t \notin Scripts[m].tags
         \/ /\ NextScript(n, t) \in (n + 1)..6
            /\ t \in Scripts[NextScript(n, t)].tags
            /\ \A m \in (n + 1)..6 : t \in Scripts[m].tags => NextScript(n, t) <= m
<1> DEFINE L == Later(n, t)
<1>1. CASE L = {}
  BY <1>1 DEF NextScript, Later
<1>2. CASE L # {}
  <2>1. L \subseteq 1..6
    BY DEF Later
  <2> HIDE DEF L
  <2>2. \E x \in L : \A y \in L : x <= y
    <3>1. \A y \in L : y = 1 \/ y = 2 \/ y = 3 \/ y = 4 \/ y = 5 \/ y = 6
      BY <2>1
    <3>2. CASE 1 \in L
      BY <3>1, <3>2
    <3>3. CASE 1 \notin L /\ 2 \in L
      BY <3>1, <3>3
    <3>4. CASE 1 \notin L /\ 2 \notin L /\ 3 \in L
      BY <3>1, <3>4
    <3>5. CASE 1 \notin L /\ 2 \notin L /\ 3 \notin L /\ 4 \in L
      BY <3>1, <3>5
    <3>6. CASE 1 \notin L /\ 2 \notin L /\ 3 \notin L /\ 4 \notin L
      BY <1>2, <3>1, <3>6
    <3>7. QED
      BY <3>2, <3>3, <3>4, <3>5, <3>6
  <2>3. Min(L) \in L /\ \A y \in L : Min(L) <= y
    BY <2>2 DEF Min
  <2>4. NextScript(n, t) = Min(L)
    BY <1>2 DEF NextScript, L
  <2>5. QED
    BY <2>3, <2>4 DEF L, Later
<1>3. QED
  BY <1>1, <1>2

\* Where the run is after a step that returns.
LEMMA ProceedFits ==
  ASSUME Within, script # 0, Proceed
  PROVE  /\ Within'
         /\ \/ script' = script /\ pc' = pc + 1
            \/ script' = 0 /\ pc' = 1 /\ pc = Len(Scripts[script].steps)
            \/ /\ pc' = 1 /\ pc = Len(Scripts[script].steps)
               /\ script' \in (script + 1)..6 /\ tag \in Scripts[script'].tags
               /\ \A m \in (script + 1)..6 : tag \in Scripts[m].tags => script' <= m
<1>1. script \in 1..6 /\ pc \in 1..Len(Scripts[script].steps)
  BY DEF Within
<1>2. \A n \in 1..6 : Len(Scripts[n].steps) \in 1..4
  BY Lengths
<1>3. CASE pc < Len(Scripts[script].steps)
  BY <1>1, <1>2, <1>3 DEF Proceed, Within
<1>4. CASE ~(pc < Len(Scripts[script].steps))
  <2>1. pc' = 1 /\ script' = NextScript(script, tag) /\ pc = Len(Scripts[script].steps)
    BY <1>1, <1>2, <1>4 DEF Proceed
  <2>2. \/ script' = 0
        \/ /\ script' \in (script + 1)..6 /\ tag \in Scripts[script'].tags
           /\ \A m \in (script + 1)..6 : tag \in Scripts[m].tags => script' <= m
    BY <1>1, <2>1, NextScriptFits
  <2>3. Within'
    <3>1. script' \in 0..6 /\ pc' = 1
      BY <1>1, <2>1, <2>2
    <3>2. ASSUME script' # 0 PROVE 1 \in 1..Len(Scripts[script'].steps)
      <4>1. script' \in 1..6
        BY <3>1, <3>2
      <4>2. Len(Scripts[script'].steps) \in 1..4
        BY <1>2, <4>1
      <4>3. \A k \in 1..4 : 1 \in 1..k
        OBVIOUS
      <4>4. QED
        BY <4>2, <4>3, Zenon
    <3>3. QED
      BY <3>1, <3>2 DEF Within
  <2>4. QED
    BY <2>1, <2>2, <2>3
<1>5. QED
  BY <1>3, <1>4

-----------------------------------------------------------------------------
(* What is on record *)

Token == records["GovernanceToken"]
Lock == records["TimeLock"]
Governor == records["GovernorContract"]

Typed ==
  /\ Within
  /\ tag \in AllTags /\ sent \in BOOLEAN
  /\ script # 0 => tag \in Scripts[script].tags
  /\ chain \in [Contracts -> Seq(Seq(Nat))]
  /\ records \in [Contracts -> Nat]
  /\ \A c \in Contracts : records[c] <= Len(chain[c])

OnRecord ==
  \A c \in Contracts : records[c] # 0 => chain[c][records[c]] = ConstructorArgs(c)

\* What a contract on record was given is on record, too.
Depends ==
  /\ Governor # 0 => Token # 0 /\ Lock # 0
  /\ records["CookieStore"] # 0 => records["StableCookie"] # 0
  /\ script = 3 /\ pc > 1 => Token # 0 /\ Lock # 0
  /\ script = 4 /\ pc > 1 => Governor # 0
  /\ script = 6 /\ pc > 1 => records["StableCookie"] # 0

\* A contract is sent because none is on record, with the arguments of now.
Sending ==
  sent => \E c \in Contracts :
            /\ At(Deploy(c)) /\ c \notin Unlinked
            /\ records[c] = 0 /\ chain[c] # <<>>
            /\ chain[c][Len(chain[c])] = ConstructorArgs(c)

RecInv == Typed /\ OnRecord /\ Depends /\ Sending

LEMMA InitRec == Init => RecInv
<1>1. SUFFICES ASSUME Init PROVE RecInv
  OBVIOUS
<1>2. /\ script = 0 /\ pc = 1 /\ tag = "all" /\ sent = FALSE
      /\ chain = [c \in Contracts |-> <<>>] /\ records = [c \in Contracts |-> 0]
  BY <1>1 DEF Init
<1>3. Typed
  <2>1. "all" \in AllTags
    <3>1. "all" \in Scripts[1].tags /\ 1 \in 1..6
      BY Tags
    <3>2. QED
      BY <3>1 DEF AllTags
  <2>2. chain \in [Contracts -> Seq(Seq(Nat))] /\ \A c \in Contracts : Len(chain[c]) = 0
    BY <1>2
  <2>3. records \in [Contracts -> Nat] /\ \A c \in Contracts : records[c] = 0
    BY <1>2
  <2>4. \A c \in Contracts : records[c] <= Len(chain[c])
    BY <2>2, <2>3
  <2>5. Within
    BY <1>2 DEF Within
  <2>6. QED
    BY <1>2, <2>1, <2>2, <2>3, <2>4, <2>5 DEF Typed
<1>4. \A c \in Contracts : records[c] = 0
  BY <1>2
<1>5. OnRecord /\ Depends /\ Sending
  BY <1>2, <1>4 DEF OnRecord, Depends, Sending, Token, Lock, Governor, Contracts
<1>6. QED
  BY <1>3, <1>5 DEF RecInv

LEMMA SameArgs ==
  ASSUME NEW c \in Contracts,
         c = "GovernorContract" => Token' = Token /\ Lock' = Lock,
         c = "CookieStore" => records'["StableCookie"] = records["StableCookie"]
  PROVE  ConstructorArgs(c)' = ConstructorArgs(c)
BY DEF ConstructorArgs, Contracts, Token, Lock

LEMMA ArgsType ==
  ASSUME Typed, NEW c \in Contracts
  PROVE  ConstructorArgs(c) \in Seq(Nat)
BY DEF Typed, ConstructorArgs, Contracts

\* Within a deploy() step nothing else can be in flight.
LEMMA SendingHere ==
  ASSUME RecInv, NEW c \in Contracts, At(Deploy(c)), sent
  PROVE  /\ records[c] = 0 /\ chain[c] # <<>>
         /\ chain[c][Len(chain[c])] = ConstructorArgs(c)
<1>1. PICK d \in Contracts : /\ At(Deploy(d)) /\ records[d] = 0 /\ chain[d] # <<>>
                             /\ chain[d][Len(chain[d])] = ConstructorArgs(d)
  BY DEF RecInv, Sending
<1>2. Within
  BY DEF RecInv, Typed
<1>3. c = d
  BY <1>1, <1>2, WhereDeploy DEF IsAt
<1>4. QED
  BY <1>1, <1>3

\* A step that is no deploy() leaves chain and records alone and goes on, or
\* throws.
LEMMA OtherStep ==
  ASSUME RecInv, script # 0, ~sent,
         UNCHANGED <<chain, records, tag, sent>>,
         Proceed \/ Throw,
         Proceed /\ IsAt(3, 1) => Token # 0 /\ Lock # 0,
         Proceed /\ IsAt(4, 1) => Governor # 0,
         Proceed /\ IsAt(6, 1) => records["StableCookie"] # 0
  PROVE  RecInv'
<1>1. /\ Within'
      /\ \/ script' = script /\ pc' = pc + 1 /\ Proceed
         \/ script' = 0 /\ pc' = 1
         \/ pc' = 1 /\ script' \in (script + 1)..6 /\ tag \in Scripts[script'].tags
  <2>1. CASE Proceed
    BY <2>1, ProceedFits DEF RecInv, Typed
  <2>2. CASE Throw
    BY <2>2 DEF Throw, Within
  <2>3. QED
    BY <2>1, <2>2
<1>2. Typed'
  BY <1>1 DEF RecInv, Typed
<1>3. OnRecord'
  BY SameArgs DEF RecInv, OnRecord, Token, Lock
<1>4. Depends'
  <2>1. pc \in Nat /\ (script # 0 => pc # 0)
    BY DEF RecInv, Typed, Within
  <2>2. /\ script' = 3 /\ pc' > 1 => script = 3 /\ (pc > 1 \/ (pc = 1 /\ Proceed))
        /\ script' = 4 /\ pc' > 1 => script = 4 /\ (pc > 1 \/ (pc = 1 /\ Proceed))
        /\ script' = 6 /\ pc' > 1 => script = 6 /\ (pc > 1 \/ (pc = 1 /\ Proceed))
    BY <1>1, <2>1
  <2>3. QED
    BY <2>2 DEF RecInv, Depends, IsAt, Token, Lock, Governor
<1>5. QED
  BY <1>2, <1>3, <1>4 DEF RecInv, Sending

\* The place of a deploy() that sends is no place of another step.
LEMMA NotSending ==
  ASSUME RecInv,
         \/ IsAt(3, 1) \/ IsAt(4, 1) \/ IsAt(6, 1)
         \/ IsAt(1, 2) \/ IsAt(2, 2) \/ IsAt(3, 3) \/ IsAt(5, 2)
         \/ IsAt(1, 3) \/ IsAt(4, 2) \/ IsAt(4, 3) \/ IsAt(4, 4) \/ IsAt(6, 2)
  PROVE  ~sent
<1>1. SUFFICES ASSUME sent PROVE FALSE
  OBVIOUS
<1>2. PICK d \in Contracts : At(Deploy(d)) /\ d # "CookieStore"
  BY <1>1 DEF RecInv, Sending, Unlinked
<1>3. IsAt(1, 1) \/ IsAt(2, 1) \/ IsAt(3, 2) \/ IsAt(5, 1)
  BY <1>2, WhereDeploy DEF RecInv, Typed
<1>4. QED
  BY <1>3 DEF IsAt

LEMMA GetRec == ASSUME RecInv, NEW S, GetRecords(S) PROVE RecInv'
<1>1. /\ At(Get(S)) /\ UNCHANGED <<chain, records, tag, sent>>
      /\ IF \A c \in S : records[c] # 0 THEN Proceed ELSE Throw
  BY DEF GetRecords, chainVars
<1>2. \/ IsAt(3, 1) /\ S = {"GovernanceToken", "TimeLock"}
      \/ IsAt(4, 1) /\ S = {"TimeLock", "GovernorContract"}
      \/ IsAt(6, 1) /\ S = {"StableCookie", "GovernorContract"}
  BY <1>1, WhereGet DEF RecInv, Typed
<1>3. ~sent /\ script # 0
  BY <1>2, NotSending DEF IsAt
<1>4. Proceed \/ Throw
  BY <1>1
<1>5. /\ IsAt(3, 1) => S = {"GovernanceToken", "TimeLock"}
      /\ IsAt(4, 1) => S = {"TimeLock", "GovernorContract"}
      /\ IsAt(6, 1) => S = {"StableCookie", "GovernorContract"}
  BY <1>2 DEF IsAt
<1>6. ASSUME Proceed, ~(\A c \in S : records[c] # 0) PROVE FALSE
  <2>1. pc = 1 /\ pc' = 1 /\ script' = 0 /\ Len(Scripts[script].steps) # 1
    <3>1. Throw
      BY <1>1, <1>6
    <3>2. QED
      BY <1>2, <3>1, Lengths DEF Throw, IsAt
  <2>2. QED
    BY <1>3, <1>6, <2>1, ProceedFits DEF RecInv, Typed
<1>7. /\ Proceed /\ IsAt(3, 1) => Token # 0 /\ Lock # 0
      /\ Proceed /\ IsAt(4, 1) => Governor # 0
      /\ Proceed /\ IsAt(6, 1) => records["StableCookie"] # 0
  BY <1>5, <1>6 DEF Token, Lock, Governor
<1>8. QED
  BY <1>1, <1>3, <1>4, <1>7, OtherStep

\* The script of the store throws.
NoStore == \E c \in Contracts : DeployUnlinked(c)

LEMMA WhereNoStore ==
  ASSUME Within, NoStore
  PROVE  /\ IsAt(6, 2) /\ Throw
         /\ UNCHANGED <<network, etherscanKey, chainVars, records, verified, tag, sent,
                        wasSetUp, failures>>
<1>1. PICK c \in Contracts : DeployUnlinked(c)
  BY DEF NoStore
<1>2. At(Deploy(c)) /\ c = "CookieStore"
  BY <1>1 DEF DeployUnlinked, Unlinked
<1>3. IsAt(6, 2)
  BY <1>2, WhereDeploy
<1>4. QED
  BY <1>1, <1>3 DEF DeployUnlinked

\* The steps that neither get nor send.
Plain ==
  \/ \E c \in Contracts : VerifySource(c)
  \/ DelegateVotes \/ GrantProposer \/ GrantExecutor \/ RevokeAdmin \/ NoStore

\* Such a step leaves chain and records alone, and its place is known.
LEMMA PlainStep ==
  ASSUME RecInv, Plain
  PROVE  /\ RecInv' /\ script # 0 /\ ~sent
         /\ UNCHANGED <<network, chain, records, tag, sent, wasSetUp>>
         /\ Proceed \/ Throw
         /\ \/ IsAt(1, 2) \/ IsAt(2, 2) \/ IsAt(3, 3) \/ IsAt(5, 2)
            \/ IsAt(1, 3) \/ IsAt(4, 2) \/ IsAt(4, 3) \/ IsAt(4, 4) \/ IsAt(6, 2)
<1>1. Within
  BY DEF RecInv, Typed
<1>2. /\ UNCHANGED <<network, chain, records, tag, sent, wasSetUp>>
      /\ Proceed \/ Throw
      /\ \/ IsAt(1, 2) \/ IsAt(2, 2) \/ IsAt(3, 3) \/ IsAt(5, 2)
         \/ IsAt(1, 3) \/ IsAt(4, 2) \/ IsAt(4, 3) \/ IsAt(4, 4) \/ IsAt(6, 2)
  <2>1. ASSUME NEW c \in Contracts, VerifySource(c) PROVE <1>2!:
    <3>1. PICK step \in {Verify(c), VerifyBare(c)} : At(step)
      BY <2>1 DEF VerifySource
    <3>2. At(Verify(c)) \/ At(VerifyBare(c))
      BY <3>1
    <3>3. QED
      BY <1>1, <2>1, <3>2, WhereVerify DEF VerifySource, chainVars
  <2>2. CASE DelegateVotes
    BY <1>1, <2>2, WhereCall DEF DelegateVotes
  <2>3. CASE GrantProposer
    BY <1>1, <2>3, WhereCall DEF GrantProposer, SetRole
  <2>4. CASE GrantExecutor
    BY <1>1, <2>4, WhereCall DEF GrantExecutor, SetRole
  <2>5. CASE RevokeAdmin
    BY <1>1, <2>5, WhereCall DEF RevokeAdmin, SetRole
  <2>6. CASE NoStore
    BY <1>1, <2>6, WhereNoStore DEF chainVars
  <2>7. QED
    BY <2>1, <2>2, <2>3, <2>4, <2>5, <2>6 DEF Plain
<1>3. ~sent /\ script # 0
  BY <1>2, NotSending DEF IsAt
<1>4. ~IsAt(3, 1) /\ ~IsAt(4, 1) /\ ~IsAt(6, 1)
  BY <1>2 DEF IsAt
<1>5. RecInv'
  BY <1>2, <1>3, <1>4, OtherStep
<1>6. QED
  BY <1>2, <1>3, <1>5

LEMMA StartRec == ASSUME RecInv, NEW t \in AllTags, StartRun(t) PROVE RecInv'
<1>1. /\ script = 0 /\ tag' = t /\ script' = NextScript(0, t) /\ pc' = 1 /\ sent' = sent
      /\ \/ /\ chain' = [c \in Contracts |-> <<>>]
            /\ records' = [c \in Contracts |-> 0]
         \/ UNCHANGED <<chain, records>>
  BY DEF StartRun, chainVars
<1>2. ~sent /\ sent' = FALSE
  BY <1>1 DEF RecInv, Typed, Sending, At
<1>3. script' = 0 \/ (script' \in 1..6 /\ t \in Scripts[script'].tags)
  BY <1>1, NextScriptFits
<1>4. Within'
  <2>1. \A n \in 1..6 : 1 \in 1..Len(Scripts[n].steps)
    <3>1. SUFFICES ASSUME NEW n \in 1..6 PROVE 1 \in 1..Len(Scripts[n].steps)
      OBVIOUS
    <3>2. Len(Scripts[n].steps) \in 2..4
      BY Lengths
    <3>3. \A k \in 2..4 : 1 \in 1..k
      OBVIOUS
    <3>4. QED
      BY <3>2, <3>3, Zenon
  <2>2. script' \in 0..6 /\ pc' = 1 /\ (script' # 0 => script' \in 1..6)
    BY <1>1, <1>3
  <2>3. QED
    BY <2>1, <2>2 DEF Within
<1>5. CASE UNCHANGED <<chain, records>>
  <2>1. Typed'
    BY <1>1, <1>2, <1>3, <1>4, <1>5 DEF RecInv, Typed
  <2>2. OnRecord'
    BY <1>5, SameArgs DEF RecInv, OnRecord, Token, Lock
  <2>3. Depends'
    BY <1>1, <1>5 DEF RecInv, Depends, Token, Lock, Governor
  <2>4. QED
    BY <1>2, <2>1, <2>2, <2>3 DEF RecInv, Sending
<1>6. CASE chain' = [c \in Contracts |-> <<>>] /\ records' = [c \in Contracts |-> 0]
  <2>1. chain' \in [Contracts -> Seq(Seq(Nat))] /\ \A c \in Contracts : Len(chain'[c]) = 0
    BY <1>6
  <2>2. records' \in [Contracts -> Nat] /\ \A c \in Contracts : records'[c] = 0
    BY <1>6
  <2>3. \A c \in Contracts : records'[c] <= Len(chain'[c])
    BY <2>1, <2>2
  <2>4. Typed'
    BY <1>1, <1>2, <1>3, <1>4, <2>1, <2>2, <2>3 DEF Typed
  <2>5. OnRecord' /\ Depends'
    BY <1>1, <2>2 DEF OnRecord, Depends, Token, Lock, Governor, Contracts
  <2>6. QED
    BY <1>2, <2>4, <2>5 DEF RecInv, Sending
<1>7. QED
  BY <1>1, <1>5, <1>6

\* Indices and entries of a sequence that grows.
LEMMA AppendMoves ==
  ASSUME NEW S, NEW q \in Seq(S), NEW e \in S
  PROVE  /\ Append(q, e) \in Seq(S) /\ Append(q, e) # <<>>
         /\ Len(q) \in Nat /\ Len(Append(q, e)) = Len(q) + 1
         /\ Append(q, e)[Len(q) + 1] = e
         /\ \A i \in 1..Len(q) : Append(q, e)[i] = q[i]
OBVIOUS

\* deploy(): either the contract is on record with the arguments of now, or it
\* is not on record, and is sent.
LEMMA SendStep ==
  ASSUME RecInv, NEW c \in Contracts, Send(c)
  PROVE  /\ RecInv' /\ At(Deploy(c)) /\ ~sent
         /\ UNCHANGED <<network, records, tag, wasSetUp, delegated, proposers, openTo>>
         /\ \/ Proceed /\ UNCHANGED <<chain, admins, sent>>
            \/ /\ records[c] = 0 /\ sent' /\ UNCHANGED <<script, pc>>
               /\ chain' = [chain EXCEPT ![c] = Append(@, ConstructorArgs(c))]
               /\ admins' = IF c = "TimeLock" THEN admins \union {Len(chain[c]) + 1}
                                              ELSE admins
<1>1. /\ At(Deploy(c)) /\ c \notin Unlinked /\ ~sent /\ script # 0
      /\ UNCHANGED <<network, records, tag, wasSetUp, delegated, proposers, openTo>>
  BY DEF Send, At
<1>2. CASE records[c] # 0 /\ chain[c][records[c]] = ConstructorArgs(c)
  <2>1. Proceed /\ UNCHANGED <<chain, admins, sent>>
    BY <1>2 DEF Send
  <2>2. ~IsAt(3, 1) /\ ~IsAt(4, 1) /\ ~IsAt(6, 1)
    <3>1. Within
      BY DEF RecInv, Typed
    <3>2. QED
      BY <1>1, <3>1, WhereDeploy DEF IsAt
  <2>3. RecInv'
    BY <1>1, <2>1, <2>2, OtherStep
  <2>4. QED
    BY <1>1, <2>1, <2>3
<1>3. CASE ~(records[c] # 0 /\ chain[c][records[c]] = ConstructorArgs(c))
  <2>1. records[c] = 0
    BY <1>3 DEF RecInv, OnRecord
  <2>2. /\ sent' = TRUE /\ UNCHANGED <<script, pc>>
        /\ chain' = [chain EXCEPT ![c] = Append(@, ConstructorArgs(c))]
        /\ admins' = IF c = "TimeLock" THEN admins \union {Len(chain[c]) + 1} ELSE admins
    BY <1>3 DEF Send
  <2> DEFINE q == Append(chain[c], ConstructorArgs(c))
  <2>3. /\ q \in Seq(Seq(Nat)) /\ q # <<>> /\ Len(chain[c]) \in Nat
        /\ Len(q) = Len(chain[c]) + 1 /\ q[Len(q)] = ConstructorArgs(c)
    BY ArgsType, AppendMoves DEF RecInv, Typed
  <2>4. chain' = [chain EXCEPT ![c] = q]
    BY <2>2
  <2> HIDE DEF q
  <2>5. /\ chain' \in [Contracts -> Seq(Seq(Nat))] /\ chain'[c] = q
        /\ \A d \in Contracts : d # c => chain'[d] = chain[d]
    BY <2>3, <2>4 DEF RecInv, Typed
  <2>6. \A d \in Contracts : records[d] <= Len(chain'[d])
    <3>1. SUFFICES ASSUME NEW d \in Contracts PROVE records[d] <= Len(chain'[d])
      OBVIOUS
    <3>2. CASE d = c
      BY <2>1, <2>3, <2>5, <3>2
    <3>3. CASE d # c
      BY <2>5, <3>3 DEF RecInv, Typed
    <3>4. QED
      BY <3>2, <3>3
  <2>7. \A d \in Contracts : ConstructorArgs(d)' = ConstructorArgs(d)
    BY <1>1, SameArgs DEF Token, Lock
  <2>8. Typed'
    BY <1>1, <2>2, <2>5, <2>6 DEF RecInv, Typed, Within
  <2>9. OnRecord'
    BY <1>1, <2>1, <2>5, <2>7 DEF RecInv, OnRecord
  <2>10. Depends'
    BY <1>1, <2>2 DEF RecInv, Depends, Token, Lock, Governor
  <2>11. Sending'
    BY <1>1, <2>1, <2>2, <2>3, <2>5, <2>7 DEF Sending, At
  <2>12. QED
    BY <1>1, <2>1, <2>2, <2>8, <2>9, <2>10, <2>11 DEF RecInv
<1>4. QED
  BY <1>2, <1>3

\* What was sent goes on record: it is the first of its kind there.
LEMMA SaveStep ==
  ASSUME RecInv, NEW c \in Contracts, At(Deploy(c)), sent,
         records' = [records EXCEPT ![c] = Len(chain[c])], sent' = FALSE,
         UNCHANGED <<chain, tag>>,
         Proceed \/ Throw
  PROVE  /\ RecInv' /\ records[c] = 0
         /\ \A d \in Contracts : d # c => records'[d] = records[d]
         /\ records'[c] = Len(chain[c]) /\ records'[c] # 0
<1>1. /\ records[c] = 0 /\ chain[c] # <<>>
      /\ chain[c][Len(chain[c])] = ConstructorArgs(c)
  BY SendingHere
<1>2. /\ chain[c] \in Seq(Seq(Nat)) /\ Len(chain[c]) \in Nat /\ Len(chain[c]) # 0
  BY <1>1 DEF RecInv, Typed
<1>3. /\ records' \in [Contracts -> Nat] /\ records'[c] = Len(chain[c])
      /\ \A d \in Contracts : d # c => records'[d] = records[d]
  BY <1>2 DEF RecInv, Typed
<1>4. /\ Within'
      /\ \/ script' = script /\ pc' = pc + 1
         \/ script' = 0 /\ pc' = 1
         \/ pc' = 1 /\ script' \in (script + 1)..6 /\ tag \in Scripts[script'].tags
  <2>1. CASE Proceed
    BY <2>1, ProceedFits DEF RecInv, Typed, At
  <2>2. CASE Throw
    BY <2>2 DEF Throw, Within
  <2>3. QED
    BY <2>1, <2>2
<1>5. Typed'
  <2>1. \A d \in Contracts : records'[d] <= Len(chain[d])
    BY <1>2, <1>3 DEF RecInv, Typed
  <2>2. QED
    BY <1>3, <1>4, <2>1 DEF RecInv, Typed
<1>6. /\ c = "GovernanceToken" => IsAt(1, 1)
      /\ c = "TimeLock" => IsAt(2, 1)
      /\ c = "GovernorContract" => IsAt(3, 2)
      /\ c = "StableCookie" => IsAt(5, 1)
      /\ c = "CookieStore" => IsAt(6, 2)
      /\ IsAt(1, 1) \/ IsAt(2, 1) \/ IsAt(3, 2) \/ IsAt(5, 1) \/ IsAt(6, 2)
  BY WhereDeploy DEF RecInv, Typed
<1>7. OnRecord'
  <2>1. SUFFICES ASSUME NEW d \in Contracts, records'[d] # 0
                 PROVE  chain[d][records'[d]] = ConstructorArgs(d)'
    BY DEF OnRecord
  <2>2. CASE d = c
    <3>1. ConstructorArgs(c)' = ConstructorArgs(c)
      <4>1. c = "GovernorContract" => Token' = Token /\ Lock' = Lock
        BY <1>3 DEF Token, Lock, Contracts
      <4>2. c = "CookieStore" => records'["StableCookie"] = records["StableCookie"]
        BY <1>3 DEF Contracts
      <4>3. QED
        BY <4>1, <4>2, SameArgs
    <3>2. QED
      BY <1>1, <1>3, <2>2, <3>1
  <2>3. CASE d # c
    <3>1. records'[d] = records[d] /\ records[d] # 0
      BY <1>3, <2>1, <2>3
    <3>2. d = "GovernorContract" => c # "GovernanceToken" /\ c # "TimeLock"
      BY <1>1, <3>1 DEF RecInv, Depends, Token, Lock, Governor
    <3>3. d = "CookieStore" => c # "StableCookie"
      BY <1>1, <3>1 DEF RecInv, Depends
    <3>4. d = "GovernorContract" => Token' = Token /\ Lock' = Lock
      BY <1>3, <3>2 DEF Token, Lock, Contracts
    <3>5. d = "CookieStore" => records'["StableCookie"] = records["StableCookie"]
      BY <1>3, <3>3 DEF Contracts
    <3>6. ConstructorArgs(d)' = ConstructorArgs(d)
      BY <3>4, <3>5, SameArgs
    <3>7. QED
      BY <3>1, <3>6 DEF RecInv, OnRecord
  <2>4. QED
    BY <2>2, <2>3
<1>8. Depends'
  <2>1. /\ script' = 3 /\ pc' > 1 => script = 3 /\ IsAt(3, 2)
        /\ script' = 6 /\ pc' > 1 => script = 6 /\ IsAt(6, 2)
        /\ ~(script' = 4 /\ pc' > 1)
    BY <1>4, <1>6 DEF IsAt
  <2>2. /\ IsAt(3, 2) => Token # 0 /\ Lock # 0
        /\ IsAt(6, 2) => records["StableCookie"] # 0
    BY DEF RecInv, Depends, IsAt
  <2>3. /\ Token # 0 => Token' # 0
        /\ Lock # 0 => Lock' # 0
        /\ records["StableCookie"] # 0 => records'["StableCookie"] # 0
    BY <1>2, <1>3 DEF Token, Lock, Contracts
  <2>4. /\ Governor' # 0 => Governor # 0 \/ IsAt(3, 2)
        /\ records'["CookieStore"] # 0 => records["CookieStore"] # 0 \/ IsAt(6, 2)
    BY <1>3, <1>6 DEF Governor, Contracts
  <2>5. QED
    BY <2>1, <2>2, <2>3, <2>4 DEF RecInv, Depends
<1>9. QED
  BY <1>1, <1>2, <1>3, <1>5, <1>7, <1>8 DEF RecInv, Sending

\* A run that fails: what was sent goes on record, or is lost.
LEMMA FailStep ==
  ASSUME RecInv, Fail
  PROVE  /\ RecInv' /\ script' = 0
         /\ UNCHANGED <<network, chainVars, tag, wasSetUp>>
         /\ \/ UNCHANGED records
            \/ \E c \in Contracts :
                 /\ At(Deploy(c)) /\ sent /\ records[c] = 0
                 /\ records'[c] = Len(chain[c]) /\ records'[c] # 0
                 /\ \A d \in Contracts : d # c => records'[d] = records[d]
<1>1. /\ script # 0 /\ script' = 0 /\ pc' = 1 /\ sent' = FALSE /\ Throw
      /\ UNCHANGED <<network, chainVars, tag, wasSetUp>>
      /\ UNCHANGED <<chain, tag>>
  BY DEF Fail, Throw, chainVars
<1>2. CASE UNCHANGED records
  <2>1. Typed'
    <3>1. Within'
      BY <1>1 DEF Within
    <3>2. QED
      BY <1>1, <1>2, <3>1 DEF RecInv, Typed
  <2>2. OnRecord'
    BY <1>1, <1>2, SameArgs DEF RecInv, OnRecord, Token, Lock
  <2>3. Depends' /\ Sending'
    BY <1>1, <1>2 DEF RecInv, Depends, Sending, Token, Lock, Governor
  <2>4. QED
    BY <1>1, <1>2, <2>1, <2>2, <2>3 DEF RecInv
<1>3. CASE ~(UNCHANGED records)
  <2>1. PICK c \in Scripts[script].steps[pc].on :
          sent /\ records' = [records EXCEPT ![c] = Len(chain[c])]
    BY <1>3 DEF Fail
  <2>2. PICK d \in Contracts : At(Deploy(d))
    BY <2>1 DEF RecInv, Sending
  <2>3. c = d
    <3>1. Scripts[script].steps[pc] = Deploy(d) /\ Deploy(d).on = {d}
      BY <2>2 DEF At, Deploy
    <3>2. QED
      BY <2>1, <3>1
  <2>4. /\ RecInv' /\ records[d] = 0
        /\ \A e \in Contracts : e # d => records'[e] = records[e]
        /\ records'[d] = Len(chain[d]) /\ records'[d] # 0
    BY <1>1, <2>1, <2>2, <2>3, SaveStep
  <2>5. QED
    BY <1>1, <2>1, <2>2, <2>4
<1>4. QED
  BY <1>2, <1>3

LEMMA SaveAct ==
  ASSUME RecInv, NEW c \in Contracts, Save(c)
  PROVE  /\ RecInv' /\ At(Deploy(c)) /\ sent /\ records[c] = 0
         /\ \A d \in Contracts : d # c => records'[d] = records[d]
         /\ records'[c] = Len(chain[c]) /\ records'[c] # 0
         /\ UNCHANGED <<network, chainVars, tag, wasSetUp>> /\ ~sent' /\ Proceed
<1>1. /\ At(Deploy(c)) /\ sent /\ records' = [records EXCEPT ![c] = Len(chain[c])]
      /\ sent' = FALSE /\ Proceed
      /\ UNCHANGED <<network, chainVars, tag, wasSetUp>> /\ UNCHANGED <<chain, tag>>
  BY DEF Save, chainVars
<1>2. QED
  BY <1>1, SaveStep

LEMMA RecStep == ASSUME RecInv, [Next]_vars PROVE RecInv'
<1>1. ASSUME NEW t \in AllTags, StartRun(t) PROVE RecInv'
  BY <1>1, StartRec
<1>2. CASE Fail
  BY <1>2, FailStep
<1>3. CASE RunStep
  <2>1. ASSUME NEW S \in SUBSET Contracts, GetRecords(S) PROVE RecInv'
    BY <2>1, GetRec
  <2>2. ASSUME NEW c \in Contracts, Send(c) PROVE RecInv'
    BY <2>2, SendStep
  <2>3. ASSUME NEW c \in Contracts, Save(c) PROVE RecInv'
    BY <2>3, SaveAct
  <2>4. CASE Plain
    BY <2>4, PlainStep
  <2>5. QED
    BY <1>3, <2>1, <2>2, <2>3, <2>4 DEF RunStep, Plain, NoStore
<1>4. CASE UNCHANGED vars
  <2>1. UNCHANGED <<script, pc, sent, tag, chain, records>>
    BY <1>4 DEF vars, chainVars, runVars
  <2>2. Typed'
    BY <2>1 DEF RecInv, Typed, Within
  <2>3. OnRecord' /\ \A c \in Contracts : ConstructorArgs(c)' = ConstructorArgs(c)
    BY <2>1, SameArgs DEF RecInv, OnRecord, Token, Lock
  <2>4. Depends' /\ Sending'
    BY <2>1, <2>3 DEF RecInv, Depends, Sending, Token, Lock, Governor, At
  <2>5. QED
    BY <2>2, <2>3, <2>4 DEF RecInv
<1>5. QED
  BY <1>1, <1>2, <1>3, <1>4 DEF Next

-----------------------------------------------------------------------------
(* The timelock and who may use it *)

Given == <<Lock, Governor>> \in proposers

LockInv ==
  /\ NeverLockedOut
  /\ proposers \subseteq {<<Lock, Governor>>}
  /\ proposers # {} => Governor # 0
  /\ script = 4 /\ pc > 2 => Given
  /\ script = 4 /\ pc > 3 => Lock \in openTo
  /\ sent /\ script = 2 => Len(chain["TimeLock"]) \in admins

LEMMA InitLock == Init => LockInv
BY DEF Init, LockInv, NeverLockedOut, Given, Lock, Governor, Contracts

\* Where a step leads: to the next one of its script, or to the first of another.
LEMMA Onward ==
  ASSUME RecInv, script # 0, Proceed \/ Throw
  PROVE  (script' = script /\ pc' = pc + 1 /\ Proceed) \/ pc' = 1
<1>1. CASE Proceed
  BY <1>1, ProceedFits DEF RecInv, Typed
<1>2. CASE Throw
  BY <1>2 DEF Throw
<1>3. QED
  BY <1>1, <1>2

LEMMA StartLock == ASSUME RecInv, LockInv, NEW t \in AllTags, StartRun(t) PROVE LockInv'
<1>1. /\ pc' = 1 /\ sent' = sent /\ ~sent
      /\ \/ UNCHANGED <<chain, records, admins, proposers, openTo>>
         \/ proposers' = {} /\ records' = [c \in Contracts |-> 0]
  BY DEF StartRun, chainVars, RecInv, Sending, At
<1>2. CASE UNCHANGED <<chain, records, admins, proposers, openTo>>
  BY <1>1, <1>2 DEF LockInv, NeverLockedOut, Given, Lock, Governor
<1>3. CASE proposers' = {} /\ records' = [c \in Contracts |-> 0]
  BY <1>1, <1>3 DEF LockInv, NeverLockedOut, Given, Lock, Governor, Contracts
<1>4. QED
  BY <1>1, <1>2, <1>3

\* The steps that grant or revoke nothing and leave chain and records alone.
LEMMA IdleLock ==
  ASSUME RecInv, LockInv, script # 0, ~sent,
         UNCHANGED <<chain, records, admins, proposers, openTo, sent>>,
         Proceed \/ Throw,
         script = 4 => pc = 1
  PROVE  LockInv'
<1>1. script' = 4 => pc' = 1 \/ pc' = 2
  BY Onward
<1>2. QED
  BY <1>1 DEF LockInv, NeverLockedOut, Given, Lock, Governor

LEMMA RoleLock ==
  ASSUME RecInv, LockInv, GrantProposer \/ GrantExecutor \/ RevokeAdmin
  PROVE  LockInv'
<1>1. /\ UNCHANGED <<chain, records, sent>> /\ ~sent /\ script # 0
      /\ Proceed \/ Throw
      /\ UNCHANGED <<Lock, Governor>>
  <2>1. Plain
    BY DEF Plain
  <2>2. QED
    BY <2>1, PlainStep DEF Lock, Governor
<1>2. Lock \in admins \/ (Throw /\ UNCHANGED <<admins, proposers, openTo>>)
  BY DEF GrantProposer, GrantExecutor, RevokeAdmin, SetRole, Lock
<1>3. CASE Throw /\ UNCHANGED <<admins, proposers, openTo>>
  BY <1>1, <1>3 DEF Throw, LockInv, NeverLockedOut, Given, Lock, Governor
<1>4. CASE ~(Throw /\ UNCHANGED <<admins, proposers, openTo>>)
  <2>1. Within
    BY DEF RecInv, Typed
  <2>2. pc' = 1 \/ (script' = script /\ pc' = pc + 1)
    BY <1>1, Onward
  <2>3. CASE GrantProposer
    <3>1. /\ IsAt(4, 2) /\ UNCHANGED <<admins, openTo>>
          /\ proposers' = proposers \union {<<Lock, Governor>>}
      BY <1>4, <2>1, <2>3, WhereCall DEF GrantProposer, SetRole, Lock, Governor
    <3>2. script' = 4 => pc' = 1 \/ pc' = 3
      BY <2>2, <3>1 DEF IsAt
    <3>3. Governor # 0
      BY <3>1 DEF RecInv, Depends, IsAt
    <3>4. QED
      BY <1>1, <3>1, <3>2, <3>3 DEF LockInv, NeverLockedOut, Given, Lock, Governor
  <2>4. CASE GrantExecutor
    <3>1. /\ IsAt(4, 3) /\ UNCHANGED <<admins, proposers>>
          /\ openTo' = openTo \union {Lock}
      BY <1>4, <2>1, <2>4, WhereCall DEF GrantExecutor, SetRole, Lock
    <3>2. script' = 4 => pc' = 1 \/ pc' = 4
      BY <2>2, <3>1 DEF IsAt
    <3>3. QED
      BY <1>1, <3>1, <3>2 DEF LockInv, NeverLockedOut, Given, Lock, Governor, IsAt
  <2>5. CASE RevokeAdmin
    <3>1. /\ IsAt(4, 4) /\ UNCHANGED <<proposers, openTo>>
          /\ admins' = admins \ {Lock}
      BY <1>4, <2>1, <2>5, WhereCall DEF RevokeAdmin, SetRole, Lock
    <3>2. Given /\ Lock \in openTo
      BY <3>1 DEF LockInv, IsAt
    <3>3. script' = 4 => pc' = 1 \/ pc' = 5
      BY <2>2, <3>1 DEF IsAt
    <3>4. QED
      BY <1>1, <3>1, <3>2, <3>3 DEF LockInv, NeverLockedOut, Given, Lock, Governor
  <2>6. QED
    BY <2>3, <2>4, <2>5
<1>5. QED
  BY <1>3, <1>4

LEMMA SendLock == ASSUME RecInv, LockInv, NEW c \in Contracts, Send(c) PROVE LockInv'
<1>1. /\ At(Deploy(c)) /\ ~sent /\ script # 0
      /\ UNCHANGED <<records, proposers, openTo, Lock, Governor>>
      /\ \/ Proceed /\ UNCHANGED <<chain, admins, sent>>
         \/ /\ sent' /\ UNCHANGED <<script, pc>>
            /\ chain' = [chain EXCEPT ![c] = Append(@, ConstructorArgs(c))]
            /\ admins' = IF c = "TimeLock" THEN admins \union {Len(chain[c]) + 1} ELSE admins
  BY SendStep DEF At, Lock, Governor
<1>2. script # 4 /\ (script = 2 => c = "TimeLock")
  <2>1. Within
    BY DEF RecInv, Typed
  <2>2. \/ IsAt(1, 1)
        \/ IsAt(2, 1) /\ c = "TimeLock"
        \/ IsAt(3, 2)
        \/ IsAt(5, 1)
        \/ IsAt(6, 2)
    BY <1>1, <2>1, WhereDeploy
  <2>3. QED
    BY <2>2 DEF IsAt
<1>3. CASE Proceed /\ UNCHANGED <<chain, admins, sent>>
  BY <1>1, <1>2, <1>3, IdleLock
<1>4. CASE /\ sent' /\ UNCHANGED <<script, pc>>
           /\ chain' = [chain EXCEPT ![c] = Append(@, ConstructorArgs(c))]
           /\ admins' = IF c = "TimeLock" THEN admins \union {Len(chain[c]) + 1} ELSE admins
  <2>1. script = 2 => Len(chain'["TimeLock"]) \in admins'
    <3>1. SUFFICES ASSUME script = 2 PROVE Len(chain'["TimeLock"]) \in admins'
      OBVIOUS
    <3>2. c = "TimeLock" /\ admins' = admins \union {Len(chain[c]) + 1}
      BY <1>2, <1>4, <3>1
    <3>3. Len(Append(chain[c], ConstructorArgs(c))) = Len(chain[c]) + 1
      BY ArgsType, AppendMoves DEF RecInv, Typed
    <3>4. chain'[c] = Append(chain[c], ConstructorArgs(c))
      BY <1>4 DEF RecInv, Typed
    <3>5. QED
      BY <3>2, <3>3, <3>4
  <2>2. admins \subseteq admins'
    BY <1>4
  <2>3. QED
    BY <1>1, <1>2, <1>4, <2>1, <2>2 DEF LockInv, NeverLockedOut, Given, Lock, Governor
<1>5. QED
  BY <1>1, <1>3, <1>4

\* A timelock that goes on record is the deployer's; a governor does when nobody
\* may propose yet.
LEMMA SaveLock ==
  ASSUME RecInv, LockInv, NEW c \in Contracts, At(Deploy(c)), sent, records[c] = 0,
         records'[c] = Len(chain[c]), records'[c] # 0,
         \A d \in Contracts : d # c => records'[d] = records[d],
         UNCHANGED <<chain, admins, proposers, openTo>>, ~sent',
         pc' = 1 \/ (script' = script /\ pc' = pc + 1)
  PROVE  LockInv'
<1>1. script # 4 /\ (c = "TimeLock" => script = 2)
  <2>1. \/ IsAt(1, 1) /\ c = "GovernanceToken"
        \/ IsAt(2, 1) /\ c = "TimeLock"
        \/ IsAt(3, 2) /\ c = "GovernorContract"
        \/ IsAt(5, 1) /\ c = "StableCookie"
        \/ IsAt(6, 2) /\ c = "CookieStore"
    BY WhereDeploy DEF RecInv, Typed
  <2>2. QED
    BY <2>1 DEF IsAt
<1>2. script' = 4 => pc' = 1
  BY <1>1
<1>3. CASE c = "TimeLock"
  <2>1. Lock' \in admins' /\ Lock = 0 /\ Governor' = Governor
    BY <1>1, <1>3 DEF LockInv, Lock, Governor, Contracts
  <2>2. Governor = 0
    BY <2>1 DEF RecInv, Depends
  <2>3. QED
    BY <1>2, <2>1, <2>2 DEF LockInv, NeverLockedOut, Given, Lock, Governor
<1>4. CASE c = "GovernorContract"
  <2>1. Lock' = Lock /\ Governor = 0
    BY <1>4 DEF Lock, Governor, Contracts
  <2>2. proposers = {}
    BY <2>1 DEF LockInv
  <2>3. Lock = 0 \/ Lock \in admins
    BY <2>2 DEF LockInv, NeverLockedOut, Lock
  <2>4. QED
    BY <1>2, <2>1, <2>2, <2>3 DEF LockInv, NeverLockedOut, Given, Lock, Governor
<1>5. CASE c # "TimeLock" /\ c # "GovernorContract"
  <2>1. Lock' = Lock /\ Governor' = Governor
    BY <1>5 DEF Lock, Governor, Contracts
  <2>2. QED
    BY <1>2, <2>1 DEF LockInv, NeverLockedOut, Given, Lock, Governor
<1>6. QED
  BY <1>3, <1>4, <1>5

LEMMA LockStep == ASSUME RecInv, LockInv, [Next]_vars PROVE LockInv'
<1>1. ASSUME NEW t \in AllTags, StartRun(t) PROVE LockInv'
  BY <1>1, StartLock
<1>2. CASE Fail
  <2>1. /\ UNCHANGED chainVars /\ script' = 0 /\ pc' = 1 /\ ~sent'
    BY <1>2 DEF Fail, Throw
  <2>2. UNCHANGED <<chain, admins, proposers, openTo>>
    BY <2>1 DEF chainVars
  <2>3. CASE UNCHANGED records
    BY <2>1, <2>2, <2>3 DEF LockInv, NeverLockedOut, Given, Lock, Governor
  <2>4. CASE ~(UNCHANGED records)
    <3>1. PICK c \in Contracts : /\ At(Deploy(c)) /\ sent /\ records[c] = 0
                                 /\ records'[c] = Len(chain[c]) /\ records'[c] # 0
                                 /\ \A d \in Contracts : d # c => records'[d] = records[d]
      BY <1>2, <2>4, FailStep
    <3>2. QED
      BY <2>1, <2>2, <3>1, SaveLock
  <2>5. QED
    BY <2>3, <2>4
<1>3. CASE RunStep
  <2>1. ASSUME NEW S \in SUBSET Contracts, GetRecords(S) PROVE LockInv'
    <3>1. /\ At(Get(S)) /\ script # 0
          /\ UNCHANGED <<chain, records, admins, proposers, openTo, sent>>
          /\ Proceed \/ Throw
      BY <2>1 DEF GetRecords, chainVars, At
    <3>2. IsAt(3, 1) \/ IsAt(4, 1) \/ IsAt(6, 1)
      BY <3>1, WhereGet DEF RecInv, Typed
    <3>3. ~sent /\ (script = 4 => pc = 1)
      BY <3>2, NotSending DEF IsAt
    <3>4. QED
      BY <3>1, <3>3, IdleLock
  <2>2. ASSUME NEW c \in Contracts, Send(c) PROVE LockInv'
    BY <2>2, SendLock
  <2>3. ASSUME NEW c \in Contracts, Save(c) PROVE LockInv'
    <3>1. /\ At(Deploy(c)) /\ sent /\ records[c] = 0
          /\ records'[c] = Len(chain[c]) /\ records'[c] # 0
          /\ \A d \in Contracts : d # c => records'[d] = records[d]
          /\ UNCHANGED chainVars /\ ~sent' /\ Proceed
      BY <2>3, SaveAct
    <3>2. UNCHANGED <<chain, admins, proposers, openTo>> /\ script # 0
      BY <3>1 DEF chainVars, At
    <3>3. pc' = 1 \/ (script' = script /\ pc' = pc + 1)
      BY <3>1, <3>2, Onward
    <3>4. QED
      BY <3>1, <3>2, <3>3, SaveLock
  <2>4. CASE GrantProposer \/ GrantExecutor \/ RevokeAdmin
    BY <2>4, RoleLock
  <2>5. ASSUME (\E c \in Contracts : VerifySource(c)) \/ DelegateVotes \/ NoStore
        PROVE  LockInv'
    <3>1. /\ script # 0 /\ ~sent /\ UNCHANGED <<chain, records, sent>>
          /\ Proceed \/ Throw
      BY <2>5, PlainStep DEF Plain
    <3>2. UNCHANGED <<admins, proposers, openTo>>
      BY <2>5 DEF VerifySource, DelegateVotes, NoStore, DeployUnlinked, chainVars
    <3>3. script # 4
      <4>1. Within
        BY DEF RecInv, Typed
      <4>2. CASE DelegateVotes \/ NoStore
        <5>1. IsAt(1, 3) \/ IsAt(6, 2)
          BY <4>1, <4>2, WhereCall, WhereNoStore DEF DelegateVotes
        <5>2. QED
          BY <5>1 DEF IsAt
      <4>3. ASSUME NEW c \in Contracts, VerifySource(c) PROVE script # 4
        <5>1. PICK step \in {Verify(c), VerifyBare(c)} : At(step)
          BY <4>3 DEF VerifySource
        <5>2. IsAt(1, 2) \/ IsAt(2, 2) \/ IsAt(3, 3) \/ IsAt(5, 2)
          BY <4>1, <5>1, WhereVerify
        <5>3. QED
          BY <5>2 DEF IsAt
      <4>4. QED
        BY <2>5, <4>2, <4>3
    <3>4. QED
      BY <3>1, <3>2, <3>3, IdleLock
  <2>6. QED
    BY <1>3, <2>1, <2>2, <2>3, <2>4, <2>5 DEF RunStep, NoStore
<1>4. CASE UNCHANGED vars
  BY <1>4 DEF vars, chainVars, runVars, LockInv, NeverLockedOut, Given, Lock, Governor
<1>5. QED
  BY <1>1, <1>2, <1>3, <1>4 DEF Next

-----------------------------------------------------------------------------
(* The token and its votes *)

VoteInv ==
  /\ GovernorHasVoters
  /\ script > 1 /\ tag \in {"all", "governor"} => Token \in delegated

LEMMA InitVote == Init => VoteInv
BY DEF Init, VoteInv, GovernorHasVoters, Contracts

\* A run leaves the first script for another one at its last step only.
LEMMA LeavesFirst ==
  ASSUME RecInv, script # 0, Proceed \/ Throw
  PROVE  script' > 1 => script > 1 \/ IsAt(1, 3)
<1>1. script \in 1..6
  BY DEF RecInv, Typed, Within
<1>2. CASE Throw
  BY <1>2 DEF Throw
<1>3. CASE Proceed
  <2>1. script' = script \/ script' = 0 \/ pc = Len(Scripts[script].steps)
    BY <1>3, ProceedFits DEF RecInv, Typed
  <2>2. script = 1 /\ pc = Len(Scripts[script].steps) => IsAt(1, 3)
    BY Lengths DEF IsAt
  <2>3. QED
    BY <1>1, <2>1, <2>2
<1>4. QED
  BY <1>2, <1>3

\* A step of a run that builds no governor.
LEMMA KeepsVotes ==
  ASSUME RecInv, VoteInv, script # 0, Proceed \/ Throw,
         UNCHANGED <<tag, chain["GovernorContract"]>>,
         delegated \subseteq delegated',
         Token' = Token \/ script = 1,
         IsAt(1, 3) => Token' \in delegated'
  PROVE  VoteInv'
<1>1. GovernorHasVoters'
  BY DEF VoteInv, GovernorHasVoters
<1>2. script > 1 => script # 1
  BY DEF RecInv, Typed, Within
<1>3. QED
  BY <1>1, <1>2, LeavesFirst DEF VoteInv

LEMMA VoteStep == ASSUME RecInv, VoteInv, [Next]_vars PROVE VoteInv'
<1>1. ASSUME NEW t \in AllTags, StartRun(t) PROVE VoteInv'
  <2>1. /\ tag' = t /\ script' = NextScript(0, t)
        /\ \/ UNCHANGED <<chain, delegated>>
           \/ chain' = [c \in Contracts |-> <<>>]
    BY <1>1 DEF StartRun, chainVars
  <2>2. ASSUME t \in {"all", "governor"} PROVE ~(script' > 1)
    <3>1. t \in Scripts[1].tags /\ 1 \in 1..6
      BY <2>2, Tags
    <3>2. QED
      BY <2>1, <3>1, NextScriptFits
  <2>3. GovernorHasVoters'
    <3>1. CASE UNCHANGED <<chain, delegated>>
      BY <3>1 DEF VoteInv, GovernorHasVoters
    <3>2. CASE chain' = [c \in Contracts |-> <<>>]
      BY <3>2 DEF GovernorHasVoters, Contracts
    <3>3. QED
      BY <2>1, <3>1, <3>2
  <2>4. QED
    BY <2>1, <2>2, <2>3 DEF VoteInv
<1>2. CASE Fail
  BY <1>2 DEF Fail, Throw, chainVars, VoteInv, GovernorHasVoters
<1>3. CASE RunStep
  <2>1. ASSUME NEW S \in SUBSET Contracts, GetRecords(S) PROVE VoteInv'
    <3>1. /\ At(Get(S)) /\ script # 0 /\ UNCHANGED <<chain, records, delegated, tag>>
          /\ Proceed \/ Throw
      BY <2>1 DEF GetRecords, chainVars, At
    <3>2. ~IsAt(1, 3)
      BY <3>1, WhereGet DEF RecInv, Typed, IsAt
    <3>3. UNCHANGED <<tag, chain["GovernorContract"]>> /\ delegated \subseteq delegated'
          /\ Token' = Token
      BY <3>1 DEF Token
    <3>4. QED
      BY <3>1, <3>2, <3>3, KeepsVotes
  <2>2. ASSUME NEW c \in Contracts, Send(c) PROVE VoteInv'
    <3>1. /\ At(Deploy(c)) /\ script # 0
          /\ UNCHANGED <<records, tag, delegated, Token>>
          /\ \/ Proceed /\ UNCHANGED chain
             \/ /\ UNCHANGED <<script, pc>>
                /\ chain' = [chain EXCEPT ![c] = Append(@, ConstructorArgs(c))]
      BY <2>2, SendStep DEF At, Token
    <3>2. CASE Proceed /\ UNCHANGED chain
      <4>1. ~IsAt(1, 3)
        <5>1. Within
          BY DEF RecInv, Typed
        <5>2. QED
          BY <3>1, <5>1, WhereDeploy DEF IsAt
      <4>2. UNCHANGED <<tag, chain["GovernorContract"]>> /\ delegated \subseteq delegated'
        BY <3>1, <3>2
      <4>3. QED
        BY <3>1, <3>2, <4>1, <4>2, KeepsVotes
    <3>3. CASE /\ UNCHANGED <<script, pc>>
               /\ chain' = [chain EXCEPT ![c] = Append(@, ConstructorArgs(c))]
      <4> DEFINE q == chain["GovernorContract"]
      <4>1. CASE c # "GovernorContract"
        <5>1. chain'["GovernorContract"] = chain["GovernorContract"]
          BY <3>3, <4>1 DEF RecInv, Typed, Contracts
        <5>2. UNCHANGED <<delegated, tag, script, Token>>
          BY <3>1, <3>3
        <5>3. GovernorHasVoters'
          BY <5>1, <5>2 DEF VoteInv, GovernorHasVoters
        <5>4. QED
          BY <5>2, <5>3 DEF VoteInv
      <4>2. CASE c = "GovernorContract"
        <5>1. chain'[c] = Append(chain[c], ConstructorArgs(c)) /\ chain[c] \in Seq(Seq(Nat))
          BY <3>3 DEF RecInv, Typed
        <5>2. ConstructorArgs(c) \in Seq(Nat) /\ ConstructorArgs(c)[1] = Token
          <6>1. ConstructorArgs(c) = <<Token, Lock, 2, 3, 1>>
            BY <4>2 DEF ConstructorArgs, Token, Lock
          <6>2. ConstructorArgs(c) \in Seq(Nat)
            BY ArgsType DEF RecInv
          <6>3. ConstructorArgs(c)[1] = Token
            BY <6>1
          <6>4. QED
            BY <6>2, <6>3
        <5>3. Token \in delegated
          <6>1. IsAt(3, 2)
            BY <3>1, <4>2, WhereDeploy DEF RecInv, Typed
          <6>2. tag \in {"all", "governor"}
            BY <6>1, Tags DEF RecInv, Typed, IsAt
          <6>3. QED
            BY <6>1, <6>2 DEF VoteInv, IsAt
        <5>4. \A i \in DOMAIN chain'[c] : chain'[c][i] = ConstructorArgs(c)
                                          \/ (i \in DOMAIN chain[c] /\ chain'[c][i] = chain[c][i])
          BY <5>1, <5>2
        <5>5. GovernorHasVoters'
          BY <3>1, <4>2, <5>2, <5>3, <5>4 DEF VoteInv, GovernorHasVoters
        <5>6. QED
          BY <3>1, <3>3, <5>5 DEF VoteInv
      <4>3. QED
        BY <4>1, <4>2
    <3>4. QED
      BY <3>1, <3>2, <3>3
  <2>3. ASSUME NEW c \in Contracts, Save(c) PROVE VoteInv'
    <3>1. /\ At(Deploy(c)) /\ script # 0 /\ Proceed
          /\ \A d \in Contracts : d # c => records'[d] = records[d]
          /\ UNCHANGED <<chain, delegated, tag>>
      BY <2>3, SaveAct DEF At, chainVars
    <3>2. ~IsAt(1, 3) /\ (c = "GovernanceToken" => script = 1)
      <4>1. \/ IsAt(1, 1) /\ c = "GovernanceToken"
            \/ IsAt(2, 1) /\ c = "TimeLock"
            \/ IsAt(3, 2) /\ c = "GovernorContract"
            \/ IsAt(5, 1) /\ c = "StableCookie"
            \/ IsAt(6, 2) /\ c = "CookieStore"
        BY <3>1, WhereDeploy DEF RecInv, Typed
      <4>2. QED
        BY <4>1 DEF IsAt
    <3>3. Token' = Token \/ script = 1
      BY <3>1, <3>2 DEF Token, Contracts
    <3>4. UNCHANGED <<tag, chain["GovernorContract"]>> /\ delegated \subseteq delegated'
      BY <3>1
    <3>5. QED
      BY <3>1, <3>2, <3>3, <3>4, KeepsVotes
  <2>4. CASE Plain
    <3>1. /\ script # 0 /\ UNCHANGED <<chain, records, tag>>
          /\ Proceed \/ Throw
      BY <2>4, PlainStep
    <3>2. delegated \subseteq delegated' /\ (IsAt(1, 3) => Token \in delegated')
      <4>1. Within
        BY DEF RecInv, Typed
      <4>2. CASE DelegateVotes
        BY <4>2 DEF DelegateVotes, Token
      <4>3. CASE GrantProposer \/ GrantExecutor \/ RevokeAdmin
        <5>1. /\ UNCHANGED delegated
              /\ \/ At(Call("grant proposer")) \/ At(Call("grant executor"))
                 \/ At(Call("revoke admin"))
          BY <4>3 DEF GrantProposer, GrantExecutor, RevokeAdmin, SetRole, chainVars
        <5>2. IsAt(4, 2) \/ IsAt(4, 3) \/ IsAt(4, 4)
          BY <4>1, <5>1, WhereCall
        <5>3. ~IsAt(1, 3)
          BY <5>2 DEF IsAt
        <5>4. QED
          BY <5>1, <5>3
      <4>4. CASE NoStore
        BY <4>1, <4>4, WhereNoStore DEF chainVars, IsAt
      <4>5. ASSUME NEW c \in Contracts, VerifySource(c)
            PROVE  UNCHANGED delegated /\ ~IsAt(1, 3)
        <5>1. PICK step \in {Verify(c), VerifyBare(c)} : At(step)
          BY <4>5 DEF VerifySource
        <5>2. IsAt(1, 2) \/ IsAt(2, 2) \/ IsAt(3, 3) \/ IsAt(5, 2)
          BY <4>1, <5>1, WhereVerify
        <5>3. QED
          BY <4>5, <5>2 DEF VerifySource, chainVars, IsAt
      <4>6. QED
        BY <2>4, <4>2, <4>3, <4>4, <4>5 DEF Plain
    <3>3. Token' = Token /\ UNCHANGED <<tag, chain["GovernorContract"]>>
      BY <3>1 DEF Token
    <3>4. QED
      BY <3>1, <3>2, <3>3, KeepsVotes
  <2>5. QED
    BY <1>3, <2>1, <2>2, <2>3, <2>4 DEF RunStep, Plain, NoStore
<1>4. CASE UNCHANGED vars
  BY <1>4 DEF vars, chainVars, runVars, VoteInv, GovernorHasVoters, Token
<1>5. QED
  BY <1>1, <1>2, <1>3, <1>4 DEF Next

-----------------------------------------------------------------------------
(* A run that starts after the timelock was handed over *)

StopInv ==
  /\ network = "hardhat" => ~wasSetUp
  /\ wasSetUp => Lock # 0 /\ Lock \notin admins
  /\ wasSetUp /\ tag = "all" => script <= 4 /\ (script = 4 => pc <= 2)

LEMMA InitStop == Init => StopInv
BY DEF Init, StopInv

\* Such a run gets as far as the first transaction of the fourth script.
LEMMA NotBehindSetup ==
  ASSUME RecInv, tag = "all", script # 0, script <= 4, Proceed \/ Throw,
         IsAt(4, 2) => Throw, script = 4 => pc <= 2
  PROVE  script' <= 4 /\ (script' = 4 => pc' <= 2)
<1>1. script \in 1..6 /\ pc \in Nat /\ (script = 4 => pc # 0)
  BY DEF RecInv, Typed, Within
<1>2. CASE Throw
  BY <1>2 DEF Throw
<1>3. CASE Proceed /\ ~Throw
  <2>1. CASE script = 4
    <3>1. pc = 1
      BY <1>1, <1>3, <2>1 DEF IsAt
    <3>2. script' = 4 /\ pc' = 2
      BY <1>3, <2>1, <3>1, Lengths DEF Proceed
    <3>3. QED
      BY <3>2
  <2>2. CASE script # 4
    <3>1. 4 \in (script + 1)..6 /\ tag \in Scripts[4].tags
      BY <1>1, <2>2, Tags
    <3>2. script' = script \/ script' = 0 \/ (script' <= 4 /\ pc' = 1)
      BY <1>1, <1>3, <3>1, ProceedFits DEF RecInv, Typed
    <3>3. QED
      BY <1>1, <2>2, <3>2
  <2>3. QED
    BY <2>1, <2>2
<1>4. QED
  BY <1>2, <1>3

LEMMA StopStep == ASSUME RecInv, StopInv, [Next]_vars PROVE StopInv'
<1>1. ASSUME NEW t \in AllTags, StartRun(t) PROVE StopInv'
  <2>1. /\ network' = network /\ tag' = t /\ script' = NextScript(0, t)
        /\ \/ network = "hardhat" /\ wasSetUp' = FALSE
           \/ wasSetUp' = IsSetUp /\ UNCHANGED <<records, admins>> /\ network # "hardhat"
    BY <1>1 DEF StartRun, chainVars
  <2>2. t = "all" => script' <= 4 /\ script' # 4
    <3>1. SUFFICES ASSUME t = "all" PROVE script' <= 4 /\ script' # 4
      OBVIOUS
    <3>2. t \in Scripts[1].tags /\ 1 \in (0 + 1)..6 /\ 0 \in 0..6
      BY <3>1, Tags
    <3>3. script' \in 1..6 /\ script' <= 1
      BY <2>1, <3>2, NextScriptFits
    <3>4. QED
      BY <3>3
  <2>3. QED
    BY <2>1, <2>2 DEF StopInv, IsSetUp, Lock
<1>2. CASE Fail
  <2>1. /\ script' = 0 /\ UNCHANGED <<network, tag, wasSetUp>> /\ admins' = admins
        /\ \/ UNCHANGED records
           \/ \E c \in Contracts : records[c] = 0
                 /\ \A d \in Contracts : d # c => records'[d] = records[d]
    BY <1>2, FailStep DEF chainVars
  <2>2. Lock # 0 => Lock' = Lock
    BY <2>1 DEF Lock, Contracts
  <2>3. QED
    BY <2>1, <2>2 DEF StopInv
<1>3. CASE RunStep
  <2>1. ASSUME NEW S \in SUBSET Contracts, GetRecords(S) PROVE StopInv'
    <3>1. /\ At(Get(S)) /\ script # 0
          /\ UNCHANGED <<network, records, admins, tag, wasSetUp>>
          /\ Proceed \/ Throw
      BY <2>1 DEF GetRecords, chainVars, At
    <3>2. ~IsAt(4, 2)
      BY <3>1, WhereGet DEF RecInv, Typed, IsAt
    <3>3. UNCHANGED Lock
      BY <3>1 DEF Lock
    <3>4. QED
      BY <3>1, <3>2, <3>3, NotBehindSetup DEF StopInv
  <2>2. ASSUME NEW c \in Contracts, Send(c) PROVE StopInv'
    <3>1. /\ At(Deploy(c)) /\ script # 0
          /\ UNCHANGED <<network, records, tag, wasSetUp, Lock>>
          /\ \/ Proceed /\ UNCHANGED admins
             \/ /\ UNCHANGED <<script, pc>> /\ records[c] = 0
                /\ c # "TimeLock" => UNCHANGED admins
      BY <2>2, SendStep DEF At, Lock
    <3>2. ~IsAt(4, 2)
      <4>1. IsAt(1, 1) \/ IsAt(2, 1) \/ IsAt(3, 2) \/ IsAt(5, 1) \/ IsAt(6, 2)
        BY <3>1, WhereDeploy DEF RecInv, Typed
      <4>2. QED
        BY <4>1 DEF IsAt
    <3>3. Lock # 0 => UNCHANGED admins
      BY <3>1 DEF Lock
    <3>4. QED
      BY <3>1, <3>2, <3>3, NotBehindSetup DEF StopInv
  <2>3. ASSUME NEW c \in Contracts, Save(c) PROVE StopInv'
    <3>1. /\ At(Deploy(c)) /\ script # 0 /\ Proceed /\ records[c] = 0
          /\ \A d \in Contracts : d # c => records'[d] = records[d]
          /\ UNCHANGED <<network, admins, tag, wasSetUp>>
      BY <2>3, SaveAct DEF At, chainVars
    <3>2. ~IsAt(4, 2)
      <4>1. IsAt(1, 1) \/ IsAt(2, 1) \/ IsAt(3, 2) \/ IsAt(5, 1) \/ IsAt(6, 2)
        BY <3>1, WhereDeploy DEF RecInv, Typed
      <4>2. QED
        BY <4>1 DEF IsAt
    <3>3. Lock # 0 => Lock' = Lock
      BY <3>1 DEF Lock, Contracts
    <3>4. QED
      BY <3>1, <3>2, <3>3, NotBehindSetup DEF StopInv
  <2>4. CASE Plain
    <3>1. /\ script # 0 /\ UNCHANGED <<network, records, tag, wasSetUp>>
          /\ Proceed \/ Throw
      BY <2>4, PlainStep
    <3>2. admins' \subseteq admins /\ (IsAt(4, 2) => Lock \in admins \/ Throw)
      <4>1. Within
        BY DEF RecInv, Typed
      <4>2. CASE DelegateVotes \/ NoStore
        <5>1. UNCHANGED admins
          BY <4>2 DEF DelegateVotes, NoStore, DeployUnlinked, chainVars
        <5>2. IsAt(1, 3) \/ IsAt(6, 2)
          BY <4>1, <4>2, WhereCall, WhereNoStore DEF DelegateVotes
        <5>3. ~IsAt(4, 2)
          BY <5>2 DEF IsAt
        <5>4. QED
          BY <5>1, <5>3
      <4>3. CASE GrantProposer \/ GrantExecutor \/ RevokeAdmin
        BY <4>3 DEF GrantProposer, GrantExecutor, RevokeAdmin, SetRole, Lock
      <4>4. ASSUME NEW c \in Contracts, VerifySource(c)
            PROVE  UNCHANGED admins /\ ~IsAt(4, 2)
        <5>1. PICK step \in {Verify(c), VerifyBare(c)} : At(step)
          BY <4>4 DEF VerifySource
        <5>2. IsAt(1, 2) \/ IsAt(2, 2) \/ IsAt(3, 3) \/ IsAt(5, 2)
          BY <4>1, <5>1, WhereVerify
        <5>3. QED
          BY <4>4, <5>2 DEF VerifySource, chainVars, IsAt
      <4>5. QED
        BY <2>4, <4>2, <4>3, <4>4 DEF Plain
    <3>3. Lock' = Lock
      BY <3>1 DEF Lock
    <3>4. QED
      BY <3>1, <3>2, <3>3, NotBehindSetup DEF StopInv
  <2>5. QED
    BY <1>3, <2>1, <2>2, <2>3, <2>4 DEF RunStep, Plain, NoStore
<1>4. CASE UNCHANGED vars
  BY <1>4 DEF vars, chainVars, runVars, StopInv, Lock
<1>5. QED
  BY <1>1, <1>2, <1>3, <1>4 DEF Next

-----------------------------------------------------------------------------
(* Types *)

TypeInv ==
  /\ network \in networkConfig /\ etherscanKey \in BOOLEAN
  /\ delegated \subseteq 1..Len(chain["GovernanceToken"])
  /\ admins \union openTo \subseteq 1..Len(chain["TimeLock"])
  /\ verified \subseteq Contracts
  /\ wasSetUp \in BOOLEAN /\ failures \in 0..MaxFailures
  /\ script = 0 => pc = 1
  /\ script = 1 /\ pc > 1 => Token # 0

LEMMA InitType == Init => TypeInv
<1>1. SUFFICES ASSUME Init PROVE TypeInv
  OBVIOUS
<1>2. failures = 0 /\ 0 \in 0..MaxFailures
  BY <1>1, FailuresAssumption DEF Init
<1>3. /\ network \in networkConfig /\ etherscanKey \in BOOLEAN
      /\ delegated = {} /\ admins = {} /\ openTo = {} /\ verified = {}
      /\ wasSetUp = FALSE /\ script = 0 /\ pc = 1
  BY <1>1 DEF Init
<1>4. /\ delegated \subseteq 1..Len(chain["GovernanceToken"])
      /\ admins \union openTo \subseteq 1..Len(chain["TimeLock"])
      /\ verified \subseteq Contracts
  BY <1>3
<1>5. wasSetUp \in BOOLEAN
  BY <1>3, Zenon
<1>6. (script = 0 => pc = 1) /\ (script = 1 /\ pc > 1 => Token # 0)
  BY <1>3
<1>7. QED
  BY <1>2, <1>3, <1>4, <1>5, <1>6 DEF TypeInv

\* A step of a run that deploys nothing and fails by itself at most.
LEMMA KeepsType ==
  ASSUME RecInv, TypeInv, script # 0, Proceed \/ Throw,
         UNCHANGED <<network, etherscanKey, chain, wasSetUp>>,
         Token = 0 => ~IsAt(1, 1) \/ Token' # 0,
         Token # 0 => Token' # 0,
         delegated' \subseteq 1..Len(chain["GovernanceToken"]),
         admins' \union openTo' \subseteq 1..Len(chain["TimeLock"]),
         verified' \subseteq Contracts, failures' \in 0..MaxFailures
  PROVE  TypeInv'
<1>1. script' = 0 => pc' = 1
  <2>1. CASE Proceed
    BY <2>1, ProceedFits DEF RecInv, Typed
  <2>2. CASE Throw
    BY <2>2 DEF Throw
  <2>3. QED
    BY <2>1, <2>2
<1>2. script' = 1 /\ pc' > 1 => script = 1 /\ (pc > 1 \/ IsAt(1, 1))
  <2>1. (script' = script /\ pc' = pc + 1) \/ pc' = 1
    BY Onward
  <2>2. pc \in Nat /\ pc # 0
    BY DEF RecInv, Typed, Within
  <2>3. QED
    BY <2>1, <2>2 DEF IsAt
<1>3. QED
  BY <1>1, <1>2 DEF TypeInv

LEMMA TypeStep == ASSUME RecInv, TypeInv, [Next]_vars PROVE TypeInv'
<1>1. ASSUME NEW t \in AllTags, StartRun(t) PROVE TypeInv'
  <2>1. /\ pc' = 1 /\ UNCHANGED <<network, etherscanKey, verified, failures>>
        /\ wasSetUp' \in BOOLEAN
        /\ \/ UNCHANGED <<chain, delegated, admins, openTo>>
           \/ delegated' = {} /\ admins' = {} /\ openTo' = {}
    BY <1>1 DEF StartRun, chainVars, IsSetUp, TypeInv
  <2>2. CASE UNCHANGED <<chain, delegated, admins, openTo>>
    BY <2>1, <2>2 DEF TypeInv
  <2>3. CASE delegated' = {} /\ admins' = {} /\ openTo' = {}
    BY <2>1, <2>3 DEF TypeInv
  <2>4. QED
    BY <2>1, <2>2, <2>3
<1>2. CASE Fail
  <2>1. /\ script' = 0 /\ pc' = 1
        /\ UNCHANGED <<network, etherscanKey, verified, wasSetUp>>
        /\ UNCHANGED <<chain, delegated, admins, openTo>>
        /\ failures < MaxFailures /\ failures' = failures + 1
    BY <1>2 DEF Fail, Throw, chainVars
  <2>2. QED
    BY <2>1, FailuresAssumption DEF TypeInv
<1>3. CASE RunStep
  <2> USE DEF TypeInv
  <2>1. ASSUME NEW S \in SUBSET Contracts, GetRecords(S) PROVE TypeInv'
    <3>1. /\ At(Get(S)) /\ script # 0 /\ UNCHANGED chainVars
          /\ UNCHANGED <<network, etherscanKey, records, wasSetUp, verified, failures>>
          /\ Proceed \/ Throw
      BY <2>1 DEF GetRecords, At
    <3>2. IsAt(3, 1) \/ IsAt(4, 1) \/ IsAt(6, 1)
      BY <3>1, WhereGet DEF RecInv, Typed
    <3>3. ~IsAt(1, 1)
      BY <3>2 DEF IsAt
    <3>4. UNCHANGED <<chain, delegated, admins, openTo, Token>>
      BY <3>1 DEF chainVars, Token
    <3>5. QED
      BY <3>1, <3>3, <3>4, KeepsType
  <2>2. ASSUME NEW c \in Contracts, Send(c) PROVE TypeInv'
    <3>1. /\ At(Deploy(c)) /\ script # 0
          /\ UNCHANGED <<network, etherscanKey, records, wasSetUp, verified, failures,
                         delegated, openTo, Token>>
          /\ \/ /\ Proceed /\ UNCHANGED <<chain, admins>>
                /\ records[c] # 0
             \/ /\ UNCHANGED <<script, pc>>
                /\ chain' = [chain EXCEPT ![c] = Append(@, ConstructorArgs(c))]
                /\ admins' = IF c = "TimeLock" THEN admins \union {Len(chain[c]) + 1}
                                               ELSE admins
      BY <2>2 DEF Send, At, Token
    <3>2. CASE Proceed /\ UNCHANGED <<chain, admins>> /\ records[c] # 0
      <4>1. IsAt(1, 1) => c = "GovernanceToken"
        <5>1. \/ IsAt(1, 1) /\ c = "GovernanceToken"
              \/ IsAt(2, 1) \/ IsAt(3, 2) \/ IsAt(5, 1) \/ IsAt(6, 2)
          BY <3>1, WhereDeploy DEF RecInv, Typed
        <5>2. QED
          BY <5>1 DEF IsAt
      <4>2. Token = 0 => ~IsAt(1, 1)
        BY <3>2, <4>1 DEF Token
      <4>3. QED
        BY <3>1, <3>2, <4>2, KeepsType
    <3>3. CASE /\ UNCHANGED <<script, pc>>
               /\ chain' = [chain EXCEPT ![c] = Append(@, ConstructorArgs(c))]
               /\ admins' = IF c = "TimeLock" THEN admins \union {Len(chain[c]) + 1}
                                              ELSE admins
      <4>1. /\ Len(chain'[c]) = Len(chain[c]) + 1 /\ Len(chain[c]) \in Nat
            /\ \A d \in Contracts : d # c => chain'[d] = chain[d]
        <5>1. chain'[c] = Append(chain[c], ConstructorArgs(c))
          BY <3>3 DEF RecInv, Typed
        <5>2. Len(Append(chain[c], ConstructorArgs(c))) = Len(chain[c]) + 1
              /\ Len(chain[c]) \in Nat
          BY ArgsType, AppendMoves DEF RecInv, Typed
        <5>3. QED
          BY <3>3, <5>1, <5>2 DEF RecInv, Typed
      <4>2. delegated \subseteq 1..Len(chain'["GovernanceToken"])
        BY <4>1 DEF Contracts
      <4>3. admins' \union openTo \subseteq 1..Len(chain'["TimeLock"])
        <5>1. CASE c = "TimeLock"
          BY <3>3, <4>1, <5>1
        <5>2. CASE c # "TimeLock"
          BY <3>3, <4>1, <5>2 DEF Contracts
        <5>3. QED
          BY <5>1, <5>2
      <4>4. QED
        BY <3>1, <3>3, <4>2, <4>3
    <3>4. QED
      BY <3>1, <3>2, <3>3
  <2>3. ASSUME NEW c \in Contracts, Save(c) PROVE TypeInv'
    <3>1. /\ At(Deploy(c)) /\ script # 0 /\ Proceed
          /\ UNCHANGED <<network, etherscanKey, wasSetUp, verified, failures>>
          /\ UNCHANGED chainVars
          /\ records'[c] # 0 /\ \A d \in Contracts : d # c => records'[d] = records[d]
      BY <2>3, SaveAct DEF Save, At
    <3>2. IsAt(1, 1) => c = "GovernanceToken"
      <4>1. \/ IsAt(1, 1) /\ c = "GovernanceToken"
            \/ IsAt(2, 1) \/ IsAt(3, 2) \/ IsAt(5, 1) \/ IsAt(6, 2)
        BY <3>1, WhereDeploy DEF RecInv, Typed
      <4>2. QED
        BY <4>1 DEF IsAt
    <3>3. (IsAt(1, 1) => Token' # 0) /\ (Token # 0 => Token' # 0)
      BY <3>1, <3>2 DEF Token, Contracts
    <3>4. UNCHANGED <<chain, delegated, admins, openTo>>
      BY <3>1 DEF chainVars
    <3>5. QED
      BY <3>1, <3>3, <3>4, KeepsType
  <2>4. CASE Plain
    <3>1. /\ script # 0 /\ UNCHANGED <<network, chain, records, wasSetUp>>
          /\ Proceed \/ Throw
          /\ \/ IsAt(1, 2) \/ IsAt(2, 2) \/ IsAt(3, 3) \/ IsAt(5, 2)
             \/ IsAt(1, 3) \/ IsAt(4, 2) \/ IsAt(4, 3) \/ IsAt(4, 4) \/ IsAt(6, 2)
      BY <2>4, PlainStep
    <3>2. ~IsAt(1, 1) /\ Token' = Token
      BY <3>1 DEF IsAt, Token
    <3>3. /\ UNCHANGED etherscanKey
          /\ delegated' \subseteq 1..Len(chain["GovernanceToken"])
          /\ admins' \union openTo' \subseteq 1..Len(chain["TimeLock"])
          /\ verified' \subseteq Contracts /\ failures' \in 0..MaxFailures
      <4>1. Within
        BY DEF RecInv, Typed
      <4>2. CASE DelegateVotes
        <5>1. IsAt(1, 3)
          BY <4>1, <4>2, WhereCall DEF DelegateVotes
        <5>2. Token # 0
          BY <5>1 DEF IsAt
        <5>3. Token \in 1..Len(chain["GovernanceToken"])
          BY <5>2 DEF RecInv, Typed, Token, Contracts
        <5>4. QED
          BY <4>2, <5>3 DEF DelegateVotes, Token
      <4>3. CASE GrantProposer \/ RevokeAdmin
        BY <4>3 DEF GrantProposer, RevokeAdmin, SetRole
      <4>4. CASE GrantExecutor
        <5>1. IsAt(4, 3)
          BY <4>1, <4>4, WhereCall DEF GrantExecutor, SetRole
        <5>2. Lock # 0
          BY <5>1 DEF IsAt, RecInv, Depends
        <5>3. Lock \in 1..Len(chain["TimeLock"])
          BY <5>2 DEF RecInv, Typed, Lock, Contracts
        <5>4. QED
          BY <4>4, <5>3 DEF GrantExecutor, SetRole, Lock
      <4>5. CASE NoStore
        BY <4>5 DEF NoStore, DeployUnlinked, chainVars
      <4>6. ASSUME NEW c \in Contracts, VerifySource(c) PROVE <3>3!:
        BY <4>6, FailuresAssumption DEF VerifySource, chainVars
      <4>7. QED
        BY <2>4, <4>2, <4>3, <4>4, <4>5, <4>6 DEF Plain
    <3>4. QED
      BY <3>1, <3>2, <3>3, KeepsType
  <2>5. QED
    BY <1>3, <2>1, <2>2, <2>3, <2>4 DEF RunStep, Plain, NoStore
<1>4. CASE UNCHANGED vars
  BY <1>4 DEF vars, chainVars, runVars, TypeInv, Token
<1>5. QED
  BY <1>1, <1>2, <1>3, <1>4 DEF Next

-----------------------------------------------------------------------------
(* The theorems *)

DInv == RecInv /\ LockInv /\ VoteInv /\ StopInv /\ TypeInv

LEMMA DeploymentInv == Spec => []DInv
<1>1. Init => DInv
  BY InitRec, InitLock, InitVote, InitStop, InitType DEF DInv
<1>2. DInv /\ [Next]_vars => DInv'
  BY RecStep, LockStep, VoteStep, StopStep, TypeStep DEF DInv
<1>3. QED
  BY <1>1, <1>2, PTL DEF Spec

\* The records name contracts on the chain, and roles and votes are those of
\* contracts on the chain.
THEOREM TypeCorrect == Spec => []TypeOK
<1>1. ASSUME DInv PROVE TypeOK
  <2>1. RecInv /\ LockInv /\ TypeInv
    BY <1>1 DEF DInv
  <2>2. /\ chain \in [Contracts -> Seq(Seq(Nat))] /\ records \in [Contracts -> Nat]
        /\ \A c \in Contracts : /\ records[c] \in 0..Len(chain[c]) /\ Len(chain[c]) \in Nat
                                /\ DOMAIN chain[c] = 1..Len(chain[c])
    BY <2>1 DEF RecInv, Typed
  <2>3. proposers \subseteq (DOMAIN chain["TimeLock"]) \X (DOMAIN chain["GovernorContract"])
    <3>1. SUFFICES ASSUME proposers # {}
                   PROVE  /\ Lock \in 1..Len(chain["TimeLock"])
                          /\ Governor \in 1..Len(chain["GovernorContract"])
      <4>1. proposers \subseteq {<<Lock, Governor>>}
        BY <2>1 DEF LockInv
      <4>2. /\ DOMAIN chain["TimeLock"] = 1..Len(chain["TimeLock"])
            /\ DOMAIN chain["GovernorContract"] = 1..Len(chain["GovernorContract"])
        BY <2>2 DEF Contracts
      <4>3. QED
        BY <4>1, <4>2
    <3>2. Governor # 0 /\ Lock # 0
      BY <2>1, <3>1 DEF LockInv, RecInv, Depends
    <3>3. /\ Lock \in 0..Len(chain["TimeLock"]) /\ Len(chain["TimeLock"]) \in Nat
          /\ Governor \in 0..Len(chain["GovernorContract"])
          /\ Len(chain["GovernorContract"]) \in Nat
      <4>1. "TimeLock" \in Contracts /\ "GovernorContract" \in Contracts
        BY DEF Contracts
      <4>2. QED
        BY <2>2, <4>1 DEF Lock, Governor
    <3>4. QED
      BY <3>2, <3>3
  <2>4. script \in 0..6 /\ pc \in 1..4 /\ (script # 0 => pc <= Len(Scripts[script].steps))
    <3>1. Within /\ (script = 0 => pc = 1)
      BY <2>1 DEF RecInv, Typed, TypeInv
    <3>2. CASE script = 0
      BY <3>1, <3>2 DEF Within
    <3>3. CASE script # 0
      <4>1. pc \in 1..4
        BY <3>1, <3>3, Positions DEF IsAt
      <4>2. script \in 0..6 /\ pc \in 1..Len(Scripts[script].steps)
        BY <3>1, <3>3 DEF Within
      <4>3. \A n \in 1..6 : Len(Scripts[n].steps) \in 1..4
        BY Lengths
      <4>4. QED
        BY <3>3, <4>1, <4>2, <4>3
    <3>4. QED
      BY <3>2, <3>3
  <2>5. /\ tag \in AllTags /\ sent \in BOOLEAN
        /\ \A i \in delegated : i \in DOMAIN chain["GovernanceToken"]
        /\ admins \union openTo \subseteq DOMAIN chain["TimeLock"]
    BY <2>1, <2>2 DEF RecInv, Typed, TypeInv, Contracts
  <2>6. QED
    BY <2>1, <2>2, <2>3, <2>4, <2>5 DEF TypeInv, TypeOK
<1>2. QED
  BY <1>1, DeploymentInv, PTL

\* Wherever the setup stops, somebody is in charge of the timelock on record.
THEOREM SomebodyInCharge == Spec => []NeverLockedOut
<1>1. DInv => NeverLockedOut
  BY DEF DInv, LockInv
<1>2. QED
  BY <1>1, DeploymentInv, PTL

\* Whichever instance of the governor there is, its token's votes are delegated.
THEOREM GovernorsHaveVoters == Spec => []GovernorHasVoters
<1>1. DInv => GovernorHasVoters
  BY DEF DInv, VoteInv
<1>2. QED
  BY <1>1, DeploymentInv, PTL

\* The contracts on record were built from each other.
THEOREM RecordsWired == Spec => []WiredTogether
<1>1. DInv => WiredTogether
  BY DEF DInv, RecInv, OnRecord, LockInv, WiredTogether, Lock, Governor
<1>2. QED
  BY <1>1, DeploymentInv, PTL

\* What a step does to the records.
LEMMA RecordsChange ==
  ASSUME DInv, [Next]_vars
  PROVE  \/ UNCHANGED records
         \/ network = "hardhat" /\ wasSetUp' = FALSE /\ ~wasSetUp
         \/ \E c \in Contracts :
              /\ At(Deploy(c)) /\ records[c] = 0
              /\ \A d \in Contracts : d # c => records'[d] = records[d]
<1>1. ASSUME NEW t \in AllTags, StartRun(t)
      PROVE  UNCHANGED records \/ (network = "hardhat" /\ wasSetUp' = FALSE /\ ~wasSetUp)
  BY <1>1 DEF StartRun, DInv, StopInv
<1>2. CASE Fail
  BY <1>2, FailStep DEF DInv
<1>3. CASE RunStep
  <2>1. ASSUME NEW c \in Contracts, Save(c)
        PROVE  /\ At(Deploy(c)) /\ records[c] = 0
               /\ \A d \in Contracts : d # c => records'[d] = records[d]
    BY <2>1, SaveAct DEF DInv
  <2>2. CASE ~(\E c \in Contracts : Save(c))
    BY <1>3, <2>2 DEF RunStep, GetRecords, Send, VerifySource, DelegateVotes,
       GrantProposer, GrantExecutor, RevokeAdmin, SetRole, DeployUnlinked
  <2>3. QED
    BY <2>1, <2>2
<1>4. CASE UNCHANGED vars
  BY <1>4 DEF vars
<1>5. QED
  BY <1>1, <1>2, <1>3, <1>4 DEF Next

\* A contract on record is not replaced, however often the scripts run.
THEOREM RecordsAreKept == Spec => RecordsStay
<1>1. ASSUME DInv, [Next]_vars
      PROVE  [network # "hardhat" =>
                \A c \in Contracts : records[c] # 0 => records'[c] = records[c]]_vars
  BY <1>1, RecordsChange
<1>2. QED
  BY <1>1, DeploymentInv, PTL DEF Spec, RecordsStay

\* The plain command does nothing for the stablecoin once the timelock is the
\* governor's.
THEOREM SetupStopsAll == Spec => AllStopsAtSetup
<1>1. ASSUME DInv, [Next]_vars
      PROVE  [tag = "all" /\ wasSetUp =>
                records'["StableCookie"] = records["StableCookie"]]_vars
  <2>1. SUFFICES ASSUME tag = "all", wasSetUp
                 PROVE  records'["StableCookie"] = records["StableCookie"]
    OBVIOUS
  <2>2. script <= 4
    BY <1>1, <2>1 DEF DInv, StopInv
  <2>3. ASSUME NEW c \in Contracts, At(Deploy(c)) PROVE c # "StableCookie"
    <3>1. \/ IsAt(1, 1) /\ c = "GovernanceToken"
          \/ IsAt(2, 1) /\ c = "TimeLock"
          \/ IsAt(3, 2) /\ c = "GovernorContract"
          \/ IsAt(5, 1) \/ IsAt(6, 2)
      BY <1>1, <2>3, WhereDeploy DEF DInv, RecInv, Typed
    <3>2. QED
      BY <2>2, <3>1 DEF IsAt
  <2>4. "StableCookie" \in Contracts
    BY DEF Contracts
  <2>5. QED
    BY <1>1, <2>1, <2>3, <2>4, RecordsChange
<1>2. QED
  BY <1>1, DeploymentInv, PTL DEF Spec, AllStopsAtSetup
=============================================================================
