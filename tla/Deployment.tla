------------------------------ MODULE Deployment ------------------------------
(***************************************************************************)
(* The deployment of Solidity/Stable-Cookie-main: the six hardhat-deploy   *)
(* scripts of deploy/, which put the DAO and the stablecoin on a chain and *)
(* hand the timelock over to the governor.                                 *)
(*                                                                         *)
(* An operator runs `hardhat deploy`, with or without --tags, as often as  *)
(* it likes.  A run executes the scripts of its tag in the order of their  *)
(* file names; what a script throws ends the run.  No script returns true, *)
(* so that a later run executes all of them again.  The chain and, outside *)
(* the in-memory network, the records in deployments/ outlive the runs.    *)
(***************************************************************************)
EXTENDS Integers, Sequences, FiniteSetsExt

CONSTANT MaxFailures   \* bound: steps at which the environment fails a run

ASSUME FailuresAssumption == MaxFailures \in Nat

networkConfig == {"localhost", "hardhat", "sepolia"}
developmentChains == {"hardhat", "localhost"}

Contracts == {"GovernanceToken", "TimeLock", "GovernorContract",
              "StableCookie", "CookieStore"}

\* CookieStore calls public functions of OracleLib.  Its script names no
\* libraries, so that deploy() has no bytecode it could send.
Unlinked == {"CookieStore"}

VARIABLES
  network, etherscanKey, \* where the runs go; is ETHERSCAN_API_KEY set?
  chain,       \* contract -> the constructor arguments of its instances
  records,     \* contract -> the instance deployments/ names, 0 for none
  delegated,   \* token instances whose votes the deployer has delegated
  admins,      \* timelocks the deployer administers
  proposers,   \* pairs of a timelock and a governor that may propose to it
  openTo,      \* timelocks that let everyone execute
  verified,    \* contracts whose source the explorer shows
  tag, script, pc, \* the run: its tag, script number (0: none) and step
  sent,        \* the contract being deployed is on the chain, not on record
  wasSetUp,    \* history: the DAO was set up when the run started
  failures

chainVars == <<chain, delegated, admins, proposers, openTo>>
runVars == <<tag, script, pc, sent, wasSetUp>>
vars == <<network, etherscanKey, chainVars, records, verified, runVars, failures>>

-----------------------------------------------------------------------------
(* The scripts: their tags and their steps in order.  A step has a kind     *)
(* and the contracts it is about.                                           *)

Get(cs) == [do |-> "get", on |-> cs]           \* throws without a record
Deploy(c) == [do |-> "deploy", on |-> {c}]
Verify(c) == [do |-> "verify", on |-> {c}]     \* with the arguments of c
VerifyBare(c) == [do |-> "verify []", on |-> {c}]
Call(name) == [do |-> name, on |-> {}]

GovernorToken ==
  [tags |-> {"all", "governor"},
   steps |-> <<Deploy("GovernanceToken"), Verify("GovernanceToken"), Call("delegate")>>]

TimeLock ==
  [tags |-> {"all", "timelock"},
   steps |-> <<Deploy("TimeLock"), VerifyBare("TimeLock")>>]

GovernorContract ==
  [tags |-> {"all", "governor"},
   steps |-> <<Get({"GovernanceToken", "TimeLock"}),
               Deploy("GovernorContract"), Verify("GovernorContract")>>]

\* Mistake: the deployer gives up its role first.
SetupGovernance_RevokesFirst ==
  [tags |-> {"all", "setup"},
   steps |-> <<Get({"TimeLock", "GovernorContract"}), Call("revoke admin"),
               Call("grant proposer"), Call("grant executor")>>]

SetupGovernance ==
  [tags |-> {"all", "setup"},
   steps |-> <<Get({"TimeLock", "GovernorContract"}), Call("grant proposer"),
               Call("grant executor"), Call("revoke admin")>>]

StableCookieScript ==
  [tags |-> {"all", "stableCookie"},
   steps |-> <<Deploy("StableCookie"), Verify("StableCookie")>>]

CookieStoreScript ==
  [tags |-> {"all", "CookieStore"},
   steps |-> <<Get({"StableCookie", "GovernorContract"}), Deploy("CookieStore")>>]

Scripts == <<GovernorToken, TimeLock, GovernorContract, SetupGovernance,
             StableCookieScript, CookieStoreScript>>

AllTags == UNION {Scripts[n].tags : n \in 1..6}

-----------------------------------------------------------------------------
(* Where a run is *)

At(step) == script # 0 /\ Scripts[script].steps[pc] = step

\* The scripts of the run after the n-th.
Later(n, t) == {m \in (n + 1)..6 : t \in Scripts[m].tags}

NextScript(n, t) == IF Later(n, t) = {} THEN 0 ELSE Min(Later(n, t))

Throw == script' = 0 /\ pc' = 1

Proceed ==
  IF pc < Len(Scripts[script].steps)
  THEN pc' = pc + 1 /\ UNCHANGED script
  ELSE pc' = 1 /\ script' = NextScript(script, tag)

\* The constructor arguments the scripts give: the addresses are instances,
\* the rest are the settings of helper-hardhat-config.js.
ConstructorArgs(c) ==
  CASE c = "TimeLock" -> <<7200>>
    [] c = "GovernorContract" -> <<records["GovernanceToken"], records["TimeLock"], 2, 3, 1>>
    [] c = "CookieStore" -> <<records["StableCookie"]>>
    [] OTHER -> <<>>

\* The timelock on record belongs to the governor alone.
IsSetUp == records["TimeLock"] # 0 /\ records["TimeLock"] \notin admins

-----------------------------------------------------------------------------

Init ==
  /\ network \in networkConfig
  /\ etherscanKey \in BOOLEAN
  /\ chain = [c \in Contracts |-> <<>>]
  /\ records = [c \in Contracts |-> 0]
  /\ delegated = {} /\ admins = {} /\ proposers = {} /\ openTo = {}
  /\ verified = {}
  /\ tag = "all" /\ script = 0 /\ pc = 1 /\ sent = FALSE /\ wasSetUp = FALSE
  /\ failures = 0

\* Mistake: the records outlive the in-memory network they belong to.
StartRun_KeepsRecords(t) ==
  /\ script = 0
  /\ tag' = t
  /\ script' = NextScript(0, t)
  /\ pc' = 1
  /\ IF network = "hardhat"
     THEN /\ chain' = [c \in Contracts |-> <<>>]
          /\ delegated' = {} /\ admins' = {} /\ proposers' = {} /\ openTo' = {}
          /\ wasSetUp' = FALSE
     ELSE UNCHANGED chainVars /\ wasSetUp' = IsSetUp
  /\ UNCHANGED <<network, etherscanKey, records, verified, sent, failures>>

\* A run begins.  The in-memory network begins with it.
StartRun(t) ==
  /\ script = 0
  /\ tag' = t
  /\ script' = NextScript(0, t)
  /\ pc' = 1
  /\ IF network = "hardhat"
     THEN /\ chain' = [c \in Contracts |-> <<>>]
          /\ records' = [c \in Contracts |-> 0]
          /\ delegated' = {} /\ admins' = {} /\ proposers' = {} /\ openTo' = {}
          /\ wasSetUp' = FALSE
     ELSE /\ UNCHANGED <<chainVars, records>>
          /\ wasSetUp' = IsSetUp
  /\ UNCHANGED <<network, etherscanKey, verified, sent, failures>>

\* deployments.get and ethers.getContract
GetRecords(cs) ==
  /\ At(Get(cs))
  /\ IF \A c \in cs : records[c] # 0 THEN Proceed ELSE Throw
  /\ UNCHANGED <<network, etherscanKey, chainVars, records, verified, tag, sent,
                 wasSetUp, failures>>

\* Mistake: a contract on record stops the script.
Send_ThrowsOnRecord(c) ==
  /\ At(Deploy(c)) /\ c \notin Unlinked /\ ~sent
  /\ IF records[c] # 0
     THEN Throw /\ UNCHANGED <<chain, admins, sent>>
     ELSE /\ chain' = [chain EXCEPT ![c] = Append(@, ConstructorArgs(c))]
          /\ admins' = IF c = "TimeLock" THEN admins \union {Len(chain[c]) + 1} ELSE admins
          /\ sent' = TRUE
          /\ UNCHANGED <<script, pc>>
  /\ UNCHANGED <<network, etherscanKey, delegated, proposers, openTo, records,
                 verified, tag, wasSetUp, failures>>

\* Mistake: a run deploys its contracts anew, whatever is on record.
Send_Always(c) ==
  /\ At(Deploy(c)) /\ c \notin Unlinked /\ ~sent
  /\ Len(chain[c]) < 2
  /\ chain' = [chain EXCEPT ![c] = Append(@, ConstructorArgs(c))]
  /\ admins' = IF c = "TimeLock" THEN admins \union {Len(chain[c]) + 1} ELSE admins
  /\ sent' = TRUE
  /\ UNCHANGED <<network, etherscanKey, delegated, proposers, openTo, records,
                 verified, tag, script, pc, wasSetUp, failures>>

\* Mistake: a script has nothing left to do when its contract is on record.
Send_SkipsRest(c) ==
  /\ At(Deploy(c)) /\ c \notin Unlinked /\ ~sent
  /\ IF records[c] # 0
     THEN /\ pc' = 1 /\ script' = NextScript(script, tag)
          /\ UNCHANGED <<chain, admins, sent>>
     ELSE /\ chain' = [chain EXCEPT ![c] = Append(@, ConstructorArgs(c))]
          /\ admins' = IF c = "TimeLock" THEN admins \union {Len(chain[c]) + 1} ELSE admins
          /\ sent' = TRUE
          /\ UNCHANGED <<script, pc>>
  /\ UNCHANGED <<network, etherscanKey, delegated, proposers, openTo, records,
                 verified, tag, wasSetUp, failures>>

\* deploy(): a contract on record with these arguments is taken as it is, any
\* other is sent.  The timelock's constructor makes the deployer its admin.
Send(c) ==
  /\ At(Deploy(c)) /\ c \notin Unlinked /\ ~sent
  /\ IF records[c] # 0 /\ chain[c][records[c]] = ConstructorArgs(c)
     THEN Proceed /\ UNCHANGED <<chain, admins, sent>>
     ELSE /\ chain' = [chain EXCEPT ![c] = Append(@, ConstructorArgs(c))]
          /\ admins' = IF c = "TimeLock" THEN admins \union {Len(chain[c]) + 1} ELSE admins
          /\ sent' = TRUE
          /\ UNCHANGED <<script, pc>>
  /\ UNCHANGED <<network, etherscanKey, delegated, proposers, openTo, records,
                 verified, tag, wasSetUp, failures>>

\* deploy() of a contract that lacks a library throws: what follows in its
\* script, the verification and the roles of the store, is never reached.
DeployUnlinked(c) ==
  /\ At(Deploy(c)) /\ c \in Unlinked
  /\ Throw
  /\ UNCHANGED <<network, etherscanKey, chainVars, records, verified, tag, sent,
                 wasSetUp, failures>>

\* The confirmed contract goes on record.
Save(c) ==
  /\ At(Deploy(c)) /\ sent
  /\ records' = [records EXCEPT ![c] = Len(chain[c])]
  /\ sent' = FALSE
  /\ Proceed
  /\ UNCHANGED <<network, etherscanKey, chainVars, verified, tag, wasSetUp, failures>>

\* The explorer shows a source if the arguments given are those of the
\* contract.  The helper catches every error, so that the run goes on.
VerifySource(c) ==
  /\ \E step \in {Verify(c), VerifyBare(c)} :
       /\ At(step)
       /\ LET given == IF step = Verify(c) THEN ConstructorArgs(c) ELSE <<>>
              asked == network \notin developmentChains /\ etherscanKey
          IN  \/ /\ verified' = IF asked /\ given = chain[c][records[c]]
                                THEN verified \union {c} ELSE verified
                 /\ UNCHANGED failures
              \/ /\ asked /\ failures < MaxFailures
                 /\ failures' = failures + 1
                 /\ UNCHANGED verified
  /\ Proceed
  /\ UNCHANGED <<network, etherscanKey, chainVars, records, tag, sent, wasSetUp>>

\* The deployer, who holds the whole supply, delegates its votes to itself.
DelegateVotes ==
  /\ At(Call("delegate"))
  /\ delegated' = delegated \union {records["GovernanceToken"]}
  /\ Proceed
  /\ UNCHANGED <<network, etherscanKey, chain, admins, proposers, openTo, records,
                 verified, tag, sent, wasSetUp, failures>>

\* Mistake: a timelock that was handed over is passed by.
SetRole_PassesBy(name, newAdmins, newProposers, newOpenTo) ==
  /\ At(Call(name))
  /\ IF records["TimeLock"] \in admins
     THEN admins' = newAdmins /\ proposers' = newProposers /\ openTo' = newOpenTo
     ELSE UNCHANGED <<admins, proposers, openTo>>
  /\ Proceed
  /\ UNCHANGED <<network, etherscanKey, chain, delegated, records, verified, tag,
                 sent, wasSetUp, failures>>

\* The transactions of script 04, which the timelock takes from an admin only.
SetRole(name, newAdmins, newProposers, newOpenTo) ==
  /\ At(Call(name))
  /\ IF records["TimeLock"] \in admins
     THEN /\ admins' = newAdmins /\ proposers' = newProposers /\ openTo' = newOpenTo
          /\ Proceed
     ELSE Throw /\ UNCHANGED <<admins, proposers, openTo>>
  /\ UNCHANGED <<network, etherscanKey, chain, delegated, records, verified, tag,
                 sent, wasSetUp, failures>>

\* Mistake: the script keeps the address of an earlier governor.
GrantProposer_First ==
  SetRole("grant proposer", admins, proposers \union {<<records["TimeLock"], 1>>}, openTo)

GrantProposer ==
  SetRole("grant proposer", admins,
          proposers \union {<<records["TimeLock"], records["GovernorContract"]>>}, openTo)

GrantExecutor ==
  SetRole("grant executor", admins, proposers, openTo \union {records["TimeLock"]})

RevokeAdmin ==
  SetRole("revoke admin", admins \ {records["TimeLock"]}, proposers, openTo)

\* A node that does not answer or a process that dies ends the run.  A contract
\* that was sent is on record afterwards, or is not.
Fail ==
  /\ script # 0
  /\ failures < MaxFailures
  /\ failures' = failures + 1
  /\ Throw
  /\ sent' = FALSE
  /\ \/ UNCHANGED records
     \/ /\ sent
        /\ \E c \in Scripts[script].steps[pc].on :
             records' = [records EXCEPT ![c] = Len(chain[c])]
  /\ UNCHANGED <<network, etherscanKey, chainVars, verified, tag, wasSetUp>>

RunStep ==
  \/ \E cs \in SUBSET Contracts : GetRecords(cs)
  \/ \E c \in Contracts : Send(c) \/ DeployUnlinked(c) \/ Save(c) \/ VerifySource(c)
  \/ DelegateVotes \/ GrantProposer \/ GrantExecutor \/ RevokeAdmin

Next == RunStep \/ Fail \/ \E t \in AllTags : StartRun(t)

\* A script awaits its calls: each returns or throws.
Spec == Init /\ [][Next]_vars /\ WF_vars(RunStep)

-----------------------------------------------------------------------------
(* Properties *)

\* Types of the chain, the records and the run; what is on record is deployed.
TypeOK ==
  /\ network \in networkConfig /\ etherscanKey \in BOOLEAN
  /\ chain \in [Contracts -> Seq(Seq(Nat))]
  /\ \A c \in Contracts : records[c] \in 0..Len(chain[c])
  /\ DOMAIN records = Contracts
  /\ \A i \in delegated : i \in DOMAIN chain["GovernanceToken"]
  /\ admins \union openTo \subseteq DOMAIN chain["TimeLock"]
  /\ proposers \subseteq (DOMAIN chain["TimeLock"]) \X (DOMAIN chain["GovernorContract"])
  /\ verified \subseteq Contracts
  /\ tag \in AllTags /\ script \in 0..6 /\ pc \in 1..4
  /\ script # 0 => pc <= Len(Scripts[script].steps)
  /\ sent \in BOOLEAN /\ wasSetUp \in BOOLEAN
  /\ failures \in 0..MaxFailures

\* Wherever a run of 04-setup-governance-contracts.js stops, the timelock on
\* record can still be administered by the deployer, or it takes proposals of
\* the governor on record and lets everyone execute them.
NeverLockedOut ==
  LET timelock == records["TimeLock"] IN
  timelock # 0 /\ timelock \notin admins =>
    /\ <<timelock, records["GovernorContract"]>> \in proposers
    /\ timelock \in openTo

\* A governor votes with a token whose votes 01-deploy-governor-token.js has
\* delegated: without delegation nobody could ever propose or reach the quorum.
GovernorHasVoters ==
  \A i \in DOMAIN chain["GovernorContract"] :
    chain["GovernorContract"][i][1] \in delegated

\* The contracts on record belong together, however many lost instances there
\* are: the governor uses the token and the timelock on record, and only the
\* governor on record proposes to the timelock.
WiredTogether ==
  /\ \A c \in Contracts :
       records[c] # 0 => chain[c][records[c]] = ConstructorArgs(c)
  /\ proposers \subseteq {<<records["TimeLock"], records["GovernorContract"]>>}

\* Once a contract is on record on a chain that stays, no run replaces it.
RecordsStay ==
  [][network # "hardhat" =>
       \A c \in Contracts : records[c] # 0 => records'[c] = records[c]]_vars

\* A run without --tags that starts when the timelock has been handed over ends
\* in 04-setup-governance-contracts.js: it does not put the stablecoin on record.
AllStopsAtSetup ==
  [][tag = "all" /\ wasSetUp =>
       records'["StableCookie"] = records["StableCookie"]]_vars

\* The operator goes on to give the command of every part.
RepeatsEveryPart == \A t \in AllTags : []<><<StartRun(t)>>_vars

\* An operator who repeats the command of every part gets everything but the
\* store deployed in the end and the timelock handed over, in whatever order it
\* works, if failures end; the explorer then shows the contracts it was given
\* the arguments of.  The store stays undeployed, whatever is repeated.
DeploymentFinishes ==
  RepeatsEveryPart =>
    <>[](network # "hardhat" =>
           /\ \A c \in Contracts : records[c] # 0 <=> c \notin Unlinked
           /\ IsSetUp
           /\ network = "sepolia" /\ etherscanKey =>
                verified = {"GovernanceToken", "GovernorContract", "StableCookie"})
=============================================================================
