---------------------------------- MODULE Demo ----------------------------------
(***************************************************************************)
(* The one-command demo (scripts/demo.mjs and the launcher it runs,        *)
(* examples/marketplace/start-audit.ts) around the dashboard it starts: a  *)
(* sequence of steps on a host where an earlier run may have left its      *)
(* token, its session, its feed and an open tab.  Any step may fail, and   *)
(* the operator may stop the script between two of them.                   *)
(***************************************************************************)
EXTENDS Dashboard

CONSTANTS
  Envs,       \* the settings tried: [wallets, llm, settlement, arbiterKey, lsof]
  MaxRuns

DemoAssumption ==
  /\ MaxRuns \in Nat /\ MaxSessions \in Nat /\ ScriptAssumption
  /\ Envs \subseteq [wallets : BOOLEAN, llm : BOOLEAN, arbiterKey : BOOLEAN, lsof : BOOLEAN,
                     settlement : {"unset", "direct", "arbiter"}]

VARIABLES
  env,        \* .env, and whether the host has lsof
  demo,       \* the script: [at, run, session]
  token,      \* the nonce the target shows, 0 before the first
  auditNonce  \* session -> the nonce its buyer was given, 0 for the starter's

demoVars == <<env, demo, token, auditNonce>>

Over == {"none", "done", "died"}
-------------------------------------------------------------------------------
DemoInit ==
  /\ DashboardInit
  /\ env \in Envs
  /\ demo = [at |-> "none", run |-> 0, session |-> 0]
  /\ token = 0 /\ auditNonce = [s \in Sessions |-> 0]

\* execSync throws, a wait is over in vain, or the operator gives up.
die == /\ demo.at \notin Over /\ demo' = [demo EXCEPT !.at = "died"]
       /\ UNCHANGED <<env, token, auditNonce, dashboardVars>>

goesTo(before, after) == demo.at = before /\ demo' = [demo EXCEPT !.at = after]

\* What the preflight lets pass.  Without a mode it expects no arbiter.
preflight ==
  /\ env.wallets /\ env.llm
  /\ env.settlement = "arbiter" => env.arbiterKey

Begin ==
  /\ demo.at \in Over /\ demo.run < MaxRuns
  /\ demo' = [at |-> IF preflight THEN "bootstrap" ELSE "died", run |-> demo.run + 1,
              session |-> 0]
  /\ UNCHANGED <<env, token, auditNonce, dashboardVars>>

\* Dependencies, the engine and coral's address, all of which are kept.
Bootstrap ==
  /\ goesTo("bootstrap", "token")
  /\ UNCHANGED <<env, token, auditNonce, dashboardVars>>

\* A variant that keeps the token it finds.
PublishTokenOnce ==
  /\ goesTo("token", "stack") /\ token' = IF token = 0 THEN demo.run ELSE token
  /\ UNCHANGED <<env, auditNonce, dashboardVars>>

\* write-token.mjs: a nonce of its own for every run, over the one before.
PublishToken ==
  /\ goesTo("token", "stack") /\ token' = demo.run
  /\ UNCHANGED <<env, auditNonce, dashboardVars>>

\* Coral and the target, the broker, the web and the images.  All that stays;
\* a broker or a web that does not come up is only warned of.
StackUp ==
  /\ goesTo("stack", "coral")
  /\ UNCHANGED <<env, token, auditNonce, dashboardVars>>

\* Coral's sessions end with it.  A restart that fails is passed over.
RestartCoral ==
  /\ goesTo("coral", "launch")
  /\ live' \in {{}, live}
  /\ UNCHANGED <<env, token, auditNonce, created, log, feed, tabVars>>

\* start-audit.ts: without a mode it wants the arbiter's key.
launchable == env.wallets /\ (env.settlement # "direct" => env.arbiterKey)

LaunchSession ==
  /\ demo.at = "launch" /\ launchable
  /\ CreateSession
  /\ auditNonce' = [auditNonce EXCEPT ![created'] = token]
  /\ demo' = [demo EXCEPT !.at = "feed", !.session = created']
  /\ UNCHANGED <<env, token, feed, tabVars>>

\* Without lsof a feed that is there already keeps the port, and the new one
\* cannot have it.  With lsof every process that has a socket on the port is
\* killed, which may be the browser.  A feed that does not start is passed over:
\* its error is dropped and the wait for it is not looked at.
PinFeed ==
  /\ goesTo("feed", "done")
  /\ IF feed.up /\ ~ env.lsof THEN UNCHANGED <<feed, tab, polls, starting>>
     ELSE /\ feed' \in {[up |-> TRUE, session |-> demo.session], [up |-> FALSE, session |-> 0]}
          /\ polls' = [i \in Slots |-> IF polls[i].at = Unanswered THEN [polls[i] EXCEPT !.at = Failed]
                                       ELSE polls[i]]
          /\ starting' = IF starting = "spawned" THEN "late" ELSE starting
          /\ \/ UNCHANGED tab
             \/ feed.up /\ tab' = [tab EXCEPT !.open = FALSE, !.session = 0, !.pinned = 0,
                                              !.shown = <<0, 0>>, !.connected = FALSE]
  /\ UNCHANGED <<env, token, auditNonce, coralVars, clicks>>

\* The operator completes .env between two runs.
Configure ==
  /\ demo.at = "died"
  /\ env' = [env EXCEPT !.wallets = TRUE, !.llm = TRUE, !.arbiterKey = TRUE] /\ env' # env
  /\ UNCHANGED <<demo, token, auditNonce, dashboardVars>>

DemoNext ==
  \/ Begin \/ Bootstrap \/ PublishToken \/ StackUp
  \/ RestartCoral \/ LaunchSession \/ PinFeed \/ die \/ Configure
  \/ DashboardNext /\ UNCHANGED demoVars
-------------------------------------------------------------------------------
\* When the script says that AuditMesh is live, the session it launched runs
\* and is the only one whose buyer's nonce is the token at the target, so no
\* session that a failed restart left behind can have its consent verified; and
\* the feed, if it answers, is pinned to that session wherever lsof could clear
\* the port (demo.mjs:150-201).
DoneMeansOneLiveMarket ==
  demo.at = "done" =>
    /\ {s \in live : auditNonce[s] = token} = {demo.session}
    /\ feed.up /\ env.lsof => feed.session = demo.session

\* What demo.mjs:179 says of the restart of coral: "a clean slate - restart
\* coral so no prior session lingers".
NoPriorSessionLingers ==
  demo.at = "done" => \A s \in live : auditNonce[s] # 0 => s = demo.session
===============================================================================
