------------------------------ MODULE Delivery ------------------------------
(***************************************************************************)
(* The delivery of an audit (packages/audit-service) once its escrow is    *)
(* funded.  runAudit verifies the authorization again, then replays a      *)
(* stored report (`prebaked`), or has the scan done by the host's broker   *)
(* (scripts/scan-broker.mjs), or runs Strix itself.  On the way it posts   *)
(* progress events to the market's thread; only that these calls may fail  *)
(* is modelled here, not what the events show.                             *)
(*                                                                         *)
(* Each seller delivers one deal at a time; the sellers run concurrently   *)
(* and share the broker.  A Strix run leaves its findings in a new         *)
(* directory under the strix_runs of its host, and runStrix finds out      *)
(* which one by comparing the directories before and after.                *)
(***************************************************************************)
EXTENDS Naturals, Sequences, Functions

CONSTANTS
  Sellers,
  Paths,     \* the report sources a seller may be configured with
  Broker,    \* the host of the scan broker
  MaxAudits, \* bound of the deals that are delivered
  Failure,   \* Strix did not spawn, ran out of time or left no directory
  None

ASSUME DeliveryAssumption ==
  /\ Broker \notin Sellers
  /\ Paths \subseteq {"prebaked", "broker", "strix"}
  /\ MaxAudits \in Nat
  /\ None \notin Sellers
  /\ {None, Failure} \cap Nat = {} /\ None # Failure

Audits == 1 .. MaxAudits
Hosts  == Sellers \cup {Broker}

VARIABLES
  path,     \* the report source of each seller
  by,       \* the seller that delivers a deal
  at,       \* where runAudit is
  outcome,  \* how the audit ended
  found,    \* the scan the report's findings come from
  request,  \* the call of the broker for a deal
  busy,     \* the broker's flag
  child,    \* the Strix process of a deal
  before,   \* the run directories its runStrix saw at first
  result,   \* what its runStrix resolved to: a run directory or a failure
  dirs,     \* the run directories of each host, oldest first; each is named
            \* by the deal whose scan made it
  written   \* the run directory of each host with the newest mtime

brokerVars == <<request, busy>>
dirVars    == <<dirs, written>>
strixVars  == <<child, before, result, dirVars>>
auditVars  == <<path, by, at, outcome, found>>
vars == <<auditVars, brokerVars, strixVars>>

TypeOK ==
  /\ path \in [Sellers -> Paths]
  /\ by \in [Audits -> Sellers \cup {None}]
  /\ at \in [Audits -> {"idle", "opening", "fetching", "scanning", "closing",
                        "erring", "catching", "over"}]
  /\ outcome \in [Audits -> {"none", "report", "refused", "failed", "thrown", "lost"}]
  /\ found \in [Audits -> Audits \cup {None}]
  /\ request \in [Audits -> {"none", "posted", "admitted", "scanning", "answered",
                             "refused", "error", "gone"}]
  /\ busy \in BOOLEAN
  /\ child \in [Audits -> {"none", "running", "closed", "killed", "reaped"}]
  /\ before \in [Audits -> SUBSET Audits]
  /\ result \in [Audits -> Audits \cup {None, Failure}]
  /\ dirs \in [Hosts -> Seq(Audits)]
  /\ written \in [Hosts -> Audits \cup {None}]

Init ==
  /\ path \in [Sellers -> Paths]
  /\ by = [a \in Audits |-> None]
  /\ at = [a \in Audits |-> "idle"]
  /\ outcome = [a \in Audits |-> "none"]
  /\ found = [a \in Audits |-> None]
  /\ request = [a \in Audits |-> "none"]
  /\ busy = FALSE
  /\ child = [a \in Audits |-> "none"]
  /\ before = [a \in Audits |-> {}]
  /\ result = [a \in Audits |-> None]
  /\ dirs = [h \in Hosts |-> <<>>]
  /\ written = [h \in Hosts |-> None]

PathOf(a) == path[by[a]]

\* The scans of the broker share its host; a seller's own run on the seller's.
HostOf(a) == IF PathOf(a) = "broker" THEN Broker ELSE by[a]

InProgress(a) == at[a] \notin {"idle", "over"}
Succeeded(a)  == result[a] \in Audits
-----------------------------------------------------------------------------
(***************************************************************************)
(* The Strix subprocess.                                                   *)
(***************************************************************************)
\* runStrix lists the run directories and spawns Strix, which may fail.
StartStrix(a) ==
  /\ before' = [before EXCEPT ![a] = Range(dirs[HostOf(a)])]
  /\ \/ child' = [child EXCEPT ![a] = "running"] /\ UNCHANGED result
     \/ result' = [result EXCEPT ![a] = Failure] /\ UNCHANGED child
  /\ UNCHANGED dirVars

\* Strix makes its directory, if it gets that far.
MakeRunDir(a) ==
  /\ child[a] = "running"
  /\ a \notin Range(dirs[HostOf(a)])
  /\ dirs' = [dirs EXCEPT ![HostOf(a)] = Append(@, a)]
  /\ written' = [written EXCEPT ![HostOf(a)] = a]
  /\ UNCHANGED <<auditVars, brokerVars, child, before, result>>

\* It writes into the directory while it runs, and until it is gone when killed.
WriteRunDir(a) ==
  /\ child[a] \in {"running", "killed"}
  /\ a \in Range(dirs[HostOf(a)])
  /\ written' = [written EXCEPT ![HostOf(a)] = a]
  /\ UNCHANGED <<auditVars, brokerVars, child, before, result, dirs>>

\* A variant that kills the run and leaves the answer to its closing.
TimeoutOnlyKills(a) ==
  /\ child[a] = "running"
  /\ child' = [child EXCEPT ![a] = "killed"]
  /\ UNCHANGED <<auditVars, brokerVars, before, result, dirVars>>

\* The hard limit of a run.
Timeout(a) ==
  /\ child[a] = "running"
  /\ child' = [child EXCEPT ![a] = "killed"]
  /\ result' = [result EXCEPT ![a] = Failure]
  /\ UNCHANGED <<auditVars, brokerVars, before, dirVars>>

\* A variant that takes the newest of all directories.
RunDirsOfAll(a) ==
  IF dirs[HostOf(a)] # <<>> THEN {written[HostOf(a)]} ELSE {Failure}

\* Which directory runStrix takes: the newest (by name, that is by its time)
\* of those that are new, or else the newest (by mtime) of all.
RunDirs(a) ==
  LET all   == dirs[HostOf(a)]
      fresh == {n \in DOMAIN all : all[n] \notin before[a]}
  IN  IF fresh # {} THEN {all[n] : n \in {n \in fresh : \A m \in fresh : m <= n}}
      ELSE IF all # <<>> THEN {written[HostOf(a)]}
      ELSE {Failure}

Closed(a) == IF child[a] = "killed" THEN "reaped" ELSE "closed"

\* A variant that answers a second time.
CloseUnsettled(a) ==
  /\ child[a] \in {"running", "killed"}
  /\ child' = [child EXCEPT ![a] = Closed(a)]
  /\ \E d \in RunDirs(a) : result' = [result EXCEPT ![a] = d]
  /\ UNCHANGED <<auditVars, brokerVars, before, dirVars>>

\* The process has closed, by itself or for being killed.  `done` keeps the
\* first answer.
Close(a) ==
  /\ child[a] \in {"running", "killed"}
  /\ child' = [child EXCEPT ![a] = Closed(a)]
  /\ IF result[a] = None
     THEN \E d \in RunDirs(a) : result' = [result EXCEPT ![a] = d]
     ELSE UNCHANGED result
  /\ UNCHANGED <<auditVars, brokerVars, before, dirVars>>
-----------------------------------------------------------------------------
(***************************************************************************)
(* runAudit.  The events that precede its next call are posted with the    *)
(* step that makes it.                                                     *)
(***************************************************************************)
GoOn(a, place) == at' = [at EXCEPT ![a] = place]

End(a, how) ==
  /\ at' = [at EXCEPT ![a] = "over"]
  /\ outcome' = [outcome EXCEPT ![a] = how]

Start(a, s) ==
  /\ at[a] = "idle"
  /\ \A b \in Audits : b < a => at[b] # "idle"     \* deals are numbered as they begin
  /\ \A b \in Audits : by[b] = s => ~ InProgress(b)
  /\ by' = [by EXCEPT ![a] = s]
  /\ \/ End(a, "refused")                          \* consent
     \/ path[s] = "strix" /\ End(a, "failed")      \* staging the instruction
     \/ GoOn(a, "opening") /\ UNCHANGED outcome
  /\ UNCHANGED <<path, found, brokerVars, strixVars>>

\* An awaited event cannot be posted: its call throws.  Only the part of the
\* broker path after the opening events is in a `try`, which takes any failure
\* for that of the broker and posts one more event.
EmitFails(a) ==
  /\ at[a] \in {"opening", "closing", "erring", "catching"}
  /\ IF PathOf(a) = "broker" /\ at[a] \in {"closing", "erring"}
     THEN GoOn(a, "catching") /\ UNCHANGED outcome
     ELSE End(a, "thrown")
  /\ UNCHANGED <<path, by, found, brokerVars, strixVars>>

LoadPrebaked(a) ==
  /\ at[a] = "opening" /\ PathOf(a) = "prebaked"
  /\ GoOn(a, "closing") \/ GoOn(a, "erring")
  /\ UNCHANGED <<path, by, outcome, found, brokerVars, strixVars>>

Post(a) ==
  /\ at[a] = "opening" /\ PathOf(a) = "broker"
  /\ GoOn(a, "fetching")
  /\ request' = [request EXCEPT ![a] = "posted"]
  /\ UNCHANGED <<path, by, outcome, found, busy, strixVars>>

Receive(a) ==
  /\ at[a] = "fetching"
  /\ \/ /\ request[a] = "answered"
        /\ found' = [found EXCEPT ![a] = result[a]]
        /\ GoOn(a, "closing")
     \/ /\ request[a] \in {"refused", "error"}
        /\ GoOn(a, "erring")
        /\ UNCHANGED found
  /\ UNCHANGED <<path, by, outcome, brokerVars, strixVars>>

\* The broker cannot be reached, or the call is given up while the broker goes
\* on with it, or its answer is lost.
GiveUp(a) ==
  /\ at[a] = "fetching"
  /\ \/ request[a] = "posted" /\ request' = [request EXCEPT ![a] = "gone"]
     \/ UNCHANGED request
  /\ GoOn(a, "catching")
  /\ UNCHANGED <<path, by, outcome, found, busy, strixVars>>

\* A spawn that throws at once escapes from runStrix: its `done` reaches for a
\* timer that is not set up yet.
Spawn(a) ==
  /\ at[a] = "opening" /\ PathOf(a) = "strix"
  /\ \/ StartStrix(a) /\ GoOn(a, "scanning") /\ UNCHANGED outcome
     \/ End(a, "thrown") /\ UNCHANGED strixVars
  /\ UNCHANGED <<path, by, found, brokerVars>>

TakeResult(a) ==
  /\ at[a] = "scanning"
  /\ \/ /\ Succeeded(a)
        /\ found' = [found EXCEPT ![a] = result[a]]
        /\ GoOn(a, "closing")
     \/ /\ result[a] = Failure
        /\ GoOn(a, "erring")
        /\ UNCHANGED found
  /\ UNCHANGED <<path, by, outcome, brokerVars, strixVars>>

Finish(a) ==
  /\ at[a] \in {"closing", "erring", "catching"}
  /\ End(a, IF at[a] = "closing" THEN "report" ELSE "failed")
  /\ UNCHANGED <<path, by, found, brokerVars, strixVars>>

\* The seller's process ends during an audit: the heartbeat and the events of a
\* run's first line are not awaited, and when one of them fails nobody handles
\* the rejection.  Its own Strix run ends with it; a new process may find the
\* old run directories or not.
SellerDies(s) ==
  /\ \E a \in Audits :
       /\ by[a] = s /\ at[a] \in {"fetching", "scanning"}
       /\ End(a, "lost")
       /\ child' = IF path[s] = "strix" /\ child[a] # "none"
                   THEN [child EXCEPT ![a] = "closed"] ELSE child
  /\ \/ UNCHANGED dirVars
     \/ /\ dirs' = [dirs EXCEPT ![s] = <<>>]
        /\ written' = [written EXCEPT ![s] = None]
  /\ UNCHANGED <<path, by, found, brokerVars, before, result>>
-----------------------------------------------------------------------------
(***************************************************************************)
(* The scan broker.                                                        *)
(***************************************************************************)
\* A request arrives: it is refused while the broker is busy.
Admit(a) ==
  /\ request[a] = "posted"
  /\ request' = [request EXCEPT ![a] = IF busy THEN "refused" ELSE "admitted"]
  /\ UNCHANGED <<auditVars, busy, strixVars>>

\* Its body has been read: the scan begins.
Begin(a) ==
  /\ request[a] = "admitted"
  /\ request' = [request EXCEPT ![a] = "scanning"]
  /\ busy' = TRUE
  /\ StartStrix(a)
  /\ UNCHANGED auditVars

\* A variant that frees the broker only after a scan that succeeded.
AnswerWithoutFinally(a) ==
  /\ request[a] = "scanning"
  /\ result[a] # None
  /\ request' = [request EXCEPT ![a] = IF Succeeded(a) THEN "answered" ELSE "error"]
  /\ busy' = ~ Succeeded(a)
  /\ UNCHANGED <<auditVars, strixVars>>

Answer(a) ==
  /\ request[a] = "scanning"
  /\ result[a] # None
  /\ request' = [request EXCEPT ![a] = IF Succeeded(a) THEN "answered" ELSE "error"]
  /\ busy' = FALSE
  /\ UNCHANGED <<auditVars, strixVars>>
-----------------------------------------------------------------------------
SellerStep(a) ==
  \/ EmitFails(a) \/ LoadPrebaked(a) \/ Post(a) \/ Receive(a)
  \/ Spawn(a) \/ TakeResult(a) \/ Finish(a)

BrokerStep(a) == Admit(a) \/ Begin(a) \/ Answer(a)

Next ==
  \/ \E a \in Audits, s \in Sellers : Start(a, s)
  \/ \E s \in Sellers : SellerDies(s)
  \/ \E a \in Audits :
       \/ SellerStep(a) \/ BrokerStep(a) \/ GiveUp(a)
       \/ MakeRunDir(a) \/ WriteRunDir(a) \/ Timeout(a) \/ Close(a)

Spec == Init /\ [][Next]_vars

\* The processes keep running, and the timer of a run fires unless it closes.
\* Neither the closing of a process nor the end of a call without an answer is
\* taken for granted.
FairSpec ==
  /\ Spec
  /\ \A a \in Audits :
       WF_vars(SellerStep(a)) /\ WF_vars(BrokerStep(a)) /\ WF_vars(Timeout(a))
-----------------------------------------------------------------------------
(***************************************************************************)
(* Properties.                                                             *)
(***************************************************************************)
\* The broker's flag is never left behind: while it refuses requests a scan it
\* admitted is in progress, also when two got past the flag at once.
BusyMeansScanning == busy => \E a \in Audits : request[a] = "scanning"

\* A report's findings come from a scan on the host that was asked to scan,
\* and, unless that was the deal's own, either the deal's own run left no
\* directory or another run of the host overlapped it.
StrangeFindingsExplained ==
  \A a \in Audits : found[a] \notin {None, a} =>
    /\ HostOf(found[a]) = HostOf(a)
    /\ a \in Range(dirs[HostOf(a)]) => found[a] \notin before[a]

\* A report with findings is of a process that closed by itself: a run that its
\* timer killed is never delivered after all, whether it closes before or after
\* seller and broker have acted on the failure, and however much of a report it
\* has left in its directory.
FindingsOfFinishedRuns ==
  \A a \in Audits : found[a] # None => child[a] = "closed"

\* Every audit that begins comes to an end, by a report, a refusal, a failure
\* or an exception: neither a run that hangs nor a scan that was refused leaves
\* a seller waiting for ever.
AuditEnds == \A a \in Audits : InProgress(a) ~> at[a] = "over"

\* The broker does not stay closed: whatever the caller does meanwhile, the
\* requests of other sellers are let in again.
BrokerFrees == busy ~> ~ busy

\* What the broker's header says of the scan it runs for a deal: it matches the
\* deal.  So the findings of a live report are those of the deal's own scan.
ScanMatchesDeal ==
  \A a \in Audits : outcome[a] = "report" => found[a] \in {None, a}
=============================================================================
