------------------------------- MODULE Dashboard -------------------------------
(***************************************************************************)
(* The marketplace's dashboard: a browser tab that polls the feed server   *)
(* for a session's rounds and shows them in several views                  *)
(* (examples/marketplace/feed/src/server.ts and web/src).  A poll is sent  *)
(* every second whether the one before was answered or not, and an answer  *)
(* is shown whichever session the tab has chosen since.                    *)
(*                                                                         *)
(* Sessions are numbered as coral creates them, 0 is none; Script[s] is    *)
(* what is said in s, in parts, of which log[s] were said so far.          *)
(***************************************************************************)
EXTENDS Integers, Sequences, SequencesExt, FiniteSetsExt

CONSTANTS Rounds, Nobody, Script, Slots, MaxClicks

MaxSessions == Len(Script)
Sessions == 1 .. MaxSessions

Feed == INSTANCE Feed

VARIABLES
  created, live, log,      \* coral
  feed,                    \* the server on :4000: [up, session]
  tab,                     \* the browser: [open, session, pinned, connected, shown]
  polls,                   \* slot -> a request under way
  starting,                \* POST /api/start: "no", "spawned" or "late"
  clicks

coralVars == <<created, live, log>>
tabVars == <<tab, polls, starting, clicks>>
dashboardVars == <<coralVars, feed, tabVars>>

\* What a session's agents said after k parts.
Transcript(s, k) == Feed!collectMessages(SubSeq(Script[s], 1, k))

\* Who is awarded did bid, and who asks for a deposit asks for what the awarded
\* seller bid (audit-seller/src/index.ts:85-112, `quoted`).
ScriptAssumption ==
  LET Said == UNION {Range(part) : part \in UNION {Range(Script[s]) : s \in Sessions}}
      Bid(b, round, by) == b.verb = "BID" /\ b.round = round /\ b.by = by
  IN
  /\ Rounds \subseteq Nat /\ Script \in Seq(Seq(Seq(Said)))
  /\ \A m \in Said : m.round \in Rounds /\ (m.verb = "BID" => m.by # Nobody)
  /\ \A s \in Sessions : \A k \in 0 .. Len(Script[s]) :
       LET said == Range(Transcript(s, k)) IN
       /\ \A a \in said : a.verb = "AWARD" => \E b \in said : Bid(b, a.round, a.to)
       /\ \A e \in said : e.verb = "ESCROW_REQUIRED" =>
            \E a, b \in said : /\ a.verb = "AWARD" /\ a.round = e.round
                              /\ Bid(b, e.round, a.to) /\ b.price = e.price

Idle == [session |-> 0, at |-> -3]
Unanswered == -1
Failed == -2

\* What the rounds that the tab shows are folded from.
Messages == IF tab.shown[1] = 0 THEN <<>> ELSE Transcript(tab.shown[1], tab.shown[2])
Listed == {m.round : m \in Range(Messages)}
rounds == LET all == Feed!foldRounds(Messages) IN [n \in Listed |-> all[n]]

\* App: the pinned round while it is listed, else the newest.
focusedNum == IF tab.pinned \in Listed THEN tab.pinned ELSE Max(Listed)
following == tab.pinned \notin Listed \/ focusedNum = Max(Listed)
-------------------------------------------------------------------------------
DashboardInit ==
  /\ created = 0 /\ live = {} /\ log = [s \in Sessions |-> 0]
  /\ feed = [up |-> FALSE, session |-> 0]
  /\ tab = [open |-> FALSE, session |-> 0, pinned |-> 0, connected |-> FALSE, shown |-> <<0, 0>>]
  /\ polls = [i \in Slots |-> Idle]
  /\ starting = "no" /\ clicks = 0

\* The agents of a session speak.
Say(s) ==
  /\ s \in live /\ log[s] < Len(Script[s])
  /\ log' = [log EXCEPT ![s] = @ + 1]
  /\ UNCHANGED <<created, live, feed, tabVars>>

CreateSession ==
  /\ created < MaxSessions
  /\ created' = created + 1 /\ live' = live \cup {created'}
  /\ UNCHANGED log

Open ==
  /\ ~ tab.open /\ tab' = [tab EXCEPT !.open = TRUE]
  /\ UNCHANGED <<coralVars, feed, polls, starting, clicks>>

\* fetchDefaultSession, until there is a session: the one the feed serves.
Bind ==
  /\ tab.open /\ tab.session = 0 /\ feed.up /\ feed.session # 0
  /\ tab' = [tab EXCEPT !.session = feed.session]
  /\ UNCHANGED <<coralVars, feed, polls, starting, clicks>>

\* A variant that asks once for each session it is given.
PollOnce(i) ==
  /\ tab.open /\ polls[i] = Idle
  /\ tab.shown[1] # tab.session
  /\ polls' = [polls EXCEPT ![i] = [session |-> tab.session, at |-> Unanswered]]
  /\ UNCHANGED <<coralVars, feed, tab, starting, clicks>>

\* useFeed, tick: for the session chosen at that moment.
Poll(i) ==
  /\ tab.open /\ polls[i] = Idle
  /\ polls' = [polls EXCEPT ![i] = [session |-> tab.session, at |-> Unanswered]]
  /\ UNCHANGED <<coralVars, feed, tab, starting, clicks>>

\* GET /api/feed: the transcript as it is when coral is asked, or an error.
Serve(i) ==
  LET s == IF polls[i].session # 0 THEN polls[i].session ELSE feed.session IN
  /\ polls[i].at = Unanswered
  /\ polls' = [polls EXCEPT ![i] =
       IF feed.up /\ s \in live THEN [session |-> s, at |-> log[s]]
       ELSE [session |-> s, at |-> Failed]]
  /\ UNCHANGED <<coralVars, feed, tab, starting, clicks>>

\* The answers come in any order.  An error leaves the rounds on the screen.
Shown(i) ==
  /\ polls[i].at \notin {Unanswered, Idle.at}
  /\ tab' = IF polls[i].at = Failed THEN [tab EXCEPT !.connected = FALSE]
            ELSE [tab EXCEPT !.connected = TRUE, !.shown = <<polls[i].session, polls[i].at>>]
  /\ polls' = [polls EXCEPT ![i] = Idle]
  /\ UNCHANGED <<coralVars, feed, starting, clicks>>

\* The user types a session id, or clicks a round of the rail: the newest one
\* is followed rather than pinned.
Pick ==
  /\ tab.open /\ clicks < MaxClicks /\ clicks' = clicks + 1
  /\ \/ \E s \in 0 .. created : tab' = [tab EXCEPT !.session = s]
     \/ \E r \in Listed : tab' = [tab EXCEPT !.pinned = IF r = Max(Listed) THEN 0 ELSE r]
  /\ UNCHANGED <<coralVars, feed, polls, starting>>

\* POST /api/start runs the starter market's launcher.
Start ==
  /\ tab.open /\ feed.up /\ starting = "no" /\ clicks < MaxClicks /\ clicks' = clicks + 1
  /\ starting' = "spawned"
  /\ UNCHANGED <<coralVars, feed, tab, polls>>

\* The tab turns to the session it started.
onStart(s) == [tab EXCEPT !.session = s, !.pinned = 0]

\* The launcher printed its session; after a time-out nobody listens.
Launched ==
  /\ starting # "no" /\ CreateSession
  /\ tab' = IF starting = "spawned" THEN onStart(created') ELSE tab
  /\ starting' = "no"
  /\ UNCHANGED <<feed, polls, clicks>>

\* 504 after thirty seconds, with the launcher still at work; or its exit.
StartFails ==
  /\ \/ starting = "spawned" /\ starting' = "late"
     \/ starting # "no" /\ starting' = "no"
  /\ UNCHANGED <<coralVars, feed, tab, polls, clicks>>

DashboardNext ==
  \/ Open \/ Bind \/ Pick \/ Start \/ Launched \/ StartFails
  \/ \E s \in Sessions : Say(s)
  \/ \E i \in Slots : Poll(i) \/ Serve(i) \/ Shown(i)

\* The timer of the tab ticks, the server answers, and answers arrive.
DashboardFairness ==
  /\ WF_tabVars(Open) /\ WF_tabVars(Bind)
  /\ \A i \in Slots : WF_tabVars(Poll(i)) /\ WF_tabVars(Serve(i)) /\ WF_tabVars(Shown(i))
-------------------------------------------------------------------------------
(***************************************************************************)
(* The views of the rounds that are shown.                                 *)
(***************************************************************************)
\* DealPipeline, buildNodes: the furthest node that is reached, and the
\* terminal one that follows.  A rejected consent stops at the award.
reachedIdx(r) ==
  LET conds == <<TRUE, r.bids # Feed!NoBids, r.award # Nobody, r.authz = "verified",
                 r.deposits > 0, r.delivered, r.released>>
      furthest == Max({i \in DOMAIN conds : conds[i]})
  IN  IF r.authz = "rejected" THEN Min({furthest, 3}) ELSE furthest

terminal(r) == IF r.authz = "rejected" THEN "REJECTED"
               ELSE IF r.refunded \/ r.status = "refunded" THEN "REFUNDED" ELSE "none"

\* Negotiation, phaseLabel.
phaseLabel(r) ==
  CASE r.status = "settled"   -> "Settled"
    [] r.status = "refunded"  -> "Refunded"
    [] r.status = "delivered" -> "Delivered"
    [] r.status = "deposited" -> "In escrow"
    [] OTHER -> IF r.award # Nobody THEN "Awarded"
                ELSE IF r.bids # Feed!NoBids THEN "Bidding war" ELSE "Open call"

\* StatsStrip: the rounds that are settled, what was locked for them, and the
\* bids that won.
settled(rs) == {n \in DOMAIN rs : rs[n].status = "settled"}
totalSettled(rs) == MapThenSumSet(LAMBDA n : rs[n].amount, settled(rs))
winning(rs) == {rs[n].bids[rs[n].award] : n \in {x \in DOMAIN rs : rs[x].award \in DOMAIN rs[x].bids}}

\* RoundsRail: the price of the winner, else the cheapest bid, 0 for none.
railPrice(r) ==
  IF r.award # Nobody THEN IF r.award \in DOMAIN r.bids THEN r.bids[r.award] ELSE 0
  ELSE IF r.bids = Feed!NoBids THEN 0 ELSE Min(Range(r.bids))

\* What the rail shows for the rounds that are settled.
railTotal(rs) == MapThenSumSet(LAMBDA n : railPrice(rs[n]), settled(rs))
-------------------------------------------------------------------------------
\* A round is played once, unless a restarted buyer counts its rounds from one
\* again: one award, one set of terms, and one bid of each seller.
PlayedOnce(t, n) ==
  LET said == {i \in DOMAIN t : t[i].round = n} IN
  /\ \E i \in said : t[i].verb = "ESCROW_REQUIRED"
  /\ \A i, j \in said : t[i].verb = t[j].verb /\ i # j =>
       /\ t[i].verb \notin {"AWARD", "ESCROW_REQUIRED"}
       /\ t[i].verb = "BID" => t[i].by # t[j].by

\* Whichever answer came last, and when a round is played twice because its
\* buyer was restarted, the views of the tab do not contradict each other: the
\* pipeline is at its end exactly when the label says so and the round counts as
\* settled, unless its consent was rejected or it was refunded; and the sum is
\* that of the prices of the rail (DealPipeline.tsx:31-66,
\* Negotiation.tsx:145-153, StatsStrip.tsx:7-22).
ViewsAgree ==
  LET t == Messages
      rs == rounds IN
  Listed # {} =>
    /\ focusedNum \in Listed /\ (following \/ focusedNum = tab.pinned)
    /\ \A n \in Listed : LET r == rs[n] IN
         /\ phaseLabel(r) = "Settled" <=> n \in settled(rs)
         /\ terminal(r) = "none" => (reachedIdx(r) = 7 <=> phaseLabel(r) = "Settled")
         /\ phaseLabel(r) \in {"In escrow", "Delivered"} =>
              reachedIdx(r) >= 5 \/ terminal(r) = "REJECTED"
    /\ (\A n \in settled(rs) : PlayedOnce(t, n)) =>
         totalSettled(rs) = railTotal(rs)
    /\ winning(rs) = {railPrice(rs[n]) : n \in {x \in Listed : rs[x].award # Nobody}}

\* The tab follows: once it is on a session that stays live, with a feed that
\* answers, it comes to show all that was said in it and keeps showing it, in
\* spite of late answers for a session it was on before (api.ts:67-93,
\* App.tsx:29-46).
CatchesUp ==
  <>[] (tab.open /\ tab.session \in live /\ feed.up)
    => <>[] (tab.session \in live /\ tab.shown = <<tab.session, log[tab.session]>>)
===============================================================================
