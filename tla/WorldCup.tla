------------------------------- MODULE WorldCup -------------------------------
(***************************************************************************)
(* The World Cup Oracle (examples/txodds): the browser app (web/app.js),   *)
(* the proxy it calls (server/proxy.ts) and, as an environment, the TxODDS *)
(* feed and the chain.                                                     *)
(*                                                                         *)
(* A request is a coroutine of the proxy, split at every await; what it    *)
(* shares with the other requests is the API token and the cached board.   *)
(* The browser runs one effect per selection: it shows a read, then has    *)
(* it settled, and an answer to an effect that is over is dropped.         *)
(***************************************************************************)
EXTENDS FairLine, FiniteSets

CONSTANTS
  FixtureOrder, \* the fixtures in the order the feed lists them
  Demo,         \* the sample fixture of the browser
  Quotes,       \* the snapshots the feed may return for each fixture
  Slots,        \* bound of the requests the proxy serves at once
  HasArbiter    \* ARBITER_KEYPAIR_B58 is set

Fixtures == {FixtureOrder[i] : i \in DOMAIN FixtureOrder}

ASSUME WorldCupAssumption ==
  /\ Demo \notin Fixtures
  /\ HasArbiter \in BOOLEAN
  /\ DOMAIN Quotes = Fixtures

VARIABLES
  token,    \* apiToken: none, good, or junk, an answer that held no token
  cache,    \* boardCache: the last board with a fixture on it.  Its age is
            \* left out: wherever the code compares it, both answers are taken
  req,      \* the request in each slot
  app       \* the browser

vars == <<token, cache, req, app>>

NoRef == [id |-> Demo, fav |-> NoOutcome]
Modes == {"arbiter", "direct"}
Calls == {"fixtures", "odds"}

Request(kind, id) ==
  [kind |-> kind, id |-> id, pc |-> "start",
   alive |-> TRUE, ok |-> FALSE, get |-> [c \in Calls |-> "off"],
   left |-> {}, found |-> {}, board |-> <<>>, odds |-> <<>>,
   mode |-> IF HasArbiter THEN "arbiter" ELSE "direct", fellBack |-> FALSE,
   ref |-> NoRef, escrow |-> [m \in Modes |-> "none"]]
NoRequest == [Request("board", Demo) EXCEPT !.kind = "none", !.pc = "done"]

NoRead == [id |-> Demo, fav |-> NoOutcome, by |-> "nobody", sample |-> FALSE]
NoResult == [shown |-> FALSE, ok |-> FALSE, id |-> Demo, fav |-> NoOutcome]
DemoBoard == <<[id |-> Demo, odds |-> <<>>]>>

Init ==
  /\ token = "none"
  /\ cache = <<>>
  /\ req = [s \in Slots |-> NoRequest]
  /\ app = [fixtures |-> <<>>, source |-> "none", idx |-> 1,
            edge |-> NoRead, settle |-> NoResult, settling |-> FALSE,
            load |-> "due"]

-------------------------------------------------------------------------------
(* The proxy.  A step replaces the record of its request.                  *)

Step(s, q) == req' = [req EXCEPT ![s] = q]

Ended(q, ok) == [q EXCEPT !.pc = "done", !.ok = ok, !.get = [c \in Calls |-> "off"],
                          !.odds = IF ok THEN @ ELSE <<>>]
Answer(q) == Ended(q, TRUE)

\* A throw: an arbitrated settlement is retried as a direct one; any other
\* request is answered with an error.
Throw(q) ==
  IF q.kind = "settle" /\ q.mode = "arbiter"
  THEN [q EXCEPT !.mode = "direct", !.fellBack = TRUE, !.pc = "start", !.ref = NoRef,
                 !.get = [c \in Calls |-> "off"]]
  ELSE Ended(q, FALSE)

OnBoard(board, id) == \E i \in DOMAIN board : board[i].id = id
OddsOf(board, id) == (CHOOSE x \in Range(board) : x.id = id).odds

\* What the reference is a hash of, the nonce left out: two orders bound in the
\* same millisecond share it, and then the second deposit fails like any other
\* transaction may.
boundReference(id, board) ==
  [id |-> id,
   fav |-> IF OnBoard(board, id) THEN favouriteOf(OddsOf(board, id)) ELSE NoOutcome]

\* What a caller of board() does with the board it is given.
WithBoard(q, board) ==
  CASE q.kind = "board" -> Answer([q EXCEPT !.board = board])
    [] q.kind = "edge" ->
         Answer([q EXCEPT !.odds = IF OnBoard(board, q.id) THEN OddsOf(board, q.id) ELSE @])
    [] q.kind = "settle" ->
         [q EXCEPT !.ref = boundReference(q.id, board),
                   !.pc = IF q.mode = "arbiter" THEN "prepare" ELSE "deposit"]

\* txGet: with a token the call is sent at once; ensureToken subscribes and
\* activates first, and nothing keeps two calls from both doing so.
Get(q, c) == [q EXCEPT !.get[c] = IF token = "none" THEN "activating" ELSE "sent"]

\* board(): a cached board of less than 30 s is returned, else a scan begins with
\* the fixtures.
Board(q) ==
  {Get([q EXCEPT !.pc = "list"], "fixtures")}
    \cup IF cache = <<>> THEN {} ELSE {WithBoard(q, cache)}

Call(s) ==
  /\ req[s].pc = "start"
  /\ IF req[s].kind = "edge"  \* the odds and the fixtures at the same time
     THEN Step(s, Get(Get([req[s] EXCEPT !.pc = "gets"], "odds"), "fixtures"))
     ELSE \E q \in Board(req[s]) : Step(s, q)
  /\ UNCHANGED <<token, cache, app>>

\* What follows once a call of txGet has returned or thrown.  A scan goes on to
\* the odds of every fixture.  /api/edge waits for both calls (a failure of the
\* fixtures call is answered at once, here after the other call): it fails
\* without the fixtures, and without priced odds it falls back to those of the board.
Resumed(q) ==
  IF q.pc = "list"
  THEN {IF q.get["fixtures"] = "err" THEN Throw(q)
        ELSE [q EXCEPT !.pc = "scan", !.left = Fixtures, !.get["fixtures"] = "off"]}
  ELSE IF \E c \in Calls : q.get[c] \notin {"ok", "err"} THEN {q}
  ELSE IF q.get["fixtures"] = "err" THEN {Throw(q)}
  ELSE IF \E m \in Range(q.odds) : hasFinitePrice(m) THEN {Answer(q)}
  ELSE Board([q EXCEPT !.get = [c \in Calls |-> "off"]])

\* The end of ensureToken.  An activation that answers without a token is
\* kept before it is found out; the caller throws.
Activate(s, c) ==
  /\ req[s].get[c] = "activating"
  /\ \E outcome \in {"good", "junk", "failed"} :
       /\ token' = IF outcome = "failed" THEN token ELSE outcome
       /\ \E q \in IF outcome = "good" THEN {[req[s] EXCEPT !.get[c] = "sent"]}
                   ELSE Resumed([req[s] EXCEPT !.get[c] = "err"]) : Step(s, q)
  /\ UNCHANGED <<cache, app>>

\* The feed answers a call, with any of the snapshots it may have, or it fails.
Upstream(s, c) ==
  /\ req[s].get[c] = "sent"
  /\ \E answer \in {"ok", "err"}, odds \in IF c = "odds" THEN Quotes[req[s].id] ELSE {<<>>} :
       /\ answer = "ok" => token = "good"
       /\ \E q \in Resumed([req[s] EXCEPT !.get[c] = answer,
                                 !.odds = IF c = "odds" /\ answer = "ok" THEN odds ELSE @]) :
            Step(s, q)
  /\ UNCHANGED <<token, cache, app>>

\* The fixtures with a 1X2 market first, else in the order of the feed.
Place(id) == CHOOSE i \in DOMAIN FixtureOrder : FixtureOrder[i] = id
Before(x, y) == IF has1x2(x.odds) = has1x2(y.odds) THEN Place(x.id) < Place(y.id)
                ELSE has1x2(x.odds)
Sorted(found) == {board \in [1 .. Cardinality(found) -> found] :
                    \A i, j \in DOMAIN board : i < j => Before(board[i], board[j])}

\* The end of board(): an empty scan never replaces a good board, which is
\* served in its place while it is younger than 300 s.
ScanEnds(s, q) ==
  \E data \in Sorted(q.found) :
    /\ \E board \in IF data = <<>> THEN {data, cache} ELSE {data} :
         Step(s, WithBoard([q EXCEPT !.found = {}], board))
    /\ cache' = IF data = <<>> THEN cache ELSE data

\* A worker of the scan has read one fixture; one that fails or has nothing
\* priced is left out.  The last one ends the scan.
ScanFixture(s, id) ==
  /\ req[s].pc = "scan" /\ id \in req[s].left
  /\ \E row \in {{}} \cup {{[id |-> id, odds |-> q]} : q \in
                     {x \in Quotes[id] : \E m \in Range(x) : hasFinitePrice(m)}} :
       LET q == [req[s] EXCEPT !.left = @ \ {id}, !.found = @ \cup row]
       IN  /\ row # {} => token = "good"
           /\ IF q.left = {} THEN ScanEnds(s, q) ELSE Step(s, q) /\ UNCHANGED cache
  /\ UNCHANGED <<token, app>>

-------------------------------------------------------------------------------
(* Settlement.  A transaction lands or not, and one that landed may still  *)
(* throw where it is awaited.                                              *)

\* The four transactions (agent/escrow.ts, agent/arbiter.ts).
initialize(q) == [q EXCEPT !.escrow["direct"] = "open"]
open(q) == [q EXCEPT !.escrow["arbiter"] = "open"]
release(q) == [q EXCEPT !.escrow["direct"] = "paid"]
arbitrateRelease(q) == [q EXCEPT !.escrow["arbiter"] = "paid"]

\* ensureArbiterConfig and ensureArbiterFunded: nothing of the order is on the
\* chain when they throw.
Prepare(s) ==
  /\ req[s].pc = "prepare"
  /\ Step(s, [req[s] EXCEPT !.pc = "deposit"]) \/ Step(s, Throw(req[s]))
  /\ UNCHANGED <<token, cache, app>>

\* The buyer puts the money into the escrow.
Deposit(s) ==
  /\ req[s].pc = "deposit"
  /\ LET q == [req[s] EXCEPT !.pc = "release"]
         landed == IF q.mode = "arbiter" THEN open(q) ELSE initialize(q)
     IN  Step(s, landed) \/ Step(s, Throw(landed)) \/ Step(s, Throw(q))
  /\ UNCHANGED <<token, cache, app>>

\* A slip: the answer does not wait for the release to land.
ReleaseUnconfirmed(s) ==
  /\ req[s].pc = "release"
  /\ \E e \in {"open", "paid"} : Step(s, Answer([req[s] EXCEPT !.escrow[req[s].mode] = e]))
  /\ UNCHANGED <<token, cache, app>>

\* The arbiter, or the buyer itself, pays the seller.
Release(s) ==
  /\ req[s].pc = "release"
  /\ LET q == req[s]
         landed == IF q.mode = "arbiter" THEN arbitrateRelease(q) ELSE release(q)
     IN  Step(s, Answer(landed)) \/ Step(s, Throw(landed)) \/ Step(s, Throw(q))
  /\ UNCHANGED <<token, cache, app>>

\* The proxy dies: its token and its cache are gone, its requests fail.
Restart ==
  /\ token' = "none" /\ cache' = <<>>
  /\ req' = [s \in Slots |-> IF req[s].pc = "done" THEN req[s]
                             ELSE Ended([req[s] EXCEPT !.left = {}, !.found = {}], FALSE)]
  /\ UNCHANGED app

-------------------------------------------------------------------------------
(* The browser.                                                            *)

selected == app.fixtures[app.idx]
Free(s) == req[s].kind = "none"

LoadSend(s) ==
  /\ app.load = "due" /\ Free(s)
  /\ app' = [app EXCEPT !.load = "sent"] /\ Step(s, Request("board", Demo))
  /\ UNCHANGED <<token, cache>>

\* The sample odds, of the sample board and for any fixture that is not on it.
demoOddsFor(id) == mkt(IF id = Demo THEN <<624, 221, 155>> ELSE <<450, 270, 280>>)

\* clientEdge: the read the browser makes itself.  It is labelled a sample when the
\* fixture has no market, and it is of sample numbers when that market has no names.
clientEdge(fx) ==
  LET live == clientMarket(fx.odds)
  IN  [id |-> fx.id,
       fav |-> Favourite(IF live.named THEN live ELSE demoOddsFor(fx.id)),
       by |-> IF \E m \in Range(fx.odds) : m.x12 \/ hasFinitePrice(m) THEN "client" ELSE "demo",
       sample |-> ~ live.named]

\* A new board or a new selection with its effects: the effect of the last one
\* is over, its read and its result are cleared, and the agent is asked for a
\* read of a live fixture.  React runs them before it handles anything else.
Turn(a, s) ==
  LET fresh == [a EXCEPT !.edge = NoRead, !.settle = NoResult, !.settling = FALSE]
      fx == a.fixtures[a.idx]
      over == [t \in Slots |-> [req[t] EXCEPT !.alive = FALSE]]
  IN  IF a.source = "live"
      THEN req' = [over EXCEPT ![s] = Request("edge", fx.id)] /\ app' = fresh
      ELSE req' = [over EXCEPT ![s] = NoRequest] /\ app' = [fresh EXCEPT !.edge = clientEdge(fx)]

\* A live board is shown from its first fixture and ends the polling.  Without
\* one the board stays, or is the sample board, and the poll is repeated (the
\* code gives up after 30 of them).
LoadDone(s) ==
  /\ req[s].kind = "board" /\ req[s].pc = "done"
  /\ IF req[s].ok /\ req[s].board # <<>>
     THEN Turn([app EXCEPT !.fixtures = req[s].board, !.source = "live", !.idx = 1,
                           !.load = "over"], s)
     ELSE \E load \in {"due", "over"} :
            IF app.fixtures = <<>>
            THEN Turn([app EXCEPT !.fixtures = DemoBoard, !.source = "demo", !.load = load], s)
            ELSE app' = [app EXCEPT !.load = load] /\ Step(s, NoRequest)
  /\ UNCHANGED <<token, cache>>

Select(i) ==
  /\ i \in DOMAIN app.fixtures \ {app.idx}
  /\ \E s \in Slots : Free(s) /\ Turn([app EXCEPT !.idx = i], s)
  /\ UNCHANGED <<token, cache>>

\* A slip: an effect that is over goes on to pay.
EdgeDonePaying(s) ==
  /\ req[s].kind = "edge" /\ req[s].pc = "done" /\ Step(s, Request("settle", req[s].id))
  /\ UNCHANGED <<token, cache, app>>

\* The read arrives, or the browser keeps its own; it is shown, and its
\* settlement is asked for at once.  An effect that is over stops here.
EdgeDone(s) ==
  /\ req[s].kind = "edge" /\ req[s].pc = "done"
  /\ LET read == IF req[s].ok
                 THEN [id |-> req[s].id, fav |-> favouriteOf(req[s].odds), by |-> "agent",
                       sample |-> FALSE]
                 ELSE clientEdge(CHOOSE fx \in Range(app.fixtures) : fx.id = req[s].id)
     IN  IF req[s].alive
         THEN /\ Step(s, Request("settle", req[s].id))
              /\ app' = [app EXCEPT !.edge = read, !.settling = TRUE]
         ELSE Step(s, NoRequest) /\ UNCHANGED app
  /\ UNCHANGED <<token, cache>>

\* A slip: the result of an effect that is over is shown.
SettleDoneLate(s) ==
  /\ req[s].kind = "settle" /\ req[s].pc = "done" /\ Step(s, NoRequest)
  /\ app' = [app EXCEPT !.settling = FALSE,
                        !.settle = [shown |-> TRUE, ok |-> req[s].ok, id |-> req[s].id,
                                    fav |-> req[s].ref.fav]]
  /\ UNCHANGED <<token, cache>>

SettleDone(s) ==
  /\ req[s].kind = "settle" /\ req[s].pc = "done" /\ Step(s, NoRequest)
  /\ app' = IF req[s].alive
            THEN [app EXCEPT !.settling = FALSE,
                             !.settle = [shown |-> TRUE, ok |-> req[s].ok, id |-> req[s].id,
                                         fav |-> req[s].ref.fav]]
            ELSE app
  /\ UNCHANGED <<token, cache>>

-------------------------------------------------------------------------------
Serve(s) ==
  \/ Call(s)
  \/ \E c \in Calls : Activate(s, c) \/ Upstream(s, c)
  \/ \E id \in Fixtures : ScanFixture(s, id)
  \/ Prepare(s) \/ Deposit(s) \/ Release(s)

Browse(s) == LoadSend(s) \/ LoadDone(s) \/ EdgeDone(s) \/ SettleDone(s)

Next ==
  \/ \E s \in Slots : Serve(s) \/ Browse(s)
  \/ Restart
  \/ \E i \in 1 .. Cardinality(Fixtures) : Select(i)

Spec == Init /\ [][Next]_vars

-------------------------------------------------------------------------------
\* What the browser shows belongs to what is selected: the read and the
\* settlement on display are those of the selected fixture, although the answers
\* of earlier selections still arrive, and a read labelled a sample is that of the
\* sample fixture.  The browser waits for a settlement exactly while a request of
\* the current selection is out that will end the wait: it never spins for ever,
\* also across a restart of the proxy (web/app.js:97, 352, 384-410).
ShownIsSelected ==
  app.fixtures # <<>> =>
    /\ app.idx \in DOMAIN app.fixtures
    /\ app.edge.by # "nobody" => /\ app.edge.id = selected.id
                                 /\ app.edge.by = "demo" <=> selected.id = Demo
    /\ app.settle.shown => app.settle.id = selected.id /\ app.edge.by # "nobody"
    /\ app.settling <=> \E s \in Slots : /\ req[s].kind = "settle" /\ req[s].alive
                                         /\ req[s].id = selected.id

\* "It never mixes demo numbers into a live fixture" (web/app.js:4-5): the read on
\* display of a fixture of the live board is of the fixture's own odds.
NoSampleNumbersOnLive ==
  app.edge.by # "nobody" /\ selected.id # Demo => ~ app.edge.sample

\* A settlement answered with ok was released to the seller on the chain, under
\* the reference it reports; unless the arbitrated one failed first, nothing
\* else of this request was ever locked (server/proxy.ts:204-229, 258-285,
\* 315-327).
OkSettlementPaidOnce ==
  \A s \in Slots :
    req[s].kind = "settle" /\ req[s].pc = "done" /\ req[s].ok =>
      /\ req[s].escrow[req[s].mode] = "paid"
      /\ req[s].ref.id = req[s].id
      /\ \A m \in Modes \ {req[s].mode} : req[s].escrow[m] # "none" => req[s].fellBack

\* The browser asks for a settlement only in the step that shows a read of that
\* fixture, and only of a fixture that came from the live board: a read that
\* was given up while it was fetched is never paid for (web/app.js:396-402).
PaysAfterRead ==
  [][\A s \in Slots :
       req'[s].kind = "settle" /\ req[s].kind # "settle" =>
         /\ app.source = "live" /\ req'[s].id \in Fixtures
         /\ app'.edge.by # "nobody" /\ app'.edge.id = req'[s].id /\ app'.settling]_vars
===============================================================================
