---------------------------- MODULE WorldCupProofs ----------------------------
(***************************************************************************)
(* Theorems about the World Cup Oracle, proved for every feed, every       *)
(* number of requests and both settlement modes.                           *)
(*                                                                         *)
(* One invariant, AppInv, carries all three.  Besides the types it says    *)
(* what each request of the proxy may be in the middle of (Calling), what  *)
(* a settlement has on the chain (Settling), that at most one effect of    *)
(* the browser is not over and that it is of the selected fixture          *)
(* (OneEffect), and how the screen goes with it (Screen).  The proof goes  *)
(* along the program: a step of the proxy replaces one request by another  *)
(* that Follows it, of the same kind, fixture and effect; a step of the    *)
(* browser either starts the effect of a new selection (TurnKept) or       *)
(* handles an answer.                                                      *)
(***************************************************************************)
EXTENDS WorldCup, FiniteSetTheorems, SequenceTheorems, TLAPS

\* The values the state is made of.
Ids == Fixtures \cup {Demo}
Snapshots == {<<>>} \cup UNION {Quotes[f] : f \in Fixtures}
Favourites ==
  {favouriteOf(o) : o \in Snapshots} \cup {Favourite(clientMarket(o)) : o \in Snapshots}
    \cup {NoOutcome} \cup {Favourite(demoOddsFor(id)) : id \in Ids}
Rows == {row \in [id : Fixtures, odds : Snapshots] : \E m \in Range(row.odds) : hasFinitePrice(m)}
Reads == [id : Ids, fav : Favourites, by : {"nobody", "demo", "client", "agent"}, sample : BOOLEAN]
Refs == [id : Ids, fav : Favourites]

Requests ==
  [kind : {"none", "board", "edge", "settle"}, id : Ids,
   pc : {"start", "list", "gets", "scan", "prepare", "deposit", "release", "done"},
   alive : BOOLEAN, ok : BOOLEAN, get : [Calls -> {"off", "activating", "sent", "ok", "err"}],
   left : SUBSET Fixtures, found : SUBSET Rows, board : Seq(Rows), odds : Snapshots,
   mode : Modes, fellBack : BOOLEAN, ref : Refs, escrow : [Modes -> {"none", "open", "paid"}]]

Apps ==
  [fixtures : Seq(Rows) \cup {DemoBoard}, source : {"none", "demo", "live"}, idx : Nat,
   edge : Reads,
   settle : [shown : BOOLEAN, ok : BOOLEAN, id : Ids, fav : Favourites],
   settling : BOOLEAN, load : {"due", "sent", "over"}]

\* A call of txGet is under way only in a list of the board or in a read, and
\* only a read has the two of them.
Calling(q) ==
  /\ IsFiniteSet(q.found)
  /\ q.kind \in {"edge", "settle"} => q.id \in Fixtures
  /\ q.kind = "none" => q.pc = "done"
  /\ \A c \in Calls : q.get[c] \in {"activating", "sent"} =>
       (q.pc = "list" /\ c = "fixtures") \/ q.pc = "gets"
  /\ q.pc = "gets" => q.kind = "edge"

\* What a settlement has on the chain: nothing in the direct mode before the
\* arbitrated one failed, and the reference is made before the first transaction.
Settling(q) ==
  q.kind = "settle" =>
    /\ q.escrow["direct"] # "none" => q.mode = "direct"
    /\ q.escrow["arbiter"] # "none" => q.mode = "arbiter" \/ q.fellBack
    /\ q.pc \in {"prepare", "deposit", "release"} => q.ref.id = q.id
    /\ q.pc = "done" /\ q.ok => q.escrow[q.mode] = "paid" /\ q.ref.id = q.id

\* The requests of the effect of the current selection.
Current(q) == q.kind \in {"edge", "settle"} /\ q.alive

\* The one effect that is not over is of the selected fixture.
OneEffect ==
  \A s \in Slots : Current(req[s]) =>
    /\ app.source = "live" /\ req[s].id = selected.id
    /\ \A t \in Slots : Current(req[t]) => t = s

Screen ==
  /\ \/ app.source = "none" /\ app.fixtures = <<>> /\ app.idx = 1
     \/ app.source = "demo" /\ app.fixtures = DemoBoard /\ app.idx = 1
     \/ app.source = "live" /\ app.fixtures \in Seq(Rows) /\ app.idx \in DOMAIN app.fixtures
  /\ app.source = "none" => app.edge.by = "nobody"
  /\ app.edge.by # "nobody" => /\ app.edge.id = selected.id
                               /\ app.edge.by = "demo" <=> app.source = "demo"
  /\ app.settle.shown => app.settle.id = selected.id
  /\ app.settle.shown \/ app.settling => app.edge.by # "nobody"
  /\ app.settling <=> \E s \in Slots : req[s].kind = "settle" /\ req[s].alive

AppInv ==
  /\ cache \in Seq(Rows) /\ req \in [Slots -> Requests] /\ app \in Apps
  /\ \A s \in Slots : Calling(req[s]) /\ Settling(req[s])
  /\ OneEffect /\ Screen

-------------------------------------------------------------------------------
(* What the requests of the proxy are made of, and its steps.              *)

\* A request that its handler may leave, and what a step of it makes of q.
Fit(q) == q \in Requests /\ Calling(q) /\ Settling(q)
Follows(q, p) == Fit(p) /\ p.kind = q.kind /\ p.id = q.id /\ p.alive = q.alive
Idle(q) == \A c \in Calls : q.get[c] \notin {"activating", "sent"}

LEMMA Data ==
  /\ NoRef \in Refs /\ NoOutcome \in Favourites /\ Demo \in Ids /\ Fixtures \subseteq Ids
  /\ <<>> \in Snapshots /\ <<>> \in Seq(Rows) /\ Calls = {"fixtures", "odds"} /\ Modes = {"arbiter", "direct"}
  /\ \A o \in Snapshots : favouriteOf(o) \in Favourites
  /\ \A f \in Fixtures : Quotes[f] \subseteq Snapshots
  <1>1. NoOutcome \in Favourites /\ \A o \in Snapshots : favouriteOf(o) \in Favourites
    <2>1. NoOutcome \in Favourites
      BY DEF Favourites
    <2>2. ASSUME NEW o \in Snapshots PROVE favouriteOf(o) \in Favourites
      BY DEF Favourites
    <2> QED BY <2>1, <2>2
  <1>2. Demo \in Ids /\ Fixtures \subseteq Ids /\ <<>> \in Snapshots /\ \A f \in Fixtures : Quotes[f] \subseteq Snapshots
    BY DEF Ids, Snapshots
  <1>3. NoRef \in Refs
    BY <1>1, <1>2 DEF NoRef, Refs
  <1> QED BY <1>1, <1>2, <1>3, EmptySeq DEF Calls, Modes

\* The row of a fixture on a board.
LEMMA BoardData ==
  ASSUME NEW board \in Seq(Rows), NEW id, OnBoard(board, id)
  PROVE  OddsOf(board, id) \in Snapshots
  <1>1. PICK i \in DOMAIN board : board[i].id = id
    BY DEF OnBoard
  <1>2. \A j \in DOMAIN board : board[j] \in Rows
    BY ElementOfSeq, LenProperties
  <1>3. \E x \in Range(board) : x.id = id
    BY <1>1 DEF Range
  <1>4. (CHOOSE x \in Range(board) : x.id = id) \in Range(board)
    BY <1>3
  <1>5. (CHOOSE x \in Range(board) : x.id = id) \in Rows
    BY <1>2, <1>4 DEF Range
  <1> QED BY <1>5 DEF OddsOf, Rows

LEMMA ReferenceData ==
  ASSUME NEW board \in Seq(Rows), NEW id \in Ids
  PROVE  boundReference(id, board) \in Refs /\ boundReference(id, board).id = id
  BY Data, BoardData DEF boundReference, Refs

LEMMA EndedFits ==
  ASSUME NEW q, Fit(q), NEW ok \in BOOLEAN, q.kind = "settle" => ~ ok
  PROVE  Follows(q, Ended(q, ok))
  <1>1. Ended(q, ok) \in Requests
    BY Data DEF Fit, Requests, Ended
  <1> QED BY <1>1 DEF Fit, Follows, Ended, Requests, Calling, Settling

LEMMA ThrowFits ==
  ASSUME NEW q, Fit(q)
  PROVE  Follows(q, Throw(q))
  <1>1. CASE q.kind = "settle" /\ q.mode = "arbiter"
    <2>1. Throw(q) = [q EXCEPT !.mode = "direct", !.fellBack = TRUE, !.pc = "start", !.ref = NoRef,
                               !.get = [c \in Calls |-> "off"]]
      BY <1>1 DEF Throw
    <2>2. NoRef \in Refs /\ "direct" \in Modes /\ [c \in Calls |-> "off"] \in [Calls -> {"off", "activating", "sent", "ok", "err"}]
      BY Data
    <2>3. Throw(q) \in Requests
      BY <2>1, <2>2 DEF Fit, Requests
    <2> QED BY <1>1, <2>1, <2>3, Data DEF Fit, Follows, Requests, Calling, Settling
  <1>2. CASE ~ (q.kind = "settle" /\ q.mode = "arbiter")
    BY <1>2, EndedFits DEF Throw
  <1> QED BY <1>1, <1>2

LEMMA WithBoardFits ==
  ASSUME NEW q, Fit(q), Idle(q), q.kind # "none", NEW board \in Seq(Rows)
  PROVE  Follows(q, WithBoard(q, board))
  <1>1. CASE q.kind = "board"
    <2>1. PICK p : p = [q EXCEPT !.board = board]
      OBVIOUS
    <2>2. p \in Requests
      BY <2>1 DEF Fit, Requests
    <2>3. p.kind = q.kind /\ p.id = q.id /\ p.alive = q.alive /\ Calling(p) /\ Settling(p)
      <3>1. p.kind = q.kind /\ p.id = q.id /\ p.alive = q.alive /\ p.pc = q.pc /\ p.get = q.get /\ p.found = q.found
        BY <2>1 DEF Fit, Requests
      <3> QED BY <1>1, <3>1 DEF Fit, Calling, Settling
    <2>4. WithBoard(q, board) = Ended(p, TRUE)
      BY <1>1, <2>1 DEF WithBoard, Answer
    <2> QED BY <1>1, <2>2, <2>3, <2>4, EndedFits DEF Fit, Follows
  <1>2. CASE q.kind = "edge"
    <2>1. PICK p : p = [q EXCEPT !.odds = IF OnBoard(board, q.id) THEN OddsOf(board, q.id) ELSE @]
      OBVIOUS
    <2>2. p \in Requests
      BY <2>1, BoardData DEF Fit, Requests
    <2>3. p.kind = q.kind /\ p.id = q.id /\ p.alive = q.alive /\ Calling(p) /\ Settling(p)
      <3>1. p.kind = q.kind /\ p.id = q.id /\ p.alive = q.alive /\ p.pc = q.pc /\ p.get = q.get /\ p.found = q.found
        BY <2>1 DEF Fit, Requests
      <3> QED BY <1>2, <3>1 DEF Fit, Calling, Settling
    <2>4. WithBoard(q, board) = Ended(p, TRUE)
      BY <1>2, <2>1 DEF WithBoard, Answer
    <2> QED BY <1>2, <2>2, <2>3, <2>4, EndedFits DEF Fit, Follows
  <1>3. CASE q.kind = "settle"
    <2>1. PICK p, ref : p = WithBoard(q, board) /\ ref = boundReference(q.id, board)
      OBVIOUS
    <2>2. p = [q EXCEPT !.ref = ref, !.pc = IF q.mode = "arbiter" THEN "prepare" ELSE "deposit"]
      BY <1>3, <2>1 DEF WithBoard
    <2>3. q.id \in Ids /\ ref \in Refs /\ ref.id = q.id
      BY <2>1, ReferenceData DEF Fit, Requests
    <2>4. p \in Requests
      BY <2>2, <2>3 DEF Fit, Requests
    <2>5. Calling(p)
      BY <1>3, <2>2, <2>4 DEF Fit, Requests, Calling, Idle
    <2>6. Settling(p)
      BY <1>3, <2>2, <2>3, <2>4 DEF Fit, Requests, Settling
    <2> QED BY <2>1, <2>2, <2>4, <2>5, <2>6 DEF Fit, Follows, Requests
  <1> QED BY <1>1, <1>2, <1>3 DEF Fit, Requests

LEMMA GetFits ==
  ASSUME NEW q, Fit(q), NEW c \in Calls, q.pc = "gets" \/ (q.pc = "list" /\ c = "fixtures")
  PROVE  Follows(q, Get(q, c)) /\ Get(q, c).pc = q.pc
  <1>1. PICK g \in {"activating", "sent"} : Get(q, c) = [q EXCEPT !.get[c] = g]
    BY DEF Get
  <1>2. Get(q, c) \in Requests
    BY <1>1 DEF Fit, Requests
  <1> QED BY <1>1, <1>2 DEF Fit, Follows, Requests, Calling, Settling

\* What board() begins with, at the start of a request or when a read has no
\* priced odds.
LEMMA BoardFits ==
  ASSUME NEW q, Fit(q), Idle(q), q.kind # "none", cache \in Seq(Rows), NEW p \in Board(q)
  PROVE  Follows(q, p)
  <1>1. CASE p = WithBoard(q, cache)
    BY <1>1, WithBoardFits
  <1>2. CASE p = Get([q EXCEPT !.pc = "list"], "fixtures")
    <2>1. PICK b : b = [q EXCEPT !.pc = "list"]
      OBVIOUS
    <2>2. b \in Requests
      BY <2>1 DEF Fit, Requests
    <2>3. Fit(b) /\ b.kind = q.kind /\ b.id = q.id /\ b.alive = q.alive /\ b.pc = "list"
      BY <2>1, <2>2 DEF Fit, Requests, Calling, Settling, Idle
    <2> QED BY <1>2, <2>1, <2>3, GetFits, Data DEF Follows
  <1> QED BY <1>1, <1>2 DEF Board

\* What follows a call that has returned or thrown.
LEMMA ResumedFits ==
  ASSUME NEW q, Fit(q), q.kind # "none", cache \in Seq(Rows), NEW p \in Resumed(q),
         \/ q.pc = "list" /\ q.get["fixtures"] \in {"ok", "err"}
         \/ q.pc = "gets"
  PROVE  Follows(q, p)
  <1>1. CASE p = Throw(q)
    BY <1>1, ThrowFits
  <1>2. CASE p = q
    BY <1>2 DEF Follows
  <1>3. CASE q.pc = "list" /\ p = [q EXCEPT !.pc = "scan", !.left = Fixtures, !.get["fixtures"] = "off"]
    <2>1. p \in Requests
      BY <1>3, Data DEF Fit, Requests
    <2>2. /\ p.kind = q.kind /\ p.id = q.id /\ p.alive = q.alive /\ p.pc = "scan" /\ p.found = q.found
          /\ p.get = [q.get EXCEPT !["fixtures"] = "off"] /\ p.escrow = q.escrow /\ p.mode = q.mode
          /\ p.fellBack = q.fellBack
      BY <1>3 DEF Fit, Requests
    <2>3. \A c \in Calls : p.get[c] \notin {"activating", "sent"}
      BY <1>3, <2>2, Data DEF Fit, Requests, Calling
    <2>4. Calling(p)
      BY <2>2, <2>3 DEF Fit, Calling
    <2>5. Settling(p)
      BY <2>2 DEF Fit, Settling
    <2> QED BY <2>1, <2>2, <2>4, <2>5 DEF Fit, Follows
  <1>4. CASE q.pc = "gets" /\ p = Answer(q)
    BY <1>4, EndedFits DEF Answer, Fit, Calling
  <1>5. CASE q.pc = "gets" /\ p \in Board([q EXCEPT !.get = [c \in Calls |-> "off"]])
    <2>1. PICK b : b = [q EXCEPT !.get = [c \in Calls |-> "off"]]
      OBVIOUS
    <2>2. b \in Requests /\ \A c \in Calls : b.get[c] = "off"
      BY <2>1 DEF Fit, Requests
    <2>3. Fit(b) /\ b.kind = q.kind /\ b.id = q.id /\ b.alive = q.alive
      BY <2>1, <2>2 DEF Fit, Requests, Calling, Settling
    <2>4. Idle(b)
      BY <2>2 DEF Idle
    <2>5. Follows(b, p)
      BY <1>5, <2>1, <2>3, <2>4, BoardFits
    <2> QED BY <2>3, <2>5 DEF Follows
  <1> QED BY <1>1, <1>2, <1>3, <1>4, <1>5 DEF Resumed

\* A step that replaces a request by one that follows it, and leaves the app.
LEMMA ServedInv ==
  ASSUME AppInv, NEW s \in Slots, NEW p, Step(s, p), Follows(req[s], p), UNCHANGED app, cache' \in Seq(Rows)
  PROVE  AppInv' /\ \A t \in Slots : req'[t].kind = req[t].kind
  <1>1. req' = [req EXCEPT ![s] = p] /\ req \in [Slots -> Requests] /\ p \in Requests
    BY DEF Step, AppInv, Follows, Fit
  <1>2. req' \in [Slots -> Requests] /\ \A t \in Slots : req'[t] = IF t = s THEN p ELSE req[t]
    BY <1>1
  <1>3. \A t \in Slots : /\ req'[t].kind = req[t].kind /\ req'[t].id = req[t].id /\ req'[t].alive = req[t].alive
                         /\ Calling(req'[t]) /\ Settling(req'[t])
    BY <1>2 DEF AppInv, Follows, Fit
  <1>4. OneEffect'
    BY <1>3 DEF AppInv, OneEffect, Current, selected
  <1>5. Screen'
    BY <1>3 DEF AppInv, Screen, selected, Rows, Fixtures, Snapshots
  <1>6. Requests' = Requests /\ Apps' = Apps
    OBVIOUS
  <1> QED BY <1>2, <1>3, <1>4, <1>5 DEF AppInv

\* What a request of a slot is.
LEMMA RequestFacts ==
  ASSUME AppInv, NEW s \in Slots
  PROVE  Fit(req[s]) /\ req[s] \in Requests /\ cache \in Seq(Rows)
  BY DEF AppInv, Fit

\* The steps of the proxy keep the kind of each request, whom it is for and
\* whether its effect is over.
Serves == AppInv' /\ \A t \in Slots : req'[t].kind = req[t].kind

LEMMA CallKept == ASSUME AppInv, NEW s \in Slots, Call(s) PROVE Serves
  <1>1. PICK q : q = req[s]
    OBVIOUS
  <1>2. q.pc = "start" /\ UNCHANGED <<token, cache, app>> /\ Fit(q) /\ cache \in Seq(Rows)
    BY <1>1, RequestFacts DEF Call
  <1>3. Idle(q) /\ q.kind # "none"
    BY <1>2 DEF Fit, Calling, Idle
  <1>4. CASE q.kind = "edge" /\ Step(s, Get(Get([q EXCEPT !.pc = "gets"], "odds"), "fixtures"))
    <2>1. PICK b : b = [q EXCEPT !.pc = "gets"]
      OBVIOUS
    <2>2. b \in Requests
      BY <1>2, <2>1 DEF Fit, Requests
    <2>3. Fit(b) /\ b.kind = q.kind /\ b.id = q.id /\ b.alive = q.alive /\ b.pc = "gets"
      BY <1>2, <1>4, <2>1, <2>2 DEF Fit, Requests, Calling, Settling
    <2>4. PICK d : d = Get(b, "odds")
      OBVIOUS
    <2>5. Follows(b, d) /\ d.pc = "gets"
      BY <2>3, <2>4, GetFits, Data
    <2>6. Follows(d, Get(d, "fixtures"))
      BY <2>5, GetFits, Data DEF Follows
    <2>7. Follows(q, Get(d, "fixtures"))
      BY <2>3, <2>5, <2>6 DEF Follows
    <2> QED BY <1>1, <1>2, <1>4, <2>1, <2>4, <2>7, ServedInv DEF Serves
  <1>5. ASSUME NEW p \in Board(q), Step(s, p) PROVE Serves
    BY <1>1, <1>2, <1>3, <1>5, BoardFits, ServedInv DEF Serves
  <1> QED BY <1>1, <1>4, <1>5 DEF Call

\* A call that goes on or ends, in a list of the board or in a read.
CallEnds(q, b, a) ==
  /\ Fit(b) /\ b.kind = q.kind /\ b.id = q.id /\ b.alive = q.alive /\ b.kind # "none"
  /\ (b.pc = "list" /\ b.get["fixtures"] = a) \/ b.pc = "gets"

LEMMA EndedCall ==
  ASSUME AppInv, NEW s \in Slots, NEW c \in Calls, req[s].get[c] \in {"activating", "sent"},
         NEW odds \in Snapshots, NEW a \in {"ok", "err", "sent"},
         NEW b, b = [req[s] EXCEPT !.get[c] = a, !.odds = odds]
  PROVE  CallEnds(req[s], b, a)
  <1>1. PICK q : q = req[s]
    OBVIOUS
  <1>2. Fit(q) /\ b = [q EXCEPT !.get[c] = a, !.odds = odds] /\ q.get[c] \in {"activating", "sent"}
    BY <1>1, RequestFacts
  <1>3. (q.pc = "list" /\ c = "fixtures") \/ q.pc = "gets"
    BY <1>2 DEF Fit, Calling
  <1>4. b \in Requests
    <2>1. PICK g : g = [q.get EXCEPT ![c] = a]
      OBVIOUS
    <2>2. q.get \in [Calls -> {"off", "activating", "sent", "ok", "err"}]
      BY <1>2 DEF Fit, Requests
    <2>3. g \in [Calls -> {"off", "activating", "sent", "ok", "err"}]
      BY <2>1, <2>2
    <2>4. PICK d : d = [q EXCEPT !.get = g]
      OBVIOUS
    <2>5. d \in Requests
      BY <1>2, <2>3, <2>4 DEF Fit, Requests
    <2>6. b = [d EXCEPT !.odds = odds]
      BY <1>2, <2>1, <2>4
    <2> QED BY <2>5, <2>6 DEF Requests
  <1>5. /\ b.kind = q.kind /\ b.id = q.id /\ b.alive = q.alive /\ b.pc = q.pc /\ b.found = q.found
        /\ b.get = [q.get EXCEPT ![c] = a] /\ b.escrow = q.escrow /\ b.mode = q.mode /\ b.ok = q.ok
        /\ b.fellBack = q.fellBack /\ b.ref = q.ref
    <2>1. DOMAIN q = {"kind", "id", "pc", "alive", "ok", "get", "left", "found", "board", "odds", "mode",
                      "fellBack", "ref", "escrow"}
      BY <1>2 DEF Fit, Requests
    <2> QED BY <1>2, <2>1
  <1>6. Calling(b)
    <2>1. ASSUME NEW d \in Calls, b.get[d] \in {"activating", "sent"}
          PROVE  (b.pc = "list" /\ d = "fixtures") \/ b.pc = "gets"
      <3>1. CASE d = c
        BY <1>3, <1>5, <3>1
      <3>2. CASE d # c
        BY <1>2, <1>5, <2>1, <3>2 DEF Fit, Calling, Requests
      <3> QED BY <3>1, <3>2
    <2> QED BY <1>2, <1>5, <2>1 DEF Fit, Calling
  <1>7. Settling(b) /\ b.kind # "none"
    BY <1>2, <1>3, <1>5 DEF Fit, Settling, Calling
  <1>8. q.get \in [Calls -> {"off", "activating", "sent", "ok", "err"}]
    BY <1>2 DEF Fit, Requests
  <1> QED BY <1>1, <1>3, <1>4, <1>5, <1>6, <1>7, <1>8 DEF Fit, CallEnds

LEMMA ActivateKept == ASSUME AppInv, NEW s \in Slots, NEW c \in Calls, Activate(s, c) PROVE Serves
  <1>1. /\ req[s].get[c] = "activating" /\ UNCHANGED <<cache, app>> /\ cache \in Seq(Rows)
        /\ req[s].odds \in Snapshots
    BY RequestFacts DEF Activate, Requests
  <1>2. [req[s] EXCEPT !.get[c] = "sent"] = [req[s] EXCEPT !.get[c] = "sent", !.odds = req[s].odds]
        /\ [req[s] EXCEPT !.get[c] = "err"] = [req[s] EXCEPT !.get[c] = "err", !.odds = req[s].odds]
    BY RequestFacts DEF Requests
  <1>3. CASE Step(s, [req[s] EXCEPT !.get[c] = "sent"])
    <2>1. PICK b : b = [req[s] EXCEPT !.get[c] = "sent", !.odds = req[s].odds]
      OBVIOUS
    <2>2. CallEnds(req[s], b, "sent")
      BY <1>1, <2>1, EndedCall
    <2>3. Follows(req[s], b)
      BY <2>2 DEF CallEnds, Follows
    <2> QED BY <1>1, <1>2, <1>3, <2>1, <2>3, ServedInv DEF Serves
  <1>4. ASSUME NEW p \in Resumed([req[s] EXCEPT !.get[c] = "err"]), Step(s, p) PROVE Serves
    <2>1. PICK b : b = [req[s] EXCEPT !.get[c] = "err", !.odds = req[s].odds]
      OBVIOUS
    <2>2. CallEnds(req[s], b, "err")
      BY <1>1, <2>1, EndedCall
    <2>3. Follows(b, p)
      BY <1>1, <1>2, <1>4, <2>1, <2>2, ResumedFits DEF CallEnds
    <2> QED BY <1>1, <1>4, <2>2, <2>3, ServedInv DEF Serves, Follows, CallEnds
  <1> QED BY <1>3, <1>4 DEF Activate

LEMMA UpstreamKept == ASSUME AppInv, NEW s \in Slots, NEW c \in Calls, Upstream(s, c) PROVE Serves
  <1>1. PICK answer \in {"ok", "err"}, odds \in IF c = "odds" THEN Quotes[req[s].id] ELSE {<<>>} :
          \E p \in Resumed([req[s] EXCEPT !.get[c] = answer,
                              !.odds = IF c = "odds" /\ answer = "ok" THEN odds ELSE @]) : Step(s, p)
    BY DEF Upstream
  <1>2. req[s].get[c] = "sent" /\ UNCHANGED <<cache, app>> /\ cache \in Seq(Rows) /\ Fit(req[s])
    BY RequestFacts DEF Upstream
  <1>3. c = "odds" => req[s].id \in Fixtures
    BY <1>2, Data DEF Fit, Calling
  <1>4. PICK o : o = IF c = "odds" /\ answer = "ok" THEN odds ELSE req[s].odds
    OBVIOUS
  <1>5. o \in Snapshots
    BY <1>2, <1>3, <1>4, Data DEF Fit, Requests
  <1>6. PICK b : b = [req[s] EXCEPT !.get[c] = answer, !.odds = o]
    OBVIOUS
  <1>7. PICK p \in Resumed(b) : Step(s, p)
    BY <1>1, <1>4, <1>6
  <1>8. CallEnds(req[s], b, answer)
    BY <1>2, <1>5, <1>6, EndedCall
  <1>9. Follows(b, p)
    BY <1>2, <1>7, <1>8, ResumedFits DEF CallEnds
  <1> QED BY <1>2, <1>7, <1>8, <1>9, ServedInv DEF Serves, Follows, CallEnds

\* The end of a scan: the board is what was found, in some order.
LEMMA ScanFixtureKept == ASSUME AppInv, NEW s \in Slots, NEW id \in Fixtures, ScanFixture(s, id) PROVE Serves
  <1>1. PICK row \in {{}} \cup {{[id |-> id, odds |-> o]} : o \in
                     {x \in Quotes[id] : \E m \in Range(x) : hasFinitePrice(m)}} :
          LET q == [req[s] EXCEPT !.left = @ \ {id}, !.found = @ \cup row]
          IN  IF q.left = {} THEN ScanEnds(s, q) ELSE Step(s, q) /\ UNCHANGED cache
    BY DEF ScanFixture
  <1>2. req[s].pc = "scan" /\ UNCHANGED app /\ Fit(req[s]) /\ cache \in Seq(Rows)
    BY RequestFacts DEF ScanFixture
  <1>3. PICK q : q = [req[s] EXCEPT !.left = req[s].left \ {id}, !.found = req[s].found \cup row]
    OBVIOUS
  <1>4. row \subseteq Rows /\ IsFiniteSet(row)
    <2>1. CASE row = {}
      BY <2>1, FS_EmptySet
    <2>2. ASSUME NEW o \in Quotes[id], \E m \in Range(o) : hasFinitePrice(m), row = {[id |-> id, odds |-> o]}
          PROVE  row \subseteq Rows /\ IsFiniteSet(row)
      <3>1. [id |-> id, odds |-> o] \in Rows
        BY <2>2, Data DEF Rows
      <3> QED BY <2>2, <3>1, FS_Singleton
    <2> QED BY <2>1, <2>2
  <1>5. IsFiniteSet(req[s].found \cup row)
    BY <1>2, <1>4, FS_Union DEF Fit, Calling
  <1>6. q \in Requests
    BY <1>2, <1>3, <1>4 DEF Fit, Requests
  <1>7. Fit(q) /\ q.kind = req[s].kind /\ q.id = req[s].id /\ q.alive = req[s].alive /\ q.pc = "scan"
    BY <1>2, <1>3, <1>5, <1>6 DEF Fit, Requests, Calling, Settling
  <1>8. CASE Step(s, q) /\ UNCHANGED cache
    BY <1>2, <1>7, <1>8, ServedInv DEF Serves, Follows
  <1>9. CASE ScanEnds(s, q)
    <2>1. PICK data \in Sorted(q.found) :
            /\ \E board \in IF data = <<>> THEN {data, cache} ELSE {data} :
                 Step(s, WithBoard([q EXCEPT !.found = {}], board))
            /\ cache' = IF data = <<>> THEN cache ELSE data
      BY <1>9 DEF ScanEnds
    <2>2. data \in Seq(Rows)
      <3>1. Cardinality(q.found) \in Nat /\ q.found \subseteq Rows
        BY <1>7, FS_CardinalityType DEF Fit, Calling, Requests
      <3>2. data \in [1 .. Cardinality(q.found) -> Rows]
        BY <2>1, <3>1 DEF Sorted
      <3> QED BY <3>1, <3>2, SeqDef
    <2>3. PICK board \in {data, cache} : Step(s, WithBoard([q EXCEPT !.found = {}], board))
      BY <2>1
    <2>4. PICK b : b = [q EXCEPT !.found = {}]
      OBVIOUS
    <2>5. b \in Requests
      BY <1>7, <2>4 DEF Fit, Requests
    <2>6. /\ b.kind = q.kind /\ b.id = q.id /\ b.alive = q.alive /\ b.pc = "scan" /\ b.get = q.get
          /\ b.found = {}
      BY <1>7, <2>4 DEF Fit, Requests
    <2>7. Fit(b) /\ Idle(b) /\ b.kind # "none"
      BY <1>7, <2>4, <2>5, <2>6, FS_EmptySet DEF Fit, Requests, Calling, Settling, Idle
    <2>8. Follows(b, WithBoard(b, board))
      BY <1>2, <2>2, <2>7, WithBoardFits
    <2>9. Follows(req[s], WithBoard(b, board))
      BY <1>7, <2>6, <2>8 DEF Follows
    <2> QED BY <1>2, <2>1, <2>2, <2>3, <2>4, <2>9, ServedInv DEF Serves
  <1> QED BY <1>1, <1>3, <1>8, <1>9

LEMMA PrepareKept == ASSUME AppInv, NEW s \in Slots, Prepare(s) PROVE Serves
  <1>1. req[s].pc = "prepare" /\ UNCHANGED <<cache, app>> /\ Fit(req[s]) /\ cache \in Seq(Rows)
    BY RequestFacts DEF Prepare
  <1>2. CASE Step(s, Throw(req[s]))
    BY <1>1, <1>2, ThrowFits, ServedInv DEF Serves
  <1>3. CASE Step(s, [req[s] EXCEPT !.pc = "deposit"])
    <2>1. PICK p : p = [req[s] EXCEPT !.pc = "deposit"]
      OBVIOUS
    <2>2. p \in Requests
      BY <1>1, <2>1 DEF Fit, Requests
    <2>3. Follows(req[s], p)
      BY <1>1, <2>1, <2>2 DEF Fit, Follows, Requests, Calling, Settling
    <2> QED BY <1>1, <1>3, <2>1, <2>3, ServedInv DEF Serves
  <1> QED BY <1>2, <1>3 DEF Prepare

\* A transaction that lands changes the escrow of the request's mode alone.
LEMMA LandedFits ==
  ASSUME NEW q, Fit(q), q.kind = "settle" => q.pc \in {"deposit", "release"}, NEW e \in {"open", "paid"},
         NEW b, b = [q EXCEPT !.escrow[q.mode] = e]
  PROVE  Follows(q, b) /\ b.escrow[b.mode] = e /\ b.ref = q.ref /\ b.pc = q.pc
  <1>1. b \in Requests
    BY DEF Fit, Requests
  <1>2. /\ b.kind = q.kind /\ b.id = q.id /\ b.alive = q.alive /\ b.pc = q.pc /\ b.get = q.get
        /\ b.found = q.found /\ b.escrow = [q.escrow EXCEPT ![q.mode] = e] /\ b.mode = q.mode /\ b.ok = q.ok
        /\ b.fellBack = q.fellBack /\ b.ref = q.ref
    BY DEF Fit, Requests
  <1>3. Calling(b)
    BY <1>2 DEF Fit, Calling
  <1>4. q.escrow \in [Modes -> {"none", "open", "paid"}] /\ q.mode \in Modes
    BY DEF Fit, Requests
  <1>5. b.escrow[b.mode] = e /\ \A m \in Modes \ {q.mode} : b.escrow[m] = q.escrow[m]
    BY <1>2, <1>4
  <1>6. Settling(b)
    BY <1>2, <1>4, <1>5, Data DEF Fit, Settling
  <1> QED BY <1>1, <1>2, <1>3, <1>5, <1>6 DEF Fit, Follows

LEMMA DepositKept == ASSUME AppInv, NEW s \in Slots, Deposit(s) PROVE Serves
  <1>1. req[s].pc = "deposit" /\ UNCHANGED <<cache, app>> /\ Fit(req[s]) /\ cache \in Seq(Rows)
    BY RequestFacts DEF Deposit
  <1>2. PICK q : q = [req[s] EXCEPT !.pc = "release"]
    OBVIOUS
  <1>3. q \in Requests
    BY <1>1, <1>2 DEF Fit, Requests
  <1>4. Follows(req[s], q) /\ q.pc = "release"
    BY <1>1, <1>2, <1>3 DEF Fit, Follows, Requests, Calling, Settling
  <1>5. PICK landed : landed = [q EXCEPT !.escrow[q.mode] = "open"]
    OBVIOUS
  <1>6. Follows(q, landed)
    BY <1>4, <1>5, LandedFits DEF Follows
  <1>7. landed = IF q.mode = "arbiter" THEN open(q) ELSE initialize(q)
    <2>1. q.mode \in {"arbiter", "direct"}
      BY <1>3, Data DEF Requests
    <2> QED BY <1>5, <2>1 DEF open, initialize
  <1>8. Step(s, landed) \/ Step(s, Throw(landed)) \/ Step(s, Throw(q))
    BY <1>2, <1>7 DEF Deposit
  <1>9. Follows(req[s], landed) /\ Follows(landed, Throw(landed)) /\ Follows(q, Throw(q))
    BY <1>4, <1>6, ThrowFits DEF Follows
  <1>10. Follows(req[s], landed) /\ Follows(req[s], Throw(landed)) /\ Follows(req[s], Throw(q))
    BY <1>4, <1>9 DEF Follows
  <1> QED BY <1>1, <1>8, <1>10, ServedInv DEF Serves

LEMMA ReleaseKept == ASSUME AppInv, NEW s \in Slots, Release(s) PROVE Serves
  <1>1. PICK q : q = req[s]
    OBVIOUS
  <1>2. q.pc = "release" /\ UNCHANGED <<cache, app>> /\ Fit(q) /\ cache \in Seq(Rows)
    BY <1>1, RequestFacts DEF Release
  <1>3. PICK landed : landed = [q EXCEPT !.escrow[q.mode] = "paid"]
    OBVIOUS
  <1>4. Follows(q, landed) /\ landed.escrow[landed.mode] = "paid" /\ landed.ref = q.ref /\ landed.pc = "release"
    BY <1>2, <1>3, LandedFits
  <1>5. landed = IF q.mode = "arbiter" THEN arbitrateRelease(q) ELSE release(q)
    <2>1. q.mode \in {"arbiter", "direct"}
      BY <1>2, Data DEF Fit, Requests
    <2> QED BY <1>3, <2>1 DEF arbitrateRelease, release
  <1>6. Step(s, Answer(landed)) \/ Step(s, Throw(landed)) \/ Step(s, Throw(q))
    BY <1>1, <1>5 DEF Release
  <1>7. Follows(q, Answer(landed))
    <2>1. PICK p : p = Answer(landed)
      OBVIOUS
    <2>2. p = [landed EXCEPT !.pc = "done", !.ok = TRUE, !.get = [c \in Calls |-> "off"], !.odds = landed.odds]
      BY <2>1 DEF Answer, Ended
    <2>3. p \in Requests
      BY <1>4, <2>2 DEF Follows, Fit, Requests
    <2>4. /\ p.kind = q.kind /\ p.id = q.id /\ p.alive = q.alive /\ p.pc = "done" /\ p.found = landed.found
          /\ p.get = [c \in Calls |-> "off"] /\ p.escrow = landed.escrow /\ p.mode = landed.mode
          /\ p.fellBack = landed.fellBack /\ p.ref = landed.ref
      BY <1>4, <2>2 DEF Follows, Fit, Requests
    <2>5. Calling(p)
      BY <1>4, <2>4 DEF Follows, Fit, Calling
    <2>6. Settling(p)
      BY <1>4, <2>4 DEF Follows, Fit, Settling
    <2> QED BY <2>1, <2>3, <2>4, <2>5, <2>6 DEF Follows, Fit
  <1>8. Follows(landed, Throw(landed)) /\ Follows(q, Throw(q))
    BY <1>2, <1>4, ThrowFits DEF Follows
  <1>9. Follows(q, Throw(landed))
    BY <1>4, <1>8 DEF Follows
  <1> QED BY <1>1, <1>2, <1>6, <1>7, <1>8, <1>9, ServedInv DEF Serves

\* The proxy dies: what it served has failed.
LEMMA RestartKept == ASSUME AppInv, Restart PROVE Serves
  <1>1. /\ cache' = <<>> /\ UNCHANGED app
        /\ req' = [s \in Slots |-> IF req[s].pc = "done" THEN req[s]
                                   ELSE Ended([req[s] EXCEPT !.left = {}, !.found = {}], FALSE)]
    BY DEF Restart
  <1>2. ASSUME NEW s \in Slots PROVE Follows(req[s], req'[s])
    <2>1. Fit(req[s])
      BY RequestFacts
    <2>2. CASE req[s].pc = "done"
      BY <1>1, <2>1, <2>2 DEF Follows
    <2>3. CASE req[s].pc # "done"
      <3>1. PICK b : b = [req[s] EXCEPT !.left = {}, !.found = {}]
        OBVIOUS
      <3>2. b \in Requests /\ b.found = {}
        BY <2>1, <3>1 DEF Fit, Requests
      <3>3. Follows(req[s], b)
        BY <2>1, <3>1, <3>2, FS_EmptySet DEF Fit, Follows, Requests, Calling, Settling
      <3>4. Follows(b, Ended(b, FALSE))
        BY <3>3, EndedFits DEF Follows
      <3> QED BY <1>1, <2>3, <3>1, <3>3, <3>4 DEF Follows
    <2> QED BY <2>2, <2>3
  <1>3. req' \in [Slots -> Requests]
    <2>1. \A s \in Slots : req'[s] \in Requests
      BY <1>2 DEF Follows, Fit
    <2> QED BY <1>1, <2>1
  <1>4. \A t \in Slots : /\ req'[t].kind = req[t].kind /\ req'[t].id = req[t].id /\ req'[t].alive = req[t].alive
                         /\ Calling(req'[t]) /\ Settling(req'[t])
    BY <1>2 DEF Follows, Fit
  <1>5. OneEffect'
    BY <1>1, <1>4 DEF AppInv, OneEffect, Current, selected
  <1>6. Screen'
    BY <1>1, <1>4 DEF AppInv, Screen, selected, Rows, Fixtures, Snapshots
  <1> QED BY <1>1, <1>3, <1>4, <1>5, <1>6, Data DEF AppInv, Serves

-------------------------------------------------------------------------------
(* The browser.                                                            *)

\* The request a slot is given, and the free slot.
LEMMA NewRequest ==
  ASSUME NEW kind \in {"board", "edge", "settle"}, NEW id \in Ids, kind # "board" => id \in Fixtures
  PROVE  LET p == Request(kind, id)
         IN  Fit(p) /\ p.kind = kind /\ p.id = id /\ p.alive
  <1>1. PICK p : p = Request(kind, id)
    OBVIOUS
  <1>2. /\ p.kind = kind /\ p.id = id /\ p.alive = TRUE /\ p.pc = "start" /\ p.found = {}
        /\ p.get = [c \in Calls |-> "off"] /\ p.escrow = [m \in Modes |-> "none"]
    BY <1>1 DEF Request
  <1>3. p \in Requests
    BY <1>1, Data DEF Request, Requests
  <1>4. Calling(p)
    BY <1>2, FS_EmptySet DEF Calling
  <1>5. Settling(p)
    BY <1>2, Data DEF Settling
  <1> QED BY <1>1, <1>2, <1>3, <1>4, <1>5 DEF Fit

LEMMA FreeRequest == Fit(NoRequest) /\ NoRequest.kind = "none"
  <1>1. PICK p : p = Request("board", Demo)
    OBVIOUS
  <1>2. Fit(p)
    BY <1>1, NewRequest, Data
  <1>3. NoRequest = [p EXCEPT !.kind = "none", !.pc = "done"]
    BY <1>1 DEF NoRequest
  <1>4. NoRequest \in Requests
    BY <1>2, <1>3 DEF Fit, Requests
  <1>5. NoRequest.kind = "none" /\ NoRequest.pc = "done" /\ NoRequest.found = p.found /\ NoRequest.get = p.get
    BY <1>2, <1>3 DEF Fit, Requests
  <1>6. p.get = [c \in Calls |-> "off"]
    BY <1>1 DEF Request
  <1> QED BY <1>2, <1>4, <1>5, <1>6 DEF Fit, Calling, Settling

\* The read the browser makes itself: of a row of the live board it is labelled
\* as one, whichever odds it is made of, for the scan leaves out what is not priced.
LEMMA ClientRead ==
  ASSUME NEW fx, fx.id \in Ids, fx.odds \in Snapshots
  PROVE  /\ clientEdge(fx) \in Reads /\ clientEdge(fx).id = fx.id
         /\ fx \in Rows => clientEdge(fx).by = "client"
         /\ fx.odds = <<>> => clientEdge(fx).by = "demo"
  <1>1. PICK live, fav, by, sample :
          /\ live = clientMarket(fx.odds) /\ fav = Favourite(IF live.named THEN live ELSE demoOddsFor(fx.id))
          /\ by = IF \E m \in Range(fx.odds) : m.x12 \/ hasFinitePrice(m) THEN "client" ELSE "demo"
          /\ sample = ~ live.named
    OBVIOUS
  <1>2. clientEdge(fx) = [id |-> fx.id, fav |-> fav, by |-> by, sample |-> sample]
    BY <1>1 DEF clientEdge
  <1>3. fav \in Favourites
    <2>1. CASE live.named
      BY <1>1, <2>1 DEF Favourites
    <2>2. CASE ~ live.named
      BY <1>1, <2>2 DEF Favourites
    <2> QED BY <2>1, <2>2
  <1>4. sample \in BOOLEAN
    BY <1>1
  <1>5. fx \in Rows => by = "client"
    BY <1>1 DEF Rows
  <1>6. fx.odds = <<>> => by = "demo"
    BY <1>1 DEF Range
  <1> QED BY <1>1, <1>2, <1>3, <1>4, <1>5, <1>6 DEF Reads

\* The board a browser shows, with the fixture selected on it.
ShowsBoard(a) ==
  \/ a.source = "demo" /\ a.fixtures = DemoBoard /\ a.idx = 1
  \/ a.source = "live" /\ a.fixtures \in Seq(Rows) /\ a.idx \in DOMAIN a.fixtures

\* No step but that of EdgeDone asks for a settlement.
NoneAsked == \A t \in Slots : req'[t].kind = "settle" => req[t].kind = "settle"

LEMMA TurnKept ==
  ASSUME AppInv, NEW s \in Slots, NEW a \in Apps, ShowsBoard(a), Turn(a, s), cache' = cache
  PROVE  AppInv' /\ NoneAsked
  <1>1. PICK over : over = [t \in Slots |-> [req[t] EXCEPT !.alive = FALSE]]
    OBVIOUS
  <1>2. ASSUME NEW t \in Slots PROVE Fit(over[t]) /\ over[t].alive = FALSE /\ over[t].kind = req[t].kind
    <2>1. over[t] = [req[t] EXCEPT !.alive = FALSE] /\ Fit(req[t])
      BY <1>1, RequestFacts
    <2>2. over[t] \in Requests
      BY <2>1 DEF Fit, Requests
    <2> QED BY <2>1, <2>2 DEF Fit, Requests, Calling, Settling
  <1>3. PICK fx : fx = a.fixtures[a.idx]
    OBVIOUS
  <1>4. PICK fresh : fresh = [a EXCEPT !.edge = NoRead, !.settle = NoResult, !.settling = FALSE]
    OBVIOUS
  <1>5. fresh \in Apps
    BY <1>4, Data DEF Apps, Reads, NoRead, NoResult
  <1>6. /\ fresh.fixtures = a.fixtures /\ fresh.idx = a.idx /\ fresh.source = a.source /\ fresh.settling = FALSE
        /\ fresh.edge.by = "nobody" /\ fresh.settle.shown = FALSE
    BY <1>4 DEF Apps, NoRead, NoResult
  <1>7. CASE a.source = "live"
    <2>1. PICK p : p = Request("edge", fx.id)
      OBVIOUS
    <2>2. req' = [over EXCEPT ![s] = p] /\ app' = fresh
      BY <1>1, <1>3, <1>4, <1>7, <2>1 DEF Turn
    <2>3. fx \in Rows /\ a.fixtures \in Seq(Rows) /\ a.idx \in DOMAIN a.fixtures
      <3>1. a.fixtures \in Seq(Rows) /\ a.idx \in DOMAIN a.fixtures
        BY <1>7 DEF ShowsBoard
      <3> QED BY <1>3, <3>1, ElementOfSeq, LenProperties
    <2>4. Fit(p) /\ p.kind = "edge" /\ p.id = fx.id /\ p.alive
      BY <2>1, <2>3, NewRequest, Data DEF Rows
    <2>5. \A t \in Slots : req'[t] = IF t = s THEN p ELSE over[t]
      BY <1>1, <2>2
    <2>6. req' \in [Slots -> Requests]
      BY <1>1, <1>2, <2>2, <2>4 DEF Fit
    <2>7. \A t \in Slots : Calling(req'[t]) /\ Settling(req'[t])
      BY <1>2, <2>4, <2>5 DEF Fit
    <2>8. OneEffect'
      <3>1. app'.source = "live" /\ selected' = fx
        BY <1>3, <1>6, <1>7, <2>2 DEF selected
      <3>2. \A t \in Slots : Current(req'[t]) => t = s
        BY <1>2, <2>5 DEF Current
      <3> QED BY <2>4, <2>5, <3>1, <3>2 DEF OneEffect, Current
    <2>9. Screen'
      <3>1. ~ \E t \in Slots : req'[t].kind = "settle" /\ req'[t].alive
        BY <1>2, <2>4, <2>5
      <3> QED BY <1>6, <1>7, <2>2, <2>3, <3>1 DEF Screen
    <2> QED BY <1>2, <1>5, <2>2, <2>4, <2>5, <2>6, <2>7, <2>8, <2>9 DEF AppInv, NoneAsked
  <1>8. CASE a.source # "live"
    <2>1. a.source = "demo" /\ a.fixtures = DemoBoard /\ a.idx = 1
      BY <1>8 DEF ShowsBoard
    <2>2. fx = [id |-> Demo, odds |-> <<>>]
      BY <1>3, <2>1 DEF DemoBoard
    <2>3. clientEdge(fx) \in Reads /\ clientEdge(fx).id = Demo /\ clientEdge(fx).by = "demo"
      BY <2>2, ClientRead, Data
    <2>4. req' = [over EXCEPT ![s] = NoRequest] /\ app' = [fresh EXCEPT !.edge = clientEdge(fx)]
      BY <1>1, <1>3, <1>4, <1>8 DEF Turn
    <2>5. app' \in Apps
      BY <1>5, <2>3, <2>4 DEF Apps
    <2>6. /\ app'.fixtures = DemoBoard /\ app'.idx = 1 /\ app'.source = "demo" /\ app'.settling = FALSE
          /\ app'.edge.by = "demo" /\ app'.edge.id = Demo /\ app'.settle.shown = FALSE
      BY <1>5, <1>6, <2>1, <2>3, <2>4 DEF Apps
    <2>7. \A t \in Slots : req'[t] = IF t = s THEN NoRequest ELSE over[t]
      BY <1>1, <2>4
    <2>8. req' \in [Slots -> Requests]
      BY <1>1, <1>2, <2>4, FreeRequest DEF Fit
    <2>9. \A t \in Slots : Calling(req'[t]) /\ Settling(req'[t])
      BY <1>2, <2>7, FreeRequest DEF Fit
    <2>10. \A t \in Slots : ~ (req'[t].kind \in {"edge", "settle"} /\ req'[t].alive)
      BY <1>2, <2>7, FreeRequest
    <2>11. OneEffect'
      BY <2>10 DEF OneEffect, Current
    <2>12. Screen'
      <3>1. app'.fixtures[app'.idx].id = Demo
        BY <2>6 DEF DemoBoard
      <3> QED BY <2>6, <2>10, <3>1 DEF Screen, selected
    <2> QED BY <1>2, <2>5, <2>7, <2>8, <2>9, <2>11, <2>12, FreeRequest DEF AppInv, NoneAsked
  <1> QED BY <1>7, <1>8

\* A slot that was not of the current effect is reused: nothing that is shown
\* depends on it.
LEMMA SlotReused ==
  ASSUME AppInv, NEW s \in Slots, ~ Current(req[s]), NEW p, Fit(p), p.kind \in {"none", "board"}, Step(s, p),
         app' = app \/ \E load \in {"due", "sent", "over"} : app' = [app EXCEPT !.load = load], cache' = cache
  PROVE  AppInv' /\ NoneAsked
  <1>1. \A t \in Slots : req'[t] = IF t = s THEN p ELSE req[t]
    BY DEF AppInv, Step
  <1>2. req' \in [Slots -> Requests]
    BY DEF AppInv, Step, Fit
  <1>3. \A t \in Slots : Calling(req'[t]) /\ Settling(req'[t])
    BY <1>1 DEF AppInv, Fit
  <1>4. app' \in Apps
    BY DEF AppInv, Apps
  <1>5. /\ app'.fixtures = app.fixtures /\ app'.source = app.source /\ app'.idx = app.idx /\ app'.edge = app.edge
        /\ app'.settle = app.settle /\ app'.settling = app.settling
    BY DEF AppInv, Apps
  <1>6. OneEffect'
    BY <1>1, <1>5 DEF AppInv, OneEffect, Current, selected
  <1>7. (\E t \in Slots : req'[t].kind = "settle" /\ req'[t].alive) <=> \E t \in Slots : req[t].kind = "settle" /\ req[t].alive
    BY <1>1 DEF Current
  <1>8. Screen'
    BY <1>5, <1>7 DEF AppInv, Screen, selected, Rows, Fixtures, Snapshots
  <1> QED BY <1>1, <1>2, <1>3, <1>4, <1>6, <1>8 DEF AppInv, NoneAsked

LEMMA LoadSendKept == ASSUME AppInv, NEW s \in Slots, LoadSend(s) PROVE AppInv' /\ NoneAsked
  <1>1. Fit(Request("board", Demo)) /\ Request("board", Demo).kind = "board"
    BY NewRequest, Data
  <1> QED BY <1>1, SlotReused DEF LoadSend, Free, Current

LEMMA LoadDoneKept == ASSUME AppInv, NEW s \in Slots, LoadDone(s) PROVE AppInv' /\ NoneAsked
  <1>1. req[s].kind = "board" /\ cache' = cache /\ req[s].board \in Seq(Rows) /\ app \in Apps
    BY RequestFacts DEF LoadDone, Requests, AppInv
  <1>2. CASE req[s].board # <<>> /\ Turn([app EXCEPT !.fixtures = req[s].board, !.source = "live", !.idx = 1,
                                                     !.load = "over"], s)
    <2>1. PICK a : a = [app EXCEPT !.fixtures = req[s].board, !.source = "live", !.idx = 1, !.load = "over"]
      OBVIOUS
    <2>2. a \in Apps /\ a.source = "live" /\ a.fixtures = req[s].board /\ a.idx = 1
      BY <1>1, <2>1 DEF Apps
    <2>3. 1 \in DOMAIN req[s].board
      BY <1>1, <1>2, EmptySeq, LenProperties
    <2> QED BY <1>1, <1>2, <2>1, <2>2, <2>3, TurnKept DEF ShowsBoard
  <1>3. ASSUME NEW load \in {"due", "over"},
               Turn([app EXCEPT !.fixtures = DemoBoard, !.source = "demo", !.load = load], s), app.fixtures = <<>>
        PROVE  AppInv' /\ NoneAsked
    <2>1. PICK a : a = [app EXCEPT !.fixtures = DemoBoard, !.source = "demo", !.load = load]
      OBVIOUS
    <2>2. a \in Apps /\ a.source = "demo" /\ a.fixtures = DemoBoard /\ a.idx = app.idx
      BY <1>1, <2>1 DEF Apps
    <2>3. app.idx = 1
      <3>1. app.source = "live" => app.idx \in DOMAIN app.fixtures
        BY DEF AppInv, Screen
      <3>2. DOMAIN app.fixtures = {}
        BY <1>3
      <3> QED BY <3>1, <3>2 DEF AppInv, Screen
    <2> QED BY <1>1, <1>3, <2>1, <2>2, <2>3, TurnKept DEF ShowsBoard
  <1>4. ASSUME NEW load \in {"due", "over"}, app' = [app EXCEPT !.load = load], Step(s, NoRequest)
        PROVE  AppInv' /\ NoneAsked
    BY <1>1, <1>4, FreeRequest, SlotReused DEF Current
  <1> QED BY <1>2, <1>3, <1>4 DEF LoadDone

LEMMA SelectKept == ASSUME AppInv, NEW i, Select(i) PROVE AppInv' /\ NoneAsked
  <1>1. PICK s \in Slots : Turn([app EXCEPT !.idx = i], s)
    BY DEF Select
  <1>2. i \in DOMAIN app.fixtures \ {app.idx} /\ cache' = cache /\ app \in Apps
    BY DEF Select, AppInv
  <1>3. app.source = "live" /\ app.fixtures \in Seq(Rows)
    BY <1>2 DEF AppInv, Screen, DemoBoard
  <1>4. i \in Nat
    BY <1>2, <1>3, LenProperties
  <1>5. PICK a : a = [app EXCEPT !.idx = i]
    OBVIOUS
  <1>6. a \in Apps /\ a.source = "live" /\ a.fixtures = app.fixtures /\ a.idx = i
    BY <1>2, <1>3, <1>4, <1>5 DEF Apps
  <1> QED BY <1>1, <1>2, <1>3, <1>5, <1>6, TurnKept DEF ShowsBoard

\* What the current request knows of the others and of the browser.
LEMMA CurrentFacts ==
  ASSUME AppInv, NEW s \in Slots, Current(req[s])
  PROVE  /\ app.source = "live" /\ app.fixtures \in Seq(Rows) /\ app.idx \in DOMAIN app.fixtures
         /\ selected \in Rows /\ selected \in Range(app.fixtures) /\ req[s].id = selected.id
         /\ \A t \in Slots : Current(req[t]) => t = s
  <1>1. /\ app.source = "live" /\ req[s].id = selected.id
        /\ \A t \in Slots : Current(req[t]) => t = s
    BY DEF AppInv, OneEffect
  <1>2. app.fixtures \in Seq(Rows) /\ app.idx \in DOMAIN app.fixtures
    BY <1>1 DEF AppInv, Screen
  <1>3. selected \in Rows /\ selected \in Range(app.fixtures)
    BY <1>2, ElementOfSeq, LenProperties DEF selected, Range
  <1> QED BY <1>1, <1>2, <1>3

\* What a settlement is asked for with.
Asks(s) ==
  /\ app.source = "live" /\ req'[s].id \in Fixtures
  /\ app'.edge.by # "nobody" /\ app'.edge.id = req'[s].id /\ app'.settling

LEMMA EdgeDoneKept ==
  ASSUME AppInv, NEW s \in Slots, EdgeDone(s)
  PROVE  AppInv' /\ \A t \in Slots : req'[t].kind = "settle" /\ req[t].kind # "settle" => Asks(t)
  <1>1. req[s].kind = "edge" /\ cache' = cache /\ Fit(req[s]) /\ app \in Apps
    BY RequestFacts DEF EdgeDone, AppInv
  <1>2. CASE ~ req[s].alive
    BY <1>1, <1>2, FreeRequest, SlotReused DEF EdgeDone, Current, NoneAsked
  <1>3. CASE req[s].alive
    <2>1. Current(req[s])
      BY <1>1, <1>3 DEF Current
    <2>2. req[s].id \in Fixtures /\ req[s].odds \in Snapshots
      BY <1>1 DEF Fit, Calling, Requests
    <2>0. PICK fx : fx = CHOOSE x \in Range(app.fixtures) : x.id = req[s].id
      OBVIOUS
    <2>3. PICK read : read = IF req[s].ok
                 THEN [id |-> req[s].id, fav |-> favouriteOf(req[s].odds), by |-> "agent", sample |-> FALSE]
                 ELSE clientEdge(fx)
      OBVIOUS
    <2>4. PICK p : p = Request("settle", req[s].id)
      OBVIOUS
    <2>5. Step(s, p) /\ app' = [app EXCEPT !.edge = read, !.settling = TRUE]
      BY <1>3, <2>0, <2>3, <2>4 DEF EdgeDone
    <2>6. Fit(p) /\ p.kind = "settle" /\ p.id = req[s].id /\ p.alive
      BY <2>2, <2>4, NewRequest, Data
    <2>7. read \in Reads /\ read.id = req[s].id /\ read.by \in {"client", "agent"}
      <3>1. CASE req[s].ok
        BY <2>2, <2>3, <3>1, Data DEF Reads
      <3>2. CASE ~ req[s].ok
        <4>1. fx \in Range(app.fixtures) /\ fx.id = req[s].id /\ app.fixtures \in Seq(Rows)
          BY <2>1, <2>0, CurrentFacts
        <4>2. fx \in Rows
          BY <4>1, ElementOfSeq, LenProperties DEF Range
        <4>3. fx.id \in Ids /\ fx.odds \in Snapshots
          BY <4>2, Data DEF Rows
        <4> QED BY <2>3, <3>2, <4>1, <4>2, <4>3, ClientRead
      <3> QED BY <3>1, <3>2
    <2>8. app' \in Apps
      BY <1>1, <2>5, <2>7 DEF Apps
    <2>9. /\ app'.fixtures = app.fixtures /\ app'.source = app.source /\ app'.idx = app.idx
          /\ app'.settle = app.settle /\ app'.settling = TRUE /\ app'.edge = read
      BY <1>1, <2>5 DEF Apps
    <2>10. \A t \in Slots : req'[t] = IF t = s THEN p ELSE req[t]
      BY <2>5 DEF AppInv, Step
    <2>11. req' \in [Slots -> Requests] /\ \A t \in Slots : Calling(req'[t]) /\ Settling(req'[t])
      BY <2>5, <2>6, <2>10 DEF AppInv, Fit, Step
    <2>12. selected' = selected /\ req[s].id = selected.id /\ app.source = "live"
      BY <2>1, <2>9, CurrentFacts DEF selected
    <2>13. \A t \in Slots : Current(req'[t]) => t = s
      BY <2>1, <2>10, CurrentFacts
    <2>14. OneEffect'
      BY <2>6, <2>9, <2>10, <2>12, <2>13 DEF OneEffect
    <2>15. Screen'
      <3>1. app'.fixtures \in Seq(Rows) /\ app'.idx \in DOMAIN app'.fixtures
        BY <2>1, <2>9, CurrentFacts
      <3>2. read.id = selected.id /\ read.by # "nobody" /\ read.by # "demo"
        BY <2>7, <2>12
      <3>3. app'.settle.shown => app'.settle.id = selected'.id
        BY <2>9, <2>12 DEF AppInv, Screen
      <3>4. req'[s].kind = "settle" /\ req'[s].alive
        BY <2>6, <2>10
      <3> QED BY <2>9, <2>12, <3>1, <3>2, <3>3, <3>4 DEF Screen
    <2>16. Asks(s)
      BY <2>2, <2>6, <2>7, <2>9, <2>10, <2>12 DEF Asks
    <2> QED BY <1>1, <2>8, <2>10, <2>11, <2>14, <2>15, <2>16 DEF AppInv
  <1> QED BY <1>2, <1>3

LEMMA SettleDoneKept == ASSUME AppInv, NEW s \in Slots, SettleDone(s) PROVE AppInv' /\ NoneAsked
  <1>1. req[s].kind = "settle" /\ cache' = cache /\ Fit(req[s]) /\ app \in Apps /\ Step(s, NoRequest)
    BY RequestFacts DEF SettleDone, AppInv
  <1>2. CASE ~ req[s].alive
    BY <1>1, <1>2, FreeRequest, SlotReused DEF SettleDone, Current
  <1>3. CASE req[s].alive
    <2>1. Current(req[s]) /\ app.settling
      BY <1>1, <1>3 DEF Current, AppInv, Screen
    <2>2. app' = [app EXCEPT !.settling = FALSE,
                             !.settle = [shown |-> TRUE, ok |-> req[s].ok, id |-> req[s].id,
                                         fav |-> req[s].ref.fav]]
      BY <1>3 DEF SettleDone
    <2>3. req[s].ok \in BOOLEAN /\ req[s].id \in Ids /\ req[s].ref.fav \in Favourites
      BY <1>1 DEF Fit, Requests, Refs
    <2>4. app' \in Apps
      BY <1>1, <2>2, <2>3 DEF Apps
    <2>5. /\ app'.fixtures = app.fixtures /\ app'.source = app.source /\ app'.idx = app.idx
          /\ app'.edge = app.edge /\ app'.settling = FALSE /\ app'.settle.id = req[s].id
      BY <1>1, <2>2 DEF Apps
    <2>6. \A t \in Slots : req'[t] = IF t = s THEN NoRequest ELSE req[t]
      BY <1>1 DEF AppInv, Step
    <2>7. req' \in [Slots -> Requests] /\ \A t \in Slots : Calling(req'[t]) /\ Settling(req'[t])
      BY <1>1, <2>6, FreeRequest DEF AppInv, Fit, Step
    <2>8. \A t \in Slots : ~ Current(req'[t])
      BY <2>1, <2>6, CurrentFacts, FreeRequest DEF Current
    <2>9. selected' = selected /\ req[s].id = selected.id
      BY <2>1, <2>5, CurrentFacts DEF selected
    <2>10. Screen'
      BY <2>1, <2>5, <2>8, <2>9 DEF AppInv, Screen, Current, Rows, Fixtures, Snapshots
    <2> QED BY <1>1, <2>4, <2>6, <2>7, <2>8, <2>10, FreeRequest DEF AppInv, OneEffect, NoneAsked
  <1> QED BY <1>2, <1>3

-------------------------------------------------------------------------------
(* The theorems.                                                           *)

LEMMA AppInit == ASSUME Init PROVE AppInv
  <1>1. req \in [Slots -> Requests] /\ \A s \in Slots : Fit(req[s]) /\ req[s].kind = "none"
    BY FreeRequest DEF Init, Fit
  <1>2. app \in Apps
    <2>1. NoRead \in Reads
      BY Data DEF NoRead, Reads
    <2>2. NoResult \in [shown : BOOLEAN, ok : BOOLEAN, id : Ids, fav : Favourites]
      BY Data DEF NoResult
    <2> QED BY <2>1, <2>2, Data DEF Init, Apps
  <1>3. Screen /\ OneEffect
    BY <1>1 DEF Init, Screen, OneEffect, Current, NoRead, NoResult
  <1> QED BY <1>1, <1>2, <1>3, Data DEF Init, AppInv, Fit

\* Every step keeps the invariant, and only the step that shows a read asks for a
\* settlement.
Asked == \A t \in Slots : req'[t].kind = "settle" /\ req[t].kind # "settle" => Asks(t)

LEMMA AppStep == ASSUME AppInv, [Next]_vars PROVE AppInv' /\ Asked
  <1>1. ASSUME NEW s \in Slots, Serve(s) PROVE Serves
    BY <1>1, CallKept, ActivateKept, UpstreamKept, ScanFixtureKept, PrepareKept, DepositKept, ReleaseKept
       DEF Serve
  <1>2. ASSUME NEW s \in Slots, Browse(s) PROVE AppInv' /\ Asked
    BY <1>2, LoadSendKept, LoadDoneKept, EdgeDoneKept, SettleDoneKept DEF Browse, NoneAsked, Asked
  <1>3. ASSUME NEW i, Select(i) PROVE AppInv' /\ Asked
    BY <1>3, SelectKept DEF NoneAsked, Asked
  <1>4. CASE UNCHANGED vars
    <2>1. cache' = cache /\ req' = req /\ app' = app
      BY <1>4 DEF vars
    <2>2. OneEffect'
      BY <2>1 DEF AppInv, OneEffect, selected
    <2>3. Screen'
      BY <2>1 DEF AppInv, Screen, selected
    <2> QED BY <2>1, <2>2, <2>3 DEF AppInv, Asked
  <1> QED BY <1>1, <1>2, <1>3, <1>4, RestartKept DEF Next, Serves, Asked

LEMMA AppAlways == Spec => []AppInv
  BY AppInit, AppStep, PTL DEF Spec

\* What the browser shows belongs to the fixture that is selected, and it waits
\* for a settlement exactly while one is out that ends the wait (web/app.js
\* drops the answers of an effect that is over).
THEOREM ShowsTheSelected == Spec => []ShownIsSelected
  <1>1. ASSUME AppInv PROVE ShownIsSelected
    <2> SUFFICES ASSUME app.fixtures # <<>> PROVE ShownIsSelected
      BY DEF ShownIsSelected
    <2>1. CASE app.source = "demo"
      <3>1. app.fixtures = DemoBoard /\ app.idx = 1
        BY <1>1, <2>1 DEF AppInv, Screen
      <3>2. app.idx \in DOMAIN app.fixtures /\ selected.id = Demo
        BY <3>1 DEF DemoBoard, selected
      <3>3. \A s \in Slots : ~ Current(req[s])
        BY <1>1, <2>1 DEF AppInv, OneEffect
      <3> QED BY <1>1, <2>1, <3>2, <3>3 DEF AppInv, Screen, ShownIsSelected, Current
    <2>2. CASE app.source = "live"
      <3>1. app.fixtures \in Seq(Rows) /\ app.idx \in DOMAIN app.fixtures
        BY <1>1, <2>2 DEF AppInv, Screen
      <3>2. selected \in Rows
        BY <3>1, ElementOfSeq, LenProperties DEF selected
      <3>3. selected.id # Demo
        BY <3>2, WorldCupAssumption DEF Rows
      <3>4. \A s \in Slots : req[s].kind = "settle" /\ req[s].alive => req[s].id = selected.id
        BY <1>1 DEF AppInv, OneEffect, Current
      <3> QED BY <1>1, <2>2, <3>1, <3>3, <3>4 DEF AppInv, Screen, ShownIsSelected
    <2> QED BY <1>1, <2>1, <2>2 DEF AppInv, Screen
  <1> QED BY <1>1, AppAlways, PTL

\* A settlement answered with ok was paid on the chain under the reference it
\* reports, and nothing else of it was locked unless the arbitrated escrow failed
\* first (server/proxy.ts, settleEdge).
THEOREM SettledWasPaid == Spec => []OkSettlementPaidOnce
  <1>1. ASSUME AppInv PROVE OkSettlementPaidOnce
    <2>1. ASSUME NEW s \in Slots, req[s].kind = "settle", req[s].pc = "done", req[s].ok
          PROVE  /\ req[s].escrow[req[s].mode] = "paid" /\ req[s].ref.id = req[s].id
                 /\ \A m \in Modes \ {req[s].mode} : req[s].escrow[m] # "none" => req[s].fellBack
      <3>1. Settling(req[s])
        BY <1>1 DEF AppInv
      <3> QED BY <2>1, <3>1, Data DEF Settling
    <2> QED BY <2>1 DEF OkSettlementPaidOnce
  <1> QED BY <1>1, AppAlways, PTL

\* A settlement is asked for only in the step that shows a read of that fixture,
\* on the live board: a read given up while it was fetched is never paid for
\* (web/app.js, the effect of the selection).
THEOREM PaidAfterRead == Spec => PaysAfterRead
  <1>1. ASSUME AppInv, [Next]_vars
        PROVE  [\A s \in Slots :
                  req'[s].kind = "settle" /\ req[s].kind # "settle" =>
                    /\ app.source = "live" /\ req'[s].id \in Fixtures
                    /\ app'.edge.by # "nobody" /\ app'.edge.id = req'[s].id /\ app'.settling]_vars
    BY <1>1, AppStep DEF Asked, Asks
  <1> QED BY <1>1, AppAlways, PTL DEF Spec, PaysAfterRead
===============================================================================
