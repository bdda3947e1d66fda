------------------------------- MODULE Bridge -------------------------------
(***************************************************************************)
(* The bridge of the agent economy (examples/agent-economy/bridge): it     *)
(* makes a Coral session when the first order comes, opens a thread for    *)
(* every order and speaks in it for the person who pays, and it starts the *)
(* autonomous sessions once.  A client is a browser tab                    *)
(* (web/src/hooks/useCheckout.ts), with one request out at a time.         *)
(***************************************************************************)
EXTENDS Naturals, FiniteSets

CONSTANTS
  Tabs,         \* the clients
  Fronts,       \* the sessions to start: autonomous, swarm
  MaxThreads,   \* bound of the orders
  MaxSessions   \* bound of the sessions made, and of the bridge's restarts

Orders == 1 .. MaxThreads

BridgeAssumption == {MaxThreads, MaxSessions} \subseteq Nat /\ IsFiniteSet(Fronts)

VARIABLES
  session,  \* the memoised promise of the session
  orders,   \* the orders that can be paid
  running,  \* front -> the session to reuse, 0 for none
  http,     \* the request of each tab
  tab,      \* the order each tab holds, and whether it paid it
  thread,   \* order -> how far the conversation is
  made,     \* counters: threads, started sessions, restarts
  overlap   \* history: two starts of one front were out at once

bridgeVars == <<session, orders, running, http, tab, thread, made, overlap>>

NoHttp == [pc |-> "none", order |-> 0, front |-> "none"]
NoOrder == [order |-> 0, paid |-> FALSE]

BridgeInit ==
  /\ session = "none" /\ orders = {}
  /\ running = [f \in Fronts |-> 0]
  /\ http = [t \in Tabs |-> NoHttp]
  /\ tab = [t \in Tabs |-> NoOrder]
  /\ thread = [o \in Orders |-> "none"]
  /\ made = [threads |-> 0, sessions |-> 0, restarts |-> 0]
  /\ overlap = FALSE

Goes(t, pc) == http' = [http EXCEPT ![t].pc = pc]
Answered(t) == http' = [http EXCEPT ![t] = NoHttp]

-----------------------------------------------------------------------------
(***************************************************************************)
(* The Coral session.  ensureSession keeps the promise of the first call;  *)
(* only an answer other than ok forgets it again.                          *)
(***************************************************************************)
ensureSession == session' = IF session = "none" THEN "creating" ELSE session

AwaitingSession == {t \in Tabs : http[t].pc \in {"session", "inject"}}
FailAwaiting == http' = [t \in Tabs |-> IF t \in AwaitingSession THEN NoHttp ELSE http[t]]

SessionCreated ==
  /\ session = "creating" /\ session' = "ready"
  /\ UNCHANGED <<orders, running, http, tab, thread, made, overlap>>

SessionFails ==
  /\ session = "creating" /\ session' \in {"none", "broken"} /\ FailAwaiting
  /\ UNCHANGED <<orders, running, tab, thread, made, overlap>>
-----------------------------------------------------------------------------
(***************************************************************************)
(* POST /order.                                                            *)
(***************************************************************************)
StartOrder(t) ==
  /\ http[t] = NoHttp /\ tab[t].paid = FALSE /\ session # "broken"
  /\ ensureSession /\ Goes(t, "session")
  /\ tab' = [tab EXCEPT ![t] = NoOrder]
  /\ UNCHANGED <<orders, running, thread, made, overlap>>

OpenThread(t) ==
  /\ http[t].pc = "session" /\ session = "ready" /\ made.threads < MaxThreads
  /\ made' = [made EXCEPT !.threads = @ + 1]
  /\ thread' = [thread EXCEPT ![made'.threads] = "asked"]
  /\ http' = [http EXCEPT ![t].pc = "quote", ![t].order = made'.threads]
  /\ UNCHANGED <<session, orders, running, tab, overlap>>

\* pollThread sees PAYMENT_REQUIRED in the transcript.
Quoted(t) ==
  /\ http[t].pc = "quote" /\ thread[http[t].order] = "quoted"
  /\ orders' = orders \cup {http[t].order}
  /\ tab' = [tab EXCEPT ![t].order = http[t].order] /\ Answered(t)
  /\ UNCHANGED <<session, running, thread, made, overlap>>

\* An error, or the end of the 35 s: 502.
Fails(t) ==
  /\ http[t] # NoHttp /\ Answered(t)
  /\ UNCHANGED <<session, orders, running, tab, thread, made, overlap>>
-----------------------------------------------------------------------------
(***************************************************************************)
(* The payment, and POST /order/:reference/paid.                           *)
(***************************************************************************)
PayOrder(t) ==
  /\ http[t] = NoHttp /\ tab[t].order > 0 /\ ~ tab[t].paid
  /\ tab' = [tab EXCEPT ![t].paid = TRUE]
  /\ UNCHANGED <<session, orders, running, http, thread, made, overlap>>

\* 404 for an order that is not known (any more).
SubmitPaid(t) ==
  /\ http[t] = NoHttp /\ tab[t].paid /\ session # "broken"
  /\ tab[t].order \in orders
  /\ ensureSession
  /\ http' = [http EXCEPT ![t].pc = "inject", ![t].order = tab[t].order]
  /\ UNCHANGED <<orders, running, tab, thread, made, overlap>>

\* A variant that forgets the order before the seller has delivered.
InjectPaidForgetting(t) ==
  /\ http[t].pc = "inject" /\ session = "ready" /\ Goes(t, "deliver")
  /\ thread' = [thread EXCEPT ![http[t].order] = IF @ = "quoted" THEN "proven" ELSE @]
  /\ orders' = orders \ {http[t].order}
  /\ UNCHANGED <<session, running, tab, made, overlap>>

InjectPaid(t) ==
  /\ http[t].pc = "inject" /\ session = "ready" /\ Goes(t, "deliver")
  /\ thread' = [thread EXCEPT ![http[t].order] = IF @ = "quoted" THEN "proven" ELSE @]
  /\ UNCHANGED <<session, orders, running, tab, made, overlap>>

DeliveredTo(t) ==
  /\ http[t].pc = "deliver" /\ thread[http[t].order] = "delivered"
  /\ orders' = orders \ {http[t].order}
  /\ tab' = [tab EXCEPT ![t] = NoOrder] /\ Answered(t)
  /\ UNCHANGED <<session, running, thread, made, overlap>>

\* The seller agent, in the thread of the order.
SellerSpeaks(o) ==
  /\ \/ thread[o] = "asked" /\ thread' = [thread EXCEPT ![o] = "quoted"]
     \/ thread[o] = "proven" /\ thread' = [thread EXCEPT ![o] = "delivered"]
  /\ UNCHANGED <<session, orders, running, http, tab, made, overlap>>
-----------------------------------------------------------------------------
(***************************************************************************)
(* POST /autonomous/start and /swarm/start: the id is looked up on arrival *)
(* and set when the session has been created.                              *)
(***************************************************************************)
StartFront(t, f) ==
  /\ http[t] = NoHttp /\ running[f] = 0
  /\ http' = [http EXCEPT ![t].pc = "start", ![t].front = f]
  /\ overlap' = (overlap \/ \E u \in Tabs : http[u].front = f)
  /\ UNCHANGED <<session, orders, running, tab, thread, made>>

FrontStarted(t) ==
  /\ http[t].pc = "start" /\ made.sessions < MaxSessions
  /\ made' = [made EXCEPT !.sessions = @ + 1]
  /\ running' = [running EXCEPT ![http[t].front] = made'.sessions]
  /\ Answered(t)
  /\ UNCHANGED <<session, orders, tab, thread, overlap>>

\* Everything is in memory.
BridgeRestarts ==
  /\ made.restarts < MaxSessions /\ made' = [made EXCEPT !.restarts = @ + 1]
  /\ session' = "none" /\ orders' = {} /\ running' = [f \in Fronts |-> 0]
  /\ http' = [t \in Tabs |-> NoHttp]
  /\ UNCHANGED <<tab, thread, overlap>>

BridgeNext ==
  \/ SessionCreated \/ SessionFails \/ BridgeRestarts
  \/ \E o \in Orders : SellerSpeaks(o)
  \/ \E t \in Tabs :
       \/ StartOrder(t) \/ OpenThread(t) \/ Quoted(t) \/ Fails(t)
       \/ PayOrder(t) \/ SubmitPaid(t) \/ InjectPaid(t) \/ DeliveredTo(t)
       \/ FrontStarted(t) \/ \E f \in Fronts : StartFront(t, f)

BridgeSpec == BridgeInit /\ [][BridgeNext]_bridgeVars
-----------------------------------------------------------------------------
\* A person who has paid can always come back for the data: until the bridge
\* restarts the order is kept, whatever timed out or failed in between, unless
\* its data has been delivered into its thread; and the fronts keep one session
\* each as long as their starts do not overlap
\* (bridge/server.ts:202-222, 233-249, 283-314).
PaidOrderIsKept ==
  made.restarts = 0 =>
    /\ \A t \in Tabs : tab[t].paid =>
         tab[t].order \in orders \/ thread[tab[t].order] = "delivered"
    /\ ~ overlap => made.sessions <= Cardinality({f \in Fronts : running[f] > 0})
=============================================================================
