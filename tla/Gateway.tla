------------------------------ MODULE Gateway ------------------------------
(***************************************************************************)
(* One client of the D-Bus gateway and its host bus connection:            *)
(* src/src/gateway.rs (Client, client, forward, registered, serve_host,     *)
(* relay_reply, fail_pending, relay_signal, close_if_done, name_changed).   *)
(*                                                                         *)
(* Three gateway threads act on the client: the reader of the portal        *)
(* connection ("portal"), which also sees the client leave, the reader of   *)
(* a dbus.talk connection ("talk"), and the reader of the client's host     *)
(* connection ("host").  The first and the last both run forward: the last  *)
(* one for the calls held while the portal is registered with again.        *)
(*                                                                         *)
(* Outside the gateway: the sandbox app, the host bus, which delivers in    *)
(* order and activates the portal, and the portal's successive instances,   *)
(* which answer in any order, may exit at any time, and may be replaced     *)
(* by another one while they still answer.                                  *)
(*                                                                         *)
(* A call is its number in the order the app makes them; message 0 is       *)
(* Register.  Serials are left out: each message is sent once per           *)
(* connection, and only one Register is unanswered at a time.               *)
(***************************************************************************)
EXTENDS Integers, Sequences

CONSTANTS
  N,            \* number of calls the app makes
  Kinds,        \* the kinds of call it may make
  MaxInst,      \* number of portal instances that may be started
  HostMayClose, \* whether the host bus may close the connection
  MayLeave,     \* whether the app may leave the private bus
  BadReplies,   \* whether the portal may send a reply that cannot be decoded
  ActivationFails, \* whether the portal may fail to start or to register
  MayReplace    \* whether a portal may take the name over from one that runs

\* "plain": any portal call; "open": an OpenURI call; "close": Request.Close
\* on the request of an earlier OpenURI call; "talk": a call to a talk name.
AllKinds == {"plain", "open", "close", "talk"}

ASSUME GatewayAssumption ==
  /\ N \in Nat /\ MaxInst \in Nat
  /\ Kinds \subseteq AllKinds
  /\ HostMayClose \in BOOLEAN /\ MayLeave \in BOOLEAN
  /\ BadReplies \in BOOLEAN /\ ActivationFails \in BOOLEAN /\ MayReplace \in BOOLEAN

Call == 1..N
Register == 0
Msg == 0..N
Inst == 1..MaxInst
NoInst == 0
ByName == 0       \* destination: the portal's well-known name
Leaving == N + 1  \* NameOwnerChanged for the app, on the portal connection

Thread == {"portal", "talk", "host"}
Incoming == [type : {"noc", "ok", "err", "bad", "response"}, msg : Msg, inst : 0..MaxInst]
Outgoing == [msg : Msg, dest : 0..MaxInst]

VARIABLES
  kind,      \* kind[c]
  issued,    \* calls the app has made so far
  left,      \* the app has left the private bus
  queue,     \* queue[t]: what thread t has still to read from the private bus
  answers,   \* answers[c]: replies and errors the app has been sent for c
  phase,     \* where Gateway::client is: the connection being set up
  mapped,    \* the client is in Gateway::clients
  gone,      \* Client::gone
  appId,     \* PortalState::app_id is set
  owner,     \* PortalState::owner
  registering, \* PortalState::registering is set
  draining,  \* PortalState::draining
  held,      \* PortalState::held
  owners,    \* Client::owners of the portal's name
  pending,   \* calls in Client::pending
  openReqs,  \* calls whose request is in Client::open_requests
  pc,        \* pc[t]: where thread t is
  call,      \* call[t]: the call thread t forwards
  dest,      \* dest[t]: the destination it chose for it
  batch,     \* registered: the held calls being passed on
  open,      \* the host connection is open
  outbox,    \* sent on it and not yet routed by the bus
  inbox,     \* sent by the bus and not yet read (the backlog included)
  inst,      \* the portal instance that owns the name, or NoInst
  alive,     \* the instances that run: inst and those it has replaced
  started,   \* instances started so far
  log,       \* log[k]: what instance k has received from this connection
  accepted,  \* instances that accepted a Register
  busy,      \* <<m, k>>: instance k, or a talk service, has still to answer m
  orphans,   \* messages an instance left unanswered when it exited
  requests,  \* OpenURI calls whose request the instance has still to answer
  closed     \* OpenURI calls whose request the app has closed

appVars    == <<kind, issued, left>>
portalVars == <<appId, owner, registering, draining, held>>
clientVars == <<mapped, gone, owners, pending, openReqs>>
threadVars == <<pc, call, dest, batch>>
hostVars   == <<inst, alive, started, log, accepted, busy, orphans, requests, closed>>
vars == <<appVars, queue, answers, phase, portalVars, clientVars, threadVars, open, outbox, inbox, hostVars>>

Answer(cs) == answers' = [c \in Call |-> IF c \in cs THEN answers[c] + 1 ELSE answers[c]]

ReaderOf(c) == IF kind[c] = "talk" THEN "talk" ELSE "portal"

\* The OpenURI calls whose request a Request.Close may name.
Opens == {c \in Call : kind[c] = "open"}

In(type, m, k) == [type |-> type, msg |-> m, inst |-> k]

Init ==
  /\ kind \in [Call -> Kinds]
  /\ issued = 0
  /\ left = FALSE
  /\ queue = [t \in Thread |-> <<>>]
  /\ answers = [c \in Call |-> 0]
  /\ phase = "register"
  /\ mapped = FALSE /\ gone = FALSE
  /\ appId = FALSE /\ owner = NoInst
  /\ registering = FALSE /\ draining = FALSE /\ held = <<>>
  /\ owners = NoInst
  /\ pending = {} /\ openReqs = {}
  /\ pc = [t \in Thread |-> "idle"]
  /\ call = [t \in Thread |-> Register]
  /\ dest = [t \in Thread |-> ByName]
  /\ batch = <<>>
  /\ open = TRUE
  /\ outbox = <<>> /\ inbox = <<>>
  /\ inst \in {NoInst} \cup (Inst \cap {1})
  /\ started = inst
  /\ alive = {inst} \ {NoInst}
  /\ log = [k \in Inst |-> <<>>]
  /\ accepted = {} /\ busy = {} /\ orphans = {} /\ requests = {} /\ closed = {}

-----------------------------------------------------------------------------
(* The app.                                                                 *)

Issue ==
  /\ ~left
  /\ issued < N
  /\ issued' = issued + 1
  /\ queue' = [queue EXCEPT ![ReaderOf(issued + 1)] = Append(@, issued + 1)]
  /\ UNCHANGED <<kind, left, answers, phase, portalVars, clientVars, threadVars, open, outbox, inbox, hostVars>>

\* The app's departure is read on the portal connection, after its calls.
Leave ==
  /\ MayLeave
  /\ ~left
  /\ issued > 0
  /\ left' = TRUE
  /\ queue' = [queue EXCEPT !["portal"] = Append(@, Leaving)]
  /\ UNCHANGED <<kind, issued, answers, phase, portalVars, clientVars, threadVars, open, outbox, inbox, hostVars>>

-----------------------------------------------------------------------------
(* The host bus and the portal.                                             *)

\* NameOwnerChanged reaches the connection once it has subscribed.
Noc(k) == IF phase \in {"ask", "serve"} THEN <<In("noc", Register, k)>> ELSE <<>>

\* The portal's name is activated by the next message sent to it.
Activatable == inst # NoInst \/ started < MaxInst
Activated == IF inst = NoInst THEN started + 1 ELSE inst
Activate ==
  /\ inst' = Activated
  /\ alive' = alive \cup {Activated}
  /\ started' = IF inst = NoInst THEN started + 1 ELSE started

\* The request that a Request.Close names: that of the last OpenURI call.
Target(c) == {o \in Opens : o < c /\ \A p \in Opens : p < c => p <= o}
Closing(m) == IF m \in Call /\ kind[m] = "close" THEN Target(m) ELSE {}

IsTalk(m) == m \in Call /\ kind[m] = "talk"

RouteToName(m) ==
  /\ Activatable
  /\ Activate
  /\ log' = [log EXCEPT ![Activated] = Append(@, m)]
  /\ busy' = busy \cup {<<m, Activated>>}
  /\ closed' = closed \cup Closing(m)
  /\ requests' = requests \ Closing(m)
  /\ inbox' = IF inst = NoInst THEN inbox \o Noc(Activated) ELSE inbox

\* The portal cannot be started.
NotActivated(m) ==
  /\ ActivationFails
  /\ inst = NoInst
  /\ inbox' = Append(inbox, In("err", m, NoInst))
  /\ UNCHANGED <<inst, alive, started, log, busy, closed, requests>>

\* A message to the unique name of an instance that has exited is refused.
RouteToInst(m, k) ==
  /\ IF k \in alive
       THEN /\ log' = [log EXCEPT ![k] = Append(@, m)]
            /\ busy' = busy \cup {<<m, k>>}
            /\ closed' = closed \cup Closing(m)
            /\ requests' = requests \ Closing(m)
            /\ UNCHANGED inbox
       ELSE /\ inbox' = Append(inbox, In("err", m, NoInst))
            /\ UNCHANGED <<log, busy, closed, requests>>
  /\ UNCHANGED <<inst, alive, started>>

BusRoutes ==
  /\ open
  /\ outbox # <<>>
  /\ outbox' = Tail(outbox)
  /\ LET m == Head(outbox).msg
         k == Head(outbox).dest
     IN \/ /\ IsTalk(m)
           /\ busy' = busy \cup {<<m, NoInst>>}
           /\ UNCHANGED <<inst, alive, started, log, closed, requests, inbox>>
        \/ ~IsTalk(m) /\ k = ByName /\ RouteToName(m)
        \/ ~IsTalk(m) /\ k # ByName /\ RouteToInst(m, k)
        \/ ~IsTalk(m) /\ k = ByName /\ NotActivated(m)
  /\ UNCHANGED <<appVars, queue, answers, phase, portalVars, clientVars, threadVars, open, accepted, orphans>>

\* A service answers a message: any one it has, in any order.  A portal that
\* has been replaced answers too, but opens no request: it is about to exit.
Replies(m, k, type) ==
  /\ open
  /\ <<m, k>> \in busy
  /\ busy' = busy \ {<<m, k>>}
  /\ inbox' = Append(inbox, In(type, m, k))
  /\ accepted' = IF m = Register /\ type # "err" THEN accepted \cup {k} ELSE accepted
  /\ requests' = IF m \in Opens \ closed /\ type = "ok" /\ k = inst THEN requests \cup {m} ELSE requests
  /\ UNCHANGED <<appVars, queue, answers, phase, portalVars, clientVars, threadVars, open, outbox,
                 inst, alive, started, log, orphans, closed>>

\* The user answers a request: its Response signal.
Responds(c) ==
  /\ open
  /\ c \in requests
  /\ requests' = requests \ {c}
  /\ inbox' = Append(inbox, In("response", c, inst))
  /\ UNCHANGED <<appVars, queue, answers, phase, portalVars, clientVars, threadVars, open, outbox,
                 inst, alive, started, log, accepted, busy, orphans, closed>>

\* A portal exits.  The bus tells who follows the name, if it was the owner,
\* and answers what the instance has not.
InstExits(k) ==
  /\ k \in alive
  /\ k = inst => started < MaxInst
  /\ alive' = alive \ {k}
  /\ inst' = IF k = inst THEN NoInst ELSE inst
  /\ inbox' = IF open /\ k = inst THEN inbox \o Noc(NoInst) ELSE inbox
  /\ orphans' = orphans \cup {m \in Msg : <<m, k>> \in busy}
  /\ busy' = {b \in busy : b[2] # k}
  /\ requests' = IF k = inst THEN {} ELSE requests
  /\ UNCHANGED <<appVars, queue, answers, phase, portalVars, clientVars, threadVars, open, outbox,
                 started, log, accepted, closed>>

\* A new portal takes the name over from the one that runs.
InstReplaced ==
  /\ MayReplace
  /\ inst # NoInst
  /\ started < MaxInst
  /\ inst' = started + 1
  /\ started' = started + 1
  /\ alive' = alive \cup {started + 1}
  /\ inbox' = IF open THEN inbox \o Noc(started + 1) ELSE inbox
  /\ requests' = {}
  /\ UNCHANGED <<appVars, queue, answers, phase, portalVars, clientVars, threadVars, open, outbox,
                 log, accepted, busy, orphans, closed>>

NoReply(m) ==
  /\ open
  /\ m \in orphans
  /\ orphans' = orphans \ {m}
  /\ inbox' = Append(inbox, In("err", m, NoInst))
  /\ UNCHANGED <<appVars, queue, answers, phase, portalVars, clientVars, threadVars, open, outbox,
                 inst, alive, started, log, accepted, busy, requests, closed>>

HostCloses ==
  /\ HostMayClose
  /\ phase = "serve"
  /\ open
  /\ open' = FALSE
  /\ UNCHANGED <<appVars, queue, answers, phase, portalVars, clientVars, threadVars, outbox, inbox, hostVars>>

-----------------------------------------------------------------------------
(* Gateway::client: the connection is set up on the first call.  What can   *)
(* go wrong with the app's departure meanwhile is not in this module.       *)

\* The identity is registered first, and the answer waited for.
SetUpRegister ==
  /\ phase = "register"
  /\ issued > 0
  /\ Activatable
  /\ Activate
  /\ log' = [log EXCEPT ![Activated] = Append(@, Register)]
  /\ accepted' = accepted \cup {Activated}
  /\ appId' = TRUE
  /\ owner' = Activated
  /\ phase' = "match"
  /\ UNCHANGED <<appVars, queue, answers, registering, draining, held, clientVars, threadVars, open, outbox,
                 inbox, busy, orphans, requests, closed>>

\* The app has no identity, or the portal refused it.
SetUpUnidentified ==
  /\ phase = "register"
  /\ issued > 0
  /\ phase' = "match"
  /\ UNCHANGED <<appVars, queue, answers, portalVars, clientVars, threadVars, open, outbox, inbox, hostVars>>

\* AddMatch: changes of owner are reported from here on.
SetUpMatch ==
  /\ phase = "match"
  /\ phase' = "ask"
  /\ UNCHANGED <<appVars, queue, answers, portalVars, clientVars, threadVars, open, outbox, inbox, hostVars>>

\* GetNameOwner; then the client enters the map and its reader starts.
SetUpAsk ==
  /\ phase = "ask"
  /\ owners' = inst
  /\ mapped' = TRUE
  /\ phase' = "serve"
  /\ UNCHANGED <<appVars, queue, answers, portalVars, gone, pending, openReqs, threadVars, open, outbox, inbox, hostVars>>

-----------------------------------------------------------------------------
(* forward, on the thread that read the call or, for a held one, on the     *)
(* host connection's.                                                       *)

\* serve and client: the call's client is in the map.
Lookup(t) ==
  /\ t \in {"portal", "talk"}
  /\ pc[t] = "idle"
  /\ mapped
  /\ queue[t] # <<>>
  /\ Head(queue[t]) # Leaving
  /\ call' = [call EXCEPT ![t] = Head(queue[t])]
  /\ queue' = [queue EXCEPT ![t] = Tail(@)]
  /\ pc' = [pc EXCEPT ![t] = "route"]
  /\ UNCHANGED <<appVars, answers, phase, portalVars, clientVars, dest, batch, open, outbox, inbox, hostVars>>

\* Where a thread continues when forward returns.
Returned(t) == IF t = "host" THEN "drain" ELSE "idle"

ToPortal(t) == pc[t] = "route" /\ kind[call[t]] # "talk"
\* Mutant: a call does not wait behind held ones being passed on.
MustWaitReply(t) == t # "host" /\ registering
MustWait(t) == t # "host" /\ (registering \/ draining)
AtOwner == owner # NoInst /\ owner = owners

\* A Register is unanswered, or held calls are being passed on: the call
\* waits behind them.
Hold(t) ==
  /\ ToPortal(t)
  /\ MustWait(t)
  /\ held' = Append(held, call[t])
  /\ pc' = [pc EXCEPT ![t] = "idle"]
  /\ UNCHANGED <<appVars, queue, answers, phase, appId, owner, registering, draining, clientVars, call, dest, batch,
                 open, outbox, inbox, hostVars>>

\* Mutant: the call is sent to the well-known name.
RouteByName(t) ==
  /\ pc[t] = "route"
  /\ ToPortal(t) => ~MustWait(t) /\ (appId => AtOwner)
  /\ dest' = [dest EXCEPT ![t] = ByName]
  /\ pc' = [pc EXCEPT ![t] = "check"]
  /\ UNCHANGED <<appVars, queue, answers, phase, portalVars, clientVars, call, batch, open, outbox, inbox, hostVars>>

\* The portal that accepted the registration still owns the name, or there
\* is no identity, or the call is for a talk name.
Route(t) ==
  /\ pc[t] = "route"
  /\ ToPortal(t) => ~MustWait(t) /\ (appId => AtOwner)
  /\ dest' = [dest EXCEPT ![t] = IF ToPortal(t) /\ appId THEN owner ELSE ByName]
  /\ pc' = [pc EXCEPT ![t] = "check"]
  /\ UNCHANGED <<appVars, queue, answers, phase, portalVars, clientVars, call, batch, open, outbox, inbox, hostVars>>

\* The portal that accepted the registration is gone: register again.  The
\* call is held, or handed back to registered when it was a held one.
RegisterAgain(t) ==
  /\ ToPortal(t)
  /\ ~MustWait(t)
  /\ appId /\ ~AtOwner
  /\ open
  /\ outbox' = Append(outbox, [msg |-> Register, dest |-> ByName])
  /\ registering' = TRUE
  /\ IF t = "host"
       THEN pc' = [pc EXCEPT ![t] = "handback"] /\ UNCHANGED held
       ELSE pc' = [pc EXCEPT ![t] = "idle"] /\ held' = Append(held, call[t])
  /\ UNCHANGED <<appVars, queue, answers, phase, appId, owner, draining, clientVars, call, dest, batch,
                 open, inbox, hostVars>>

RegisterAgainFails(t) ==
  /\ ToPortal(t)
  /\ ~MustWait(t)
  /\ appId /\ ~AtOwner
  /\ ~open
  /\ Answer({call[t]})
  /\ pc' = [pc EXCEPT ![t] = Returned(t)]
  /\ UNCHANGED <<appVars, queue, phase, portalVars, clientVars, call, dest, batch, open, outbox, inbox, hostVars>>

\* portal::check: the call passes.  A closed request gets no response.
Permit(t) ==
  /\ pc[t] = "check"
  /\ openReqs' = openReqs \ Closing(call[t])
  /\ pc' = [pc EXCEPT ![t] = "send"]
  /\ UNCHANGED <<appVars, queue, answers, phase, portalVars, mapped, gone, owners, pending, call, dest, batch,
                 open, outbox, inbox, hostVars>>

\* portal::check: the gateway answers the call itself.
Refuse(t) ==
  /\ pc[t] = "check"
  /\ kind[call[t]] # "talk"
  /\ Answer({call[t]})
  /\ pc' = [pc EXCEPT ![t] = Returned(t)]
  /\ UNCHANGED <<appVars, queue, phase, portalVars, clientVars, call, dest, batch, open, outbox, inbox, hostVars>>

\* Sent and recorded under the lock on pending.
Send(t) ==
  /\ pc[t] = "send"
  /\ IF open
       THEN /\ outbox' = Append(outbox, [msg |-> call[t], dest |-> dest[t]])
            /\ pending' = pending \cup {call[t]}
            /\ UNCHANGED answers
       ELSE /\ Answer({call[t]})
            /\ UNCHANGED <<outbox, pending>>
  /\ pc' = [pc EXCEPT ![t] = Returned(t)]
  /\ UNCHANGED <<appVars, queue, phase, portalVars, mapped, gone, owners, openReqs, call, dest, batch,
                 open, inbox, hostVars>>

-----------------------------------------------------------------------------
(* name_changed and close_if_done.                                          *)

NameChanged ==
  /\ pc["portal"] = "idle"
  /\ phase = "serve"
  /\ queue["portal"] # <<>>
  /\ Head(queue["portal"]) = Leaving
  /\ queue' = [queue EXCEPT !["portal"] = Tail(@)]
  /\ mapped' = FALSE
  /\ gone' = (gone \/ mapped)
  /\ pc' = [pc EXCEPT !["portal"] = IF mapped THEN "close" ELSE "idle"]
  /\ UNCHANGED <<appVars, answers, phase, portalVars, owners, pending, openReqs, call, dest, batch,
                 open, outbox, inbox, hostVars>>

\* Mutant: calls without a reply yet are not waited for.
DoneRequests == openReqs = {}
Done == pending \cap Opens = {} /\ openReqs = {}

CloseIfDone(t) ==
  /\ pc[t] = "close"
  /\ open' = (open /\ ~(gone /\ Done))
  /\ pc' = [pc EXCEPT ![t] = "idle"]
  /\ UNCHANGED <<appVars, queue, answers, phase, portalVars, clientVars, call, dest, batch, outbox, inbox, hostVars>>

-----------------------------------------------------------------------------
(* serve_host: the reader of the client's host connection.                  *)

Reads(types) ==
  /\ phase = "serve"
  /\ pc["host"] = "idle"
  /\ inbox # <<>>
  /\ Head(inbox).type \in types
  /\ inbox' = Tail(inbox)

\* NameOwnerChanged for the portal's name.
OwnerChanged ==
  /\ Reads({"noc"})
  /\ owners' = Head(inbox).inst
  /\ pc' = [pc EXCEPT !["host"] = "endreqs"]
  /\ UNCHANGED <<appVars, queue, answers, phase, portalVars, mapped, gone, pending, openReqs, call, dest, batch,
                 open, outbox, hostVars>>

\* end_open_requests: a portal that has gone never answers its requests.
EndOpenRequests ==
  /\ pc["host"] = "endreqs"
  /\ openReqs' = {}
  /\ pc' = [pc EXCEPT !["host"] = "close"]
  /\ UNCHANGED <<appVars, queue, answers, phase, portalVars, mapped, gone, owners, pending, call, dest, batch,
                 open, outbox, inbox, hostVars>>

\* Mutant: the call stays pending.
RelayReplyKeeps ==
  /\ Reads({"ok", "err", "bad"})
  /\ Head(inbox).msg # Register
  /\ call' = [call EXCEPT !["host"] = Head(inbox).msg]
  /\ pc' = [pc EXCEPT !["host"] = "reply"]
  /\ UNCHANGED <<appVars, queue, answers, phase, portalVars, clientVars, dest, batch, open, outbox, hostVars>>

\* relay_reply: an OpenURI request is recorded with its reply taken.  A
\* reply that cannot be decoded becomes an error.
RelayReply ==
  /\ Reads({"ok", "err", "bad"})
  /\ LET r == Head(inbox)
     IN /\ r.msg # Register \/ r.type = "bad"
        /\ IF r.msg \in pending
             THEN /\ pending' = pending \ {r.msg}
                  /\ openReqs' = IF r.msg \in Opens /\ r.type = "ok" THEN openReqs \cup {r.msg} ELSE openReqs
                  /\ call' = [call EXCEPT !["host"] = r.msg]
                  /\ pc' = [pc EXCEPT !["host"] = "reply"]
             ELSE UNCHANGED <<pending, openReqs, call, pc>>
  /\ UNCHANGED <<appVars, queue, answers, phase, portalVars, mapped, gone, owners, dest, batch,
                 open, outbox, hostVars>>

\* Mutant: a reply for an app that has left is only dropped.
PassReplyOnly ==
  /\ pc["host"] = "reply"
  /\ Answer(IF gone THEN {} ELSE {call["host"]})
  /\ pc' = [pc EXCEPT !["host"] = "idle"]
  /\ UNCHANGED <<appVars, queue, phase, portalVars, clientVars, call, dest, batch, open, outbox, inbox, hostVars>>

\* The reply goes to the app, unless it has left.
PassReply ==
  /\ pc["host"] = "reply"
  /\ IF gone
       THEN pc' = [pc EXCEPT !["host"] = "close"] /\ UNCHANGED answers
       ELSE pc' = [pc EXCEPT !["host"] = "idle"] /\ Answer({call["host"]})
  /\ UNCHANGED <<appVars, queue, phase, portalVars, clientVars, call, dest, batch, open, outbox, inbox, hostVars>>

\* relay_signal: a Response, from the owner of the portal's name only.
RelayResponse ==
  /\ Reads({"response"})
  /\ LET r == Head(inbox)
     IN IF r.inst = owners
          THEN /\ openReqs' = openReqs \ {r.msg}
               /\ pc' = [pc EXCEPT !["host"] = IF gone THEN "close" ELSE "idle"]
          ELSE UNCHANGED <<openReqs, pc>>
  /\ UNCHANGED <<appVars, queue, answers, phase, portalVars, mapped, gone, owners, pending, call, dest, batch,
                 open, outbox, hostVars>>

\* registered: the answer to a Register sent again.
Registered ==
  /\ Reads({"ok", "err"})
  /\ Head(inbox).msg = Register
  /\ registering
  /\ registering' = FALSE
  /\ draining' = TRUE
  /\ IF Head(inbox).type = "ok"
       THEN owner' = Head(inbox).inst /\ UNCHANGED appId
       ELSE owner' = NoInst /\ appId' = FALSE
  /\ pc' = [pc EXCEPT !["host"] = "take"]
  /\ UNCHANGED <<appVars, queue, answers, phase, held, clientVars, call, dest, batch, open, outbox, hostVars>>

\* registered: the next batch of held calls, until there is none.
TakeHeld ==
  /\ pc["host"] = "take"
  /\ batch' = held
  /\ held' = <<>>
  /\ draining' = (held # <<>>)
  /\ pc' = [pc EXCEPT !["host"] = IF held = <<>> THEN "idle" ELSE "drain"]
  /\ UNCHANGED <<appVars, queue, answers, phase, appId, owner, registering, clientVars, call, dest,
                 open, outbox, inbox, hostVars>>

\* Mutant: calls held meanwhile are not looked for.
BatchDoneStops ==
  /\ pc["host"] = "drain"
  /\ batch = <<>>
  /\ draining' = FALSE
  /\ pc' = [pc EXCEPT !["host"] = "idle"]
  /\ UNCHANGED <<appVars, queue, answers, phase, appId, owner, registering, held, clientVars, call, dest, batch,
                 open, outbox, inbox, hostVars>>

BatchDone ==
  /\ pc["host"] = "drain"
  /\ batch = <<>>
  /\ pc' = [pc EXCEPT !["host"] = "take"]
  /\ UNCHANGED <<appVars, queue, answers, phase, portalVars, clientVars, call, dest, batch, open, outbox, inbox, hostVars>>

\* The next held call.  A client that has left is no longer in the map, and
\* its call fails: no connection is made for it.
NextHeld ==
  /\ pc["host"] = "drain"
  /\ batch # <<>>
  /\ batch' = Tail(batch)
  /\ call' = [call EXCEPT !["host"] = Head(batch)]
  /\ IF mapped
       THEN pc' = [pc EXCEPT !["host"] = "route"] /\ UNCHANGED answers
       ELSE UNCHANGED pc /\ Answer({Head(batch)})
  /\ UNCHANGED <<appVars, queue, phase, portalVars, clientVars, dest, open, outbox, inbox, hostVars>>

\* The portal changed again: the rest wait for the next reply, in order.
HandBack ==
  /\ pc["host"] = "handback"
  /\ held' = <<call["host"]>> \o batch \o held
  /\ batch' = <<>>
  /\ draining' = FALSE
  /\ pc' = [pc EXCEPT !["host"] = "idle"]
  /\ UNCHANGED <<appVars, queue, answers, phase, appId, owner, registering, clientVars, call, dest,
                 open, outbox, inbox, hostVars>>

\* The connection has closed: the client leaves the map, ...
EndOfStream ==
  /\ phase = "serve"
  /\ pc["host"] = "idle"
  /\ ~open
  /\ inbox = <<>>
  /\ mapped' = FALSE
  /\ pc' = [pc EXCEPT !["host"] = "fail"]
  /\ UNCHANGED <<appVars, queue, answers, phase, portalVars, gone, owners, pending, openReqs, call, dest, batch,
                 open, outbox, inbox, hostVars>>

\* ... and callers still waiting are told (fail_pending, end_open_requests).
FailPending ==
  /\ pc["host"] = "fail"
  /\ pending' = {}
  /\ openReqs' = {}
  /\ Answer(IF gone THEN {} ELSE pending)
  /\ pc' = [pc EXCEPT !["host"] = "dead"]
  /\ UNCHANGED <<appVars, queue, phase, portalVars, mapped, gone, owners, call, dest, batch,
                 open, outbox, inbox, hostVars>>

-----------------------------------------------------------------------------
Forward(t) ==
  Lookup(t) \/ Hold(t) \/ Route(t) \/ RegisterAgain(t) \/ RegisterAgainFails(t) \/ Permit(t) \/ Send(t)

ServeHost ==
  \/ OwnerChanged \/ EndOpenRequests \/ RelayReply \/ PassReply \/ RelayResponse
  \/ Registered \/ TakeHeld \/ BatchDone \/ NextHeld \/ HandBack
  \/ EndOfStream \/ FailPending

SetUp == SetUpRegister \/ SetUpMatch \/ SetUpAsk

\* What happens without anyone's choice: threads, bus and services run.
Progress ==
  \/ \E t \in Thread : Forward(t) \/ CloseIfDone(t)
  \/ NameChanged \/ ServeHost \/ SetUp
  \/ BusRoutes
  \/ \E m \in Msg : NoReply(m) \/ \E k \in 0..MaxInst : Replies(m, k, "ok")
  \/ \E c \in Call : Responds(c)

Next ==
  \/ Issue \/ Leave \/ InstReplaced \/ HostCloses \/ SetUpUnidentified
  \/ \E k \in Inst : InstExits(k)
  \/ \E t \in Thread : Refuse(t)
  \/ \E m \in Msg, k \in 0..MaxInst : ActivationFails /\ Replies(m, k, "err")
  \/ \E m \in Msg, k \in 0..MaxInst : BadReplies /\ Replies(m, k, "bad")
  \/ Progress

Spec == Init /\ [][Next]_vars

\* Each thread, the bus and the services take their next step once they can.
FairSpec ==
  /\ Spec
  /\ WF_vars(Progress)

-----------------------------------------------------------------------------
(* Properties.                                                              *)

PC == {"idle", "route", "check", "send", "close", "endreqs", "reply", "take", "drain", "handback", "fail", "dead"}

TypeOK ==
  /\ kind \in [Call -> Kinds]
  /\ issued \in 0..N
  /\ left \in BOOLEAN
  /\ queue \in [Thread -> Seq(Call \cup {Leaving})]
  /\ answers \in [Call -> Nat]
  /\ phase \in {"register", "match", "ask", "serve"}
  /\ mapped \in BOOLEAN /\ gone \in BOOLEAN
  /\ appId \in BOOLEAN /\ registering \in BOOLEAN /\ draining \in BOOLEAN
  /\ owner \in 0..MaxInst /\ owners \in 0..MaxInst
  /\ held \in Seq(Call) /\ batch \in Seq(Call)
  /\ pending \subseteq Call /\ openReqs \subseteq Call
  /\ pc \in [Thread -> PC]
  /\ call \in [Thread -> Msg]
  /\ dest \in [Thread -> 0..MaxInst]
  /\ open \in BOOLEAN
  /\ outbox \in Seq(Outgoing)
  /\ inbox \in Seq(Incoming)
  /\ inst \in 0..MaxInst /\ started \in 0..MaxInst
  /\ log \in [Inst -> Seq(Msg)]
  /\ accepted \subseteq Inst
  /\ alive \subseteq Inst
  /\ busy \subseteq Msg \X (0..MaxInst) /\ orphans \subseteq Msg
  /\ requests \subseteq Call /\ closed \subseteq Call

Calls(k) == {i \in 1..Len(log[k]) : log[k][i] # Register}

\* Client::owners has the name's current owner once the connection's queue
\* holds no change of it: no change falls between AddMatch and GetNameOwner.
OwnersFollow ==
  (phase = "serve" /\ open /\ \A i \in 1..Len(inbox) : inbox[i].type # "noc") => owners = inst

\* A connection that has an identity has registered it with every portal
\* instance that receives one of its calls: "its portal calls then go to the
\* portal instance that accepted that"; and it knows which instance that is.
RegisteredFirst ==
  /\ OwnersFollow
  /\ appId => \A k \in DOMAIN log : Calls(k) # {} => k \in accepted

\* Each portal instance sees the app's calls in the order the app made them,
\* whatever was held: "so the portal sees every call in order".
InOrder == \A k \in DOMAIN log : \A i, j \in Calls(k) : i < j => log[k][i] < log[k][j]

\* No call is answered twice, by the portal's reply, a refusal, a failed
\* send, and the end of the connection.
AnsweredOnce == \A c \in Call : answers[c] <= 1

\* The OpenURI calls whose request the app has asked to close.
Unwanted == UNION {Closing(c) : c \in 1..issued}

\* The OpenURI calls that the host has still to answer, or whose request the
\* portal has still to answer.
AtHost == {c \in Opens \ Unwanted :
            (\E k \in Inst : <<c, k>> \in busy) \/ c \in requests \/ \E i \in 1..Len(outbox) : outbox[i].msg = c}

\* A step of close_if_done that closes the connection.
Closes == open /\ ~open' /\ \E t \in Thread : pc[t] = "close" /\ pc'[t] = "idle"

\* The gateway closes the connection of an app that has left only when no
\* OpenURI call that was sent, and no request one returned, is unanswered on
\* the host: the portal would cancel it with the connection.
KeptForOpenURI == [][Closes => AtHost = {}]_vars

\* An OpenURI call that the gateway holds for a Register reply.
HeldOpens == {c \in Opens : \E i \in 1..Len(held) : held[i] = c}

\* close_if_done's description: it closes "once no OpenURI call or request
\* it made is waiting for an answer", which a held call is.
KeptForHeld == [][Closes => AtHost = {} /\ HeldOpens = {}]_vars

\* Once the reader of a closed connection is done and the app's calls have
\* been handled, each of them has been answered: "calls and requests on a
\* closed connection are never answered, so callers still waiting are told".
TakenCalls == {c \in 1..issued : \A t \in Thread : \A i \in 1..Len(queue[t]) : queue[t][i] # c}
ClosedAnswersAll ==
  (pc["host"] = "dead" /\ pc["portal"] = "idle" /\ pc["talk"] = "idle" /\ ~gone)
    => \A c \in TakenCalls : answers[c] = 1

\* Every call is answered, unless the app leaves.
AllAnswered == \A c \in Call : (c <= issued) ~> (answers[c] = 1 \/ left)

\* The host connection of an app that has left is closed.
LeftCloses == gone ~> ~open
=============================================================================
