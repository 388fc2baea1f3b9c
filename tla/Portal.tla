------------------------------- MODULE Portal -------------------------------
(***************************************************************************)
(* What the gateway lets through to the host's portals and how it rewrites  *)
(* it: src/src/portal.rs, and the parts of src/src/gateway.rs that carry    *)
(* a request from its call to its Response (forward, relay_reply,           *)
(* relay_signal, map_file_results).                                        *)
(*                                                                         *)
(* Several apps have requests open at once, and the user answers them in    *)
(* any order.  The two buses number their connections independently, so     *)
(* the private segment of one app may be the host segment of another.      *)
(* The registration of identities and the order of calls are Gateway's.    *)
(*                                                                         *)
(* An object path is its kind, the sender's segment and a token; a file is  *)
(* a number with whether it is a path of the sandbox and may be written     *)
(* there.                                                                   *)
(***************************************************************************)
EXTENDS Naturals, Sequences, FiniteSets

CONSTANTS
  Client,       \* apps on the private bus
  PrivateSeg,   \* Client::private_seg
  HostSeg,      \* Client::host_seg
  Token,        \* what distinguishes the requests of one app
  File,         \* files the user may choose
  MaxForwarded  \* number of calls that are forwarded, and of signals

VARIABLES
  forwarded,    \* calls forwarded, and signals sent, so far
  pending,      \* Client::pending: [client, id, file]
  fileRequests, \* Client::file_requests: [client, path, kind]
  atPortal,     \* calls the portal has still to answer: [client, id, token, asks]
  requests,     \* requests the user has still to answer: [client, path, asks]
  inbox,        \* inbox[c]: what the host connection of c has still to read
  told,         \* requests whose handle an app has been given: [client, path, asks]
  seen          \* the last message an app was sent

portalVars == <<forwarded, pending, fileRequests, atPortal, requests, inbox, told, seen>>

\* METHODS: the forwarded interfaces, and the methods of each.  Settings stands
\* for all whose calls go on as they are.
METHODS ==
  [Settings    |-> {"Read"},
   FileChooser |-> {"OpenFile", "SaveFile"},
   OpenURI     |-> {"OpenURI", "OpenFile", "SchemeSupported"},
   Screenshot  |-> {"Screenshot", "PickColor"},
   ScreenCast  |-> {"CreateSession", "SelectSources"},
   Camera      |-> {"AccessCamera"},
   Realtime    |-> {"MakeThreadRealtimeWithPID"}]

\* UNIDENTIFIED: those a connection without an identity reaches.
UNIDENTIFIED ==
  [Settings |-> METHODS["Settings"], OpenURI |-> METHODS["OpenURI"] \ {"OpenFile"}, Realtime |-> METHODS["Realtime"]]

NOTIFICATIONS_METHODS == {"Notify", "CloseNotification"}

\* The arguments of a call, by what check looks at: whether they decode, have
\* the expected signature, name an allowed scheme and plain file names, and
\* the interface a property is read of.
Arguments ==
  LET good(t) == [decodes |-> TRUE, signed |-> TRUE, scheme |-> TRUE, plain |-> TRUE, target |-> t]
      g == good("Settings")
  IN {g, good("Camera"), good("Other"),
      [g EXCEPT !.decodes = FALSE], [g EXCEPT !.signed = FALSE],
      [g EXCEPT !.scheme = FALSE], [g EXCEPT !.plain = FALSE]}

\* The calls an app may make: the object, the interface and the member.
Members(iface) ==
  CASE iface \in DOMAIN METHODS -> METHODS[iface] \cup {"Other"}
    [] iface \in {"Request", "Session"} -> {"Close", "Other"}
    [] iface = "Notifications" -> NOTIFICATIONS_METHODS \cup {"Other"}
    [] iface = "Properties" -> {"Get", "Set"}
    [] OTHER -> {"Other"}
Interfaces(object) ==
  CASE object = "portal" -> DOMAIN METHODS \cup {"Introspectable", "Peer", "Properties", "Other"}
    [] object = "request" -> {"Request", "Properties"}
    [] object = "session" -> {"Session", "Properties"}
    [] OTHER -> {"Notifications", "Properties", "Peer", "Other"}
Objects == {"portal", "request", "session", "notifications", "other"}

\* service_for: the service of a call addressed to its name or, by proxies,
\* to the gateway's unique name.
ServiceFor(dest, object) ==
  CASE dest # "unique" -> dest
    [] object \in {"portal", "request", "session"} -> "portal"
    [] object = "notifications" -> "notifications"
    [] OTHER -> "none"

\* portal_methods, as a set of none or one set of methods.
PortalMethods(policy, known, iface) ==
  LET list == IF known THEN METHODS ELSE UNIDENTIFIED
  IN IF iface \in DOMAIN list /\ (iface \in {"Camera", "Realtime"} => iface \in policy)
       THEN {list[iface]} ELSE {}

Forward(file, change) == [verdict |-> "forward", file |-> file, change |-> change]
Plain == Forward("none", "none")
Deny == [verdict |-> "deny", file |-> "none", change |-> "none"]
Missing == [verdict |-> "missing", file |-> "none", change |-> "none"]
Introspect == [verdict |-> "introspect", file |-> "none", change |-> "none"]
NoObject == [verdict |-> "no object", file |-> "none", change |-> "none"]
If(ok, verdict) == IF ok THEN verdict ELSE Deny

\* The end of check_portal: a listed method, by its arguments.
CheckMethod(iface, member, a) ==
  CASE ~a.decodes -> Deny
    [] iface = "OpenURI" /\ member = "OpenURI" -> If(a.scheme, Plain)
    [] iface = "Screenshot" /\ member = "Screenshot" -> If(a.signed, Forward("Screenshot", "interactive"))
    [] iface = "OpenURI" /\ member = "OpenFile" -> If(a.signed, Forward("none", "ask"))
    [] iface = "ScreenCast" /\ member = "SelectSources" -> Forward("none", "forget")
    [] iface = "Realtime" -> If(a.signed, Plain)
    [] iface = "FileChooser" ->
         If(a.plain, Forward(IF member = "OpenFile" THEN "Open" ELSE "Save", "no folder"))
    [] OTHER -> Plain

CheckPortal(policy, known, iface, member, a) ==
  LET refused == IF known THEN Deny ELSE Missing
  IN CASE iface = "Introspectable" /\ ~known -> Introspect
       [] iface \in {"Introspectable", "Peer"} -> Plain
       [] iface = "Properties" ->
            IF member # "Get" \/ ~a.decodes THEN Deny
            ELSE IF PortalMethods(policy, known, a.target) # {} THEN Plain ELSE refused
       [] OTHER ->
            IF PortalMethods(policy, known, iface) = {} THEN refused
            ELSE If(\E ms \in PortalMethods(policy, known, iface) : member \in ms, CheckMethod(iface, member, a))

\* Policy::camera and Policy::realtime.
Policies == {{}, {"Camera", "Realtime"}}

\* check, with strip_notify_paths.
Check(policy, known, service, object, iface, member, a) ==
  CASE service = "portal" /\ object = "portal" -> CheckPortal(policy, known, iface, member, a)
    [] service = "portal" /\ object = "request" -> If(iface = "Request" /\ member = "Close", Plain)
    [] service = "portal" /\ object = "session" ->
         If(<<iface, member>> \in {<<"Session", "Close">>, <<"Properties", "Get">>}, Plain)
    [] service = "notifications" /\ object = "notifications" ->
         (CASE iface = "Notifications" /\ member = "Notify" -> If(a.decodes, Forward("none", "no paths"))
            [] iface = "Notifications" -> If(member \in NOTIFICATIONS_METHODS, Plain)
            [] iface = "Properties" -> If(member = "Get", Plain)
            [] OTHER -> If(iface = "Peer", Plain))
    [] OTHER -> Deny

\* What the gateway does with the calls an app may make.  The policy and the
\* identity are read at each call: a reload changes the one, and a portal that
\* refuses a new registration takes the other.
Verdicts ==
  UNION {UNION {UNION {
    LET service == ServiceFor(dest, object)
        V(policy, known, member, a) ==
          IF service = "none" THEN NoObject ELSE Check(policy, known, service, object, iface, member, a)
    IN {V(policy, known, member, a) :
          policy \in Policies, known \in BOOLEAN, member \in Members(iface) \ {"Close"}, a \in Arguments}
    : iface \in Interfaces(object)} : object \in Objects} : dest \in {"portal", "notifications", "unique"}}

-----------------------------------------------------------------------------
(* Rewriting.                                                               *)

Path(kind, seg, token) == [kind |-> kind, seg |-> seg, token |-> token]
NoPath == Path("none", 0, 0)

\* swap_sender, as rewrite_paths uses it.
SwapSender(p, from, to) ==
  IF p.kind \in {"request", "session"} /\ p.seg = from THEN [p EXCEPT !.seg = to] ELSE p

FileUri(f, exposed, writable) == [file |-> f, exposed |-> exposed, writable |-> writable]
HostUri(f) == FileUri(f, FALSE, FALSE)

\* map_file_results: hidden are the files that cannot be exposed.
MapFileResults(uris, kind, hidden) ==
  {FileUri(u.file, TRUE, kind = "Save") : u \in {v \in uris : v.file \notin hidden}}

\* signal_forwarded: an interface of a portal is "portal" here.
SignalForwarded(object, iface) ==
  CASE iface = "Properties" -> object # "other"
    [] iface = "Notifications" -> object = "notifications"
    [] iface = "portal" -> object \in {"portal", "request", "session"}
    [] OTHER -> FALSE

-----------------------------------------------------------------------------
Note(c, type, path, uris, from, asks) ==
  [client |-> c, type |-> type, path |-> path, uris |-> uris, from |-> from, asks |-> asks]
Nothing == Note(CHOOSE c \in Client : TRUE, "none", NoPath, {}, "none", "none")

Signal(from, iface, path, uris) == [type |-> "signal", from |-> from, iface |-> iface, path |-> path, id |-> 0, uris |-> uris]
Reply(id, path) == [type |-> "reply", from |-> "portal", iface |-> "none", path |-> path, id |-> id, uris |-> {}]

PortalInit ==
  /\ forwarded = 0
  /\ pending = {} /\ fileRequests = {}
  /\ atPortal = {} /\ requests = {} /\ told = {}
  /\ inbox = [c \in Client |-> <<>>]
  /\ seen = Nothing

\* The end of forward: the call goes to the portal with its own id, and is
\* recorded when it expects a reply.
SendHost(c, v, token, expects) ==
  /\ forwarded < MaxForwarded
  /\ forwarded' = forwarded + 1
  /\ atPortal' = atPortal \cup {[client |-> c, id |-> forwarded + 1, token |-> token, asks |-> v.file]}
  /\ pending' = IF expects THEN pending \cup {[client |-> c, id |-> forwarded + 1, file |-> v.file]} ELSE pending
  /\ UNCHANGED <<fileRequests, requests, inbox, told, seen>>

\* The gateway answers the call itself.
Refuse ==
  /\ seen' = Nothing
  /\ UNCHANGED <<forwarded, pending, fileRequests, atPortal, requests, inbox, told>>

\* serve and forward, for a call other than Request.Close, by its verdict.
Calls(c, v, token, expects) ==
  IF v.verdict = "forward" THEN SendHost(c, v, token, expects) ELSE expects /\ Refuse

\* Request.Close on a request: rewritten, the portal drops the request.
Closes(c, path) ==
  LET p == SwapSender(path, PrivateSeg[c], HostSeg[c])
  IN /\ \E t \in told : t.client = c /\ t.path = path
     /\ requests' = {r \in requests : r.path # p}
     /\ told' = {t \in told : t.client # c \/ t.path # path}
     /\ UNCHANGED <<forwarded, pending, fileRequests, atPortal, inbox, seen>>

-----------------------------------------------------------------------------
(* The host's portal: it makes the path of a request from the segment of    *)
(* the connection and the token, or another token when that one is in use.  *)

Opens(r, token) ==
  LET p == Path("request", HostSeg[r.client], token)
  IN /\ \A q \in requests : q.path # p
     /\ r.token # token => \E q \in requests : q.path = Path("request", HostSeg[r.client], r.token)
     /\ atPortal' = atPortal \ {r}
     /\ requests' = requests \cup {[client |-> r.client, path |-> p, asks |-> r.asks]}
     /\ inbox' = [inbox EXCEPT ![r.client] = Append(@, Reply(r.id, p))]
     /\ UNCHANGED <<forwarded, pending, fileRequests, told, seen>>

\* Another answer, or an error.
Answers(r) ==
  /\ atPortal' = atPortal \ {r}
  /\ inbox' = [inbox EXCEPT ![r.client] = Append(@, Reply(r.id, NoPath))]
  /\ UNCHANGED <<forwarded, pending, fileRequests, requests, told, seen>>

\* The user chooses files, or none.
Responds(r, files) ==
  /\ r.asks = "none" => files = {}
  /\ r.asks = "Screenshot" => Cardinality(files) <= 1
  /\ requests' = requests \ {r}
  /\ inbox' = [inbox EXCEPT ![r.client] =
       Append(@, Signal("portal", "Response", r.path, {HostUri(f) : f \in files}))]
  /\ UNCHANGED <<forwarded, pending, fileRequests, atPortal, told, seen>>

\* A signal of the portal, or one that another process sends to the connection.
Signals(c, from, object, iface) ==
  /\ forwarded < MaxForwarded
  /\ forwarded' = forwarded + 1
  /\ from = "portal" => iface = "portal" /\ object = "session"
  /\ inbox' = [inbox EXCEPT ![c] =
       Append(@, Signal(from, iface, Path(object, HostSeg[c], 1), {}))]
  /\ UNCHANGED <<pending, fileRequests, atPortal, requests, told, seen>>

-----------------------------------------------------------------------------
(* The reader of the host connection.                                       *)

Read(c) == inbox' = [inbox EXCEPT ![c] = Tail(@)]
Recorded(c, p) == {f \in fileRequests : f.client = c /\ f.path = p}
AskedFor(c, p) == {t.asks : t \in {u \in told : u.client = c /\ u.path = p}}

\* relay_reply: a reply that no call waits for is dropped.
RelayReply(c) ==
  /\ inbox[c] # <<>>
  /\ Head(inbox[c]).type = "reply"
  /\ Read(c)
  /\ LET m == Head(inbox[c])
         waiting == {p \in pending : p.client = c /\ p.id = m.id}
         out == SwapSender(m.path, HostSeg[c], PrivateSeg[c])
     IN /\ pending' = pending \ waiting
        /\ fileRequests' =
             IF m.path # NoPath /\ \E p \in waiting : p.file # "none"
               THEN (fileRequests \ Recorded(c, m.path))
                      \cup {[client |-> c, path |-> m.path, kind |-> p.file] : p \in waiting}
               ELSE fileRequests
        /\ told' = (told \ {t \in told : waiting # {} /\ t.client = c /\ t.path = out})
                     \cup {[client |-> c, path |-> out, asks |-> p.file] : p \in {w \in waiting : m.path # NoPath}}
        /\ seen' = IF waiting = {} THEN seen ELSE Note(c, "reply", out, {}, "portal", "none")
  /\ UNCHANGED <<forwarded, atPortal, requests>>

\* Mutant: a request is forgotten by its place in the queue, not by its path.
KindAny(c, path) == {f \in fileRequests : f.client = c}

\* The kind a Response is mapped by.
Kind(c, path) == Recorded(c, path)

\* relay_signal.
RelaySignal(c, hidden) ==
  /\ inbox[c] # <<>>
  /\ Head(inbox[c]).type = "signal"
  /\ Read(c)
  /\ LET m == Head(inbox[c])
         response == m.iface = "Response"
         kinds == IF response THEN Kind(c, m.path) ELSE {}
         uris == IF kinds = {} THEN m.uris
                 ELSE LET k == CHOOSE f \in kinds : TRUE IN MapFileResults(m.uris, k.kind, hidden)
         out == SwapSender(m.path, HostSeg[c], PrivateSeg[c])
         asks == IF AskedFor(c, out) = {} THEN "none" ELSE CHOOSE a \in AskedFor(c, out) : TRUE
     IN IF m.from = "portal" /\ SignalForwarded(m.path.kind, IF response THEN "portal" ELSE m.iface)
          THEN /\ seen' = Note(c, IF response THEN "response" ELSE "signal", out, uris, m.from, asks)
               /\ fileRequests' = fileRequests \ kinds
               /\ told' = IF response THEN {t \in told : t.client # c \/ t.path # out} ELSE told
          ELSE UNCHANGED <<seen, fileRequests, told>>
  /\ UNCHANGED <<forwarded, pending, atPortal, requests>>

PortalNext ==
  \/ \E c \in Client, v \in Verdicts, token \in Token, expects \in BOOLEAN : Calls(c, v, token, expects)
  \/ \E c \in Client, token \in Token : Closes(c, Path("request", PrivateSeg[c], token))
  \/ \E r \in atPortal, token \in Token : Opens(r, token)
  \/ \E r \in atPortal : Answers(r)
  \/ \E r \in requests, files \in SUBSET File : Responds(r, files)
  \/ \E c \in Client, from \in {"portal", "other"}, object \in Objects,
        iface \in {"Properties", "Notifications", "portal", "Other"} : Signals(c, from, object, iface)
  \/ \E c \in Client : RelayReply(c)
  \/ \E c \in Client, hidden \in SUBSET File : RelaySignal(c, hidden)

PortalSpec == PortalInit /\ [][PortalNext]_portalVars

-----------------------------------------------------------------------------
\* The results of a request an app was given the handle of carry its own
\* path for it and only files made visible to it, writable exactly when it
\* asked to save, whatever else it has open and in whatever order the user
\* answers; and an app hears of nobody but the owners of the portals' names.
ResultsFit ==
  /\ seen.type = "response" /\ seen.asks # "none" =>
       /\ seen.path.seg = PrivateSeg[seen.client]
       /\ \A u \in seen.uris : u.exposed /\ (u.writable <=> seen.asks = "Save")
  /\ seen.type = "reply" /\ seen.path # NoPath => seen.path.seg = PrivateSeg[seen.client]
  /\ seen.from # "other"
=============================================================================
