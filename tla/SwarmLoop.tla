----------------------------- MODULE SwarmLoop -----------------------------
(***************************************************************************)
(* crates/itoken-network/src/lib.rs: the task that owns the libp2p swarm   *)
(* (run_swarm_loop), the P2PNode methods that talk to it, and the event    *)
(* loop of src/main.rs that serves inbound requests.                       *)
(*                                                                         *)
(* A P2PNode method puts a command with a one-shot responder into a        *)
(* bounded channel, waiting for room, and then waits for the responder.    *)
(* The swarm loop answers some commands at once and keeps the responders   *)
(* of DHT searches and outbound requests until the network is done with    *)
(* them.  It hands inbound requests and gossip to the event loop through   *)
(* a second bounded channel, without waiting for room; the event loop      *)
(* sends its answers back as commands.                                     *)
(***************************************************************************)
EXTENDS Integers, Sequences, FiniteSets

CONSTANTS
    Callers,            \* tasks that call one P2PNode method
    Method,             \* what each of them calls: "search", "request" or another
    Requests,           \* requests from peers
    CommandChannel,     \* capacity of the command channel
    EventChannel        \* capacity of the event channel

ASSUME MethodAssumption  == Method \in [Callers -> {"search", "request", "other"}]
ASSUME ChannelAssumption == CommandChannel \in Nat \ {0} /\ EventChannel \in Nat \ {0}

VARIABLES
    caller,         \* where each caller is: "idle", "sending", "waiting", "ok" or "err"
    command,        \* the command channel
    searches,       \* callers whose responders are in search_queries
    stale,          \* those of them that have waited for QUERY_TIMEOUT_SECS
    pending,        \* callers whose responders are in pending_inference_requests
    event,          \* the event channel
    inbound,        \* where each request from a peer is
    running,        \* the swarm loop has not left its loop
    stopper         \* where the task that shuts the node down is

vars == <<caller, command, searches, stale, pending, event, inbound, running, stopper>>

Call(k)         == [kind |-> "call", by |-> k]
SendResponse(q) == [kind |-> "response", to |-> q]
Shutdown        == [kind |-> "shutdown"]
Gossip          == [kind |-> "gossip"]
Request(q)      == [kind |-> "request", id |-> q]

Waiting(k) == caller[k] = "waiting"

-----------------------------------------------------------------------------
Init ==
    /\ caller = [k \in Callers |-> "idle"]
    /\ command = << >>
    /\ searches = {}
    /\ stale = {}
    /\ pending = {}
    /\ event = << >>
    /\ inbound = [q \in Requests |-> "away"]
    /\ running = TRUE
    /\ stopper = "idle"

-----------------------------------------------------------------------------
(* The callers: command_tx.send(..).await, then rx.await.                  *)

CallStarts(k) ==
    /\ caller[k] = "idle"
    /\ caller' = [caller EXCEPT ![k] = "sending"]
    /\ UNCHANGED <<command, searches, stale, pending, event, inbound, running, stopper>>

CallSent(k) ==
    /\ caller[k] = "sending"
    /\ running
    /\ Len(command) < CommandChannel
    /\ command' = Append(command, Call(k))
    /\ caller' = [caller EXCEPT ![k] = "waiting"]
    /\ UNCHANGED <<searches, stale, pending, event, inbound, running, stopper>>

\* "Command channel closed"; search_model and get_connected_peers turn it
\* into an empty answer.
CallRefused(k) ==
    /\ caller[k] = "sending"
    /\ ~running
    /\ caller' = [caller EXCEPT ![k] = "err"]
    /\ UNCHANGED <<command, searches, stale, pending, event, inbound, running, stopper>>

\* shutdown(): a command like the others, with no responder.
ShutdownStarts ==
    /\ stopper = "idle"
    /\ stopper' = "sending"
    /\ UNCHANGED <<caller, command, searches, stale, pending, event, inbound, running>>

ShutdownSent ==
    /\ stopper = "sending"
    /\ \/ /\ running
          /\ Len(command) < CommandChannel
          /\ command' = Append(command, Shutdown)
       \/ /\ ~running
          /\ UNCHANGED command
    /\ stopper' = "done"
    /\ UNCHANGED <<caller, searches, stale, pending, event, inbound, running>>

-----------------------------------------------------------------------------
(* The swarm loop.  Its select! takes any branch that is ready.            *)

\* Mutant: events are sent with send(..).await, so that a full event channel
\* stops the loop.
ReadyUnlessEventChannelFull == running /\ Len(event) < EventChannel

\* No branch of the loop waits for anything.
Ready == running

\* SearchModel and the two kinds of outbound request keep the responder; the
\* other commands are answered on the spot.
TakeCall(k) ==
    \/ /\ Method[k] = "search"
       /\ searches' = searches \cup {k}
       /\ UNCHANGED <<caller, pending>>
    \/ /\ Method[k] = "request"
       /\ pending' = pending \cup {k}
       /\ UNCHANGED <<caller, searches>>
    \/ /\ Method[k] = "other"
       /\ \E result \in {"ok", "err"} : caller' = [caller EXCEPT ![k] = result]
       /\ UNCHANGED <<searches, pending>>

TakeCommand ==
    /\ Ready
    /\ command # << >>
    /\ Head(command).kind = "call"
    /\ TakeCall(Head(command).by)
    /\ command' = Tail(command)
    /\ UNCHANGED <<stale, event, inbound, running, stopper>>

\* The response goes to the peer, unless the peer has gone.
TakeResponse ==
    /\ Ready
    /\ command # << >>
    /\ Head(command).kind = "response"
    /\ inbound' = [inbound EXCEPT ![Head(command).to] = "answered"]
    /\ command' = Tail(command)
    /\ UNCHANGED <<caller, searches, stale, pending, event, running, stopper>>

\* The loop is left.  Its channel ends and its maps are dropped, with every
\* responder in them and in the commands it has not taken.
TakeShutdown ==
    /\ Ready
    /\ command # << >>
    /\ Head(command).kind = "shutdown"
    /\ running' = FALSE
    /\ caller' = [k \in Callers |-> IF Waiting(k) THEN "err" ELSE caller[k]]
    /\ inbound' = [q \in Requests |->
                      IF inbound[q] = "replied" THEN "lost" ELSE inbound[q]]
    /\ command' = << >>
    /\ searches' = {}
    /\ stale' = {}
    /\ pending' = {}
    /\ UNCHANGED <<event, stopper>>

Finish(k, result) == caller' = [caller EXCEPT ![k] = result]

\* Kademlia ends the query.  (Records found on the way are collected for the
\* responder and change nothing else.)
SearchEnds(k) ==
    /\ Ready
    /\ k \in searches
    /\ Finish(k, "ok")
    /\ searches' = searches \ {k}
    /\ stale' = stale \ {k}
    /\ UNCHANGED <<command, pending, event, inbound, running, stopper>>

\* A search has been running for more than QUERY_TIMEOUT_SECS.
SearchAges(k) ==
    /\ Ready
    /\ k \in searches \ stale
    /\ stale' = stale \cup {k}
    /\ UNCHANGED <<caller, command, searches, pending, event, inbound, running, stopper>>

\* The cleanup tick answers stale searches with what was found.
Cleanup ==
    /\ Ready
    /\ stale # {}
    /\ caller' = [k \in Callers |-> IF k \in stale THEN "ok" ELSE caller[k]]
    /\ searches' = searches \ stale
    /\ stale' = {}
    /\ UNCHANGED <<command, pending, event, inbound, running, stopper>>

\* Mutant: an outbound failure is logged and its responder kept.
RequestEndsOnlyWell(k) ==
    /\ Ready
    /\ k \in pending
    /\ Finish(k, "ok")
    /\ pending' = pending
    /\ UNCHANGED <<command, searches, stale, event, inbound, running, stopper>>

\* The response arrives, or the request fails (timeout, no connection).
RequestEnds(k) ==
    /\ Ready
    /\ k \in pending
    /\ \E result \in {"ok", "err"} : Finish(k, result)
    /\ pending' = pending \ {k}
    /\ UNCHANGED <<command, searches, stale, event, inbound, running, stopper>>

\* Mutant: gossip is taken from the network without a bound.
GossipArrivesUnbounded ==
    /\ Ready
    /\ Len(event) =< EventChannel
    /\ event' = Append(event, Gossip)
    /\ UNCHANGED <<caller, command, searches, stale, pending, inbound, running, stopper>>

\* A gossip message for the event loop; dropped when the channel is full.
GossipArrives ==
    /\ Ready
    /\ Len(event) < EventChannel
    /\ event' = Append(event, Gossip)
    /\ UNCHANGED <<caller, command, searches, stale, pending, inbound, running, stopper>>

\* Mutant: a request that finds the channel full is dropped without an answer.
RequestArrivesOrVanishes(q) ==
    /\ Ready
    /\ inbound[q] = "away"
    /\ IF Len(event) < EventChannel
       THEN /\ event' = Append(event, Request(q))
            /\ inbound' = [inbound EXCEPT ![q] = "queued"]
       ELSE /\ inbound' = [inbound EXCEPT ![q] = "queued"]
            /\ UNCHANGED event
    /\ UNCHANGED <<caller, command, searches, stale, pending, running, stopper>>

\* A request from a peer; "Node is busy" when the channel is full.
RequestArrives(q) ==
    /\ Ready
    /\ inbound[q] = "away"
    /\ IF Len(event) < EventChannel
       THEN /\ event' = Append(event, Request(q))
            /\ inbound' = [inbound EXCEPT ![q] = "queued"]
       ELSE /\ inbound' = [inbound EXCEPT ![q] = "answered"]
            /\ UNCHANGED event
    /\ UNCHANGED <<caller, command, searches, stale, pending, running, stopper>>

-----------------------------------------------------------------------------
(* The event loop: one event at a time, answered before the next is taken. *)

Serving == {q \in Requests : inbound[q] \in {"serving", "replying"}}

TakeEvent ==
    /\ Serving = {}
    /\ event # << >>
    /\ event' = Tail(event)
    /\ inbound' = IF Head(event).kind = "request"
                  THEN [inbound EXCEPT ![Head(event).id] = "serving"] ELSE inbound
    /\ UNCHANGED <<caller, command, searches, stale, pending, running, stopper>>

\* The work is done, with a response or an error for the peer.
Served(q) ==
    /\ inbound[q] = "serving"
    /\ inbound' = [inbound EXCEPT ![q] = "replying"]
    /\ UNCHANGED <<caller, command, searches, stale, pending, event, running, stopper>>

\* Mutant: a response that finds the command channel full is dropped.
ReplyOrVanish(q) ==
    /\ inbound[q] = "replying"
    /\ inbound' = [inbound EXCEPT ![q] = IF running THEN "replied" ELSE "lost"]
    /\ command' = IF running /\ Len(command) < CommandChannel
                  THEN Append(command, SendResponse(q)) ELSE command
    /\ UNCHANGED <<caller, searches, stale, pending, event, running, stopper>>

\* send_response: waits for room in the command channel.
Reply(q) ==
    /\ inbound[q] = "replying"
    /\ \/ /\ running
          /\ Len(command) < CommandChannel
          /\ command' = Append(command, SendResponse(q))
          /\ inbound' = [inbound EXCEPT ![q] = "replied"]
       \/ /\ ~running
          /\ inbound' = [inbound EXCEPT ![q] = "lost"]
          /\ UNCHANGED command
    /\ UNCHANGED <<caller, searches, stale, pending, event, running, stopper>>

-----------------------------------------------------------------------------
CallerStep(k) == CallStarts(k) \/ CallSent(k) \/ CallRefused(k)

Next ==
    \/ \E k \in Callers : CallerStep(k)
    \/ ShutdownStarts
    \/ ShutdownSent
    \/ TakeCommand
    \/ TakeResponse
    \/ TakeShutdown
    \/ \E k \in Callers : SearchEnds(k) \/ SearchAges(k) \/ RequestEnds(k)
    \/ Cleanup
    \/ GossipArrives
    \/ \E q \in Requests : RequestArrives(q) \/ Served(q) \/ Reply(q)
    \/ TakeEvent

\* What the runtime and libp2p guarantee.  Every task that can proceed does;
\* channels give room to their waiting senders in turn; select! picks among
\* its ready branches at random, so none is passed over for ever; time
\* passes; the request-response protocol ends every request.  Nothing says
\* that Kademlia ends a query.  That serving a request ends (Served) is
\* assumed of the inference backend: its HTTP client has no timeout.
Fairness ==
    /\ \A k \in Callers :
          /\ SF_vars(CallSent(k))
          /\ WF_vars(CallRefused(k))
          /\ WF_vars(RequestEnds(k))
          /\ WF_vars(SearchAges(k))
    /\ \A q \in Requests : WF_vars(Served(q)) /\ SF_vars(Reply(q))
    /\ WF_vars(TakeCommand)
    /\ WF_vars(TakeResponse)
    /\ WF_vars(TakeShutdown)
    /\ WF_vars(Cleanup)
    /\ WF_vars(TakeEvent)

Spec == Init /\ [][Next]_vars /\ Fairness

-----------------------------------------------------------------------------
Command == {Call(k) : k \in Callers} \cup {SendResponse(q) : q \in Requests} \cup {Shutdown}
Event   == {Gossip} \cup {Request(q) : q \in Requests}

TypeOK ==
    /\ caller \in [Callers -> {"idle", "sending", "waiting", "ok", "err"}]
    /\ command \in Seq(Command)
    /\ Len(command) =< CommandChannel
    /\ searches \subseteq Callers
    /\ stale \subseteq searches
    /\ pending \subseteq Callers
    /\ event \in Seq(Event)
    /\ Len(event) =< EventChannel
    /\ inbound \in [Requests -> {"away", "queued", "serving", "replying", "replied", "answered", "lost"}]
    /\ running \in BOOLEAN
    /\ stopper \in {"idle", "sending", "done"}

Places(s, x) == {i \in DOMAIN s : s[i] = x}

\* The responder of a waiting caller is in exactly one place, the command
\* channel or one of the maps, and no place holds the responder of a caller
\* that has its answer: none is lost and none is used twice.
OneResponder ==
    \A k \in Callers :
        Cardinality(Places(command, Call(k)))
          + (IF k \in searches THEN 1 ELSE 0)
          + (IF k \in pending THEN 1 ELSE 0)
            = IF Waiting(k) THEN 1 ELSE 0

\* A request the node has accepted is in exactly one place on its way through
\* the event loop, and its response in at most one on the way back.
OneServer ==
    /\ \A q \in Requests :
          /\ Cardinality(Places(event, Request(q))) = IF inbound[q] = "queued" THEN 1 ELSE 0
          /\ Cardinality(Places(command, SendResponse(q))) = IF inbound[q] = "replied" THEN 1 ELSE 0
    /\ Cardinality(Serving) =< 1

\* The channels hold no call, response or request twice, a responder is in one
\* place, and a request is where its state says: OneResponder and OneServer in
\* the form that each step preserves.
Holds(s, x)        == \E i \in 1..Len(s) : s[i] = x
OnceExcept(s, x)   == \A i, j \in 1..Len(s) : s[i] = s[j] /\ s[i] # x => i = j

RespondersInPlace ==
    /\ OnceExcept(command, Shutdown)
    /\ \A k \in Callers :
          /\ Waiting(k) <=> Holds(command, Call(k)) \/ k \in searches \/ k \in pending
          /\ Holds(command, Call(k)) => k \notin searches \cup pending
          /\ k \in searches => k \notin pending

RequestsInPlace ==
    /\ OnceExcept(event, Gossip)
    /\ \A q \in Requests :
          /\ Holds(event, Request(q)) <=> inbound[q] = "queued"
          /\ Holds(command, SendResponse(q)) <=> inbound[q] = "replied"
    /\ \A q, o \in Serving : q = o

\* Every P2PNode call returns, although the two channels are full now and
\* then, DHT queries may never end, and the node may shut down meanwhile.
EveryCallReturns == \A k \in Callers : caller[k] = "sending" ~> caller[k] \in {"ok", "err"}

\* Every request that reaches the node is answered, or lost to a shutdown.
EveryRequestAnswered ==
    \A q \in Requests :
        inbound[q] # "away" ~> inbound[q] = "answered" \/ (inbound[q] = "lost" /\ ~running)
=============================================================================
