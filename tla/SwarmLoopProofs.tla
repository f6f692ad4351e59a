-------------------------- MODULE SwarmLoopProofs --------------------------
(***************************************************************************)
(* No responder is lost or used twice, and no request is served twice or   *)
(* forgotten, for every number of callers and requests, channels of every  *)
(* size, and a shutdown at any moment.                                     *)
(***************************************************************************)
EXTENDS SwarmLoop, TLAPS, FiniteSetTheorems

SwarmInv == TypeOK /\ RespondersInPlace /\ RequestsInPlace

(* Channels.                                                               *)

\* What is put into a channel is there, with what was there before.
LEMMA AppendHolds ==
    ASSUME NEW S, NEW s \in Seq(S), NEW e \in S
    PROVE  /\ Append(s, e) \in Seq(S)
           /\ Len(Append(s, e)) = Len(s) + 1
           /\ \A x : Holds(Append(s, e), x) <=> Holds(s, x) \/ x = e
  <1>1. /\ Append(s, e) \in Seq(S)
        /\ Len(Append(s, e)) = Len(s) + 1
        /\ Append(s, e)[Len(s) + 1] = e
        /\ \A i \in 1..Len(s) : Append(s, e)[i] = s[i]
        /\ Len(s) \in Nat
    OBVIOUS
  <1>2. ASSUME NEW x, Holds(Append(s, e), x) PROVE Holds(s, x) \/ x = e
    <2>1. PICK i \in 1..(Len(s) + 1) : Append(s, e)[i] = x
      BY <1>1, <1>2 DEF Holds
    <2>2. CASE i = Len(s) + 1
      BY <1>1, <2>1, <2>2
    <2>3. CASE i \in 1..Len(s)
      BY <1>1, <2>1, <2>3 DEF Holds
    <2> QED BY <1>1, <2>2, <2>3
  <1>3. ASSUME NEW x, Holds(s, x) PROVE Holds(Append(s, e), x)
    <2>1. PICK i \in 1..Len(s) : s[i] = x
      BY <1>3 DEF Holds
    <2>2. i \in 1..Len(Append(s, e)) /\ Append(s, e)[i] = x
      BY <1>1, <2>1
    <2> QED BY <2>2 DEF Holds
  <1>4. Holds(Append(s, e), e)
    <2>1. Len(s) + 1 \in 1..Len(Append(s, e))
      BY <1>1
    <2> QED BY <1>1, <2>1 DEF Holds
  <1> QED BY <1>1, <1>2, <1>3, <1>4

\* A channel stays free of duplicates when what is put into it is new, or may be there twice.
LEMMA AppendOnce ==
    ASSUME NEW S, NEW s \in Seq(S), NEW e \in S, NEW g,
           OnceExcept(s, g), e = g \/ ~Holds(s, e)
    PROVE  OnceExcept(Append(s, e), g)
  <1>1. /\ Len(Append(s, e)) = Len(s) + 1
        /\ Append(s, e)[Len(s) + 1] = e
        /\ \A i \in 1..Len(s) : Append(s, e)[i] = s[i]
        /\ Len(s) \in Nat
    OBVIOUS
  <1>2. ASSUME NEW i \in 1..(Len(s) + 1), NEW j \in 1..(Len(s) + 1),
               Append(s, e)[i] = Append(s, e)[j], Append(s, e)[i] # g
        PROVE  i = j
    <2>1. CASE i \in 1..Len(s) /\ j \in 1..Len(s)
      BY <1>1, <1>2, <2>1 DEF OnceExcept
    <2>2. CASE i = Len(s) + 1 /\ j \in 1..Len(s)
      <3>1. s[j] = e /\ e # g
        BY <1>1, <1>2, <2>2
      <3> QED BY <2>2, <3>1 DEF Holds
    <2>3. CASE j = Len(s) + 1 /\ i \in 1..Len(s)
      <3>1. s[i] = e /\ e # g
        BY <1>1, <1>2, <2>3
      <3> QED BY <2>3, <3>1 DEF Holds
    <2> QED BY <1>1, <2>1, <2>2, <2>3
  <1> QED BY <1>1, <1>2 DEF OnceExcept

\* What is taken from a channel is gone, and nothing else is.
LEMMA TailHolds ==
    ASSUME NEW S, NEW s \in Seq(S), s # << >>, NEW g, OnceExcept(s, g)
    PROVE  /\ Tail(s) \in Seq(S)
           /\ Len(Tail(s)) = Len(s) - 1
           /\ Head(s) \in S
           /\ Holds(s, Head(s))
           /\ OnceExcept(Tail(s), g)
           /\ \A x : x # g => (Holds(Tail(s), x) <=> Holds(s, x) /\ x # Head(s))
  <1>1. /\ Tail(s) \in Seq(S)
        /\ Len(Tail(s)) = Len(s) - 1
        /\ \A i \in 1..Len(Tail(s)) : Tail(s)[i] = s[i + 1] /\ i + 1 \in 1..Len(s)
        /\ \A i \in 1..Len(s) : i = 1 \/ i - 1 \in 1..Len(Tail(s))
        /\ Head(s) = s[1] /\ 1 \in 1..Len(s) /\ Head(s) \in S
        /\ Len(s) \in Nat
    OBVIOUS
  <1>2. Holds(s, Head(s))
    BY <1>1 DEF Holds
  <1>3. OnceExcept(Tail(s), g)
    <2>1. ASSUME NEW i \in 1..Len(Tail(s)), NEW j \in 1..Len(Tail(s)),
                 Tail(s)[i] = Tail(s)[j], Tail(s)[i] # g
          PROVE  i = j
      <3>1. s[i + 1] = s[j + 1] /\ s[i + 1] # g /\ i + 1 \in 1..Len(s) /\ j + 1 \in 1..Len(s)
        BY <1>1, <2>1
      <3>2. i + 1 = j + 1
        BY <3>1 DEF OnceExcept
      <3> QED BY <1>1, <3>2
    <2> QED BY <2>1 DEF OnceExcept
  <1>4. ASSUME NEW x, x # g, Holds(Tail(s), x) PROVE Holds(s, x) /\ x # Head(s)
    <2>1. PICK i \in 1..Len(Tail(s)) : Tail(s)[i] = x
      BY <1>4 DEF Holds
    <2>2. s[i + 1] = x /\ i + 1 \in 1..Len(s) /\ i + 1 # 1
      BY <1>1, <2>1
    <2>3. s[1] # x
      BY <1>1, <1>4, <2>2 DEF OnceExcept
    <2> QED BY <1>1, <2>2, <2>3 DEF Holds
  <1>5. ASSUME NEW x, x # Head(s), Holds(s, x) PROVE Holds(Tail(s), x)
    <2>1. PICK i \in 1..Len(s) : s[i] = x
      BY <1>5 DEF Holds
    <2>2. i - 1 \in 1..Len(Tail(s))
      BY <1>1, <1>5, <2>1
    <2>3. Tail(s)[i - 1] = x
      BY <1>1, <2>1, <2>2
    <2> QED BY <2>2, <2>3 DEF Holds
  <1> QED BY <1>1, <1>2, <1>3, <1>4, <1>5

\* An empty channel holds nothing.
LEMMA EmptyHolds ==
    /\ << >> \in Seq(Command) /\ << >> \in Seq(Event) /\ Len(<< >>) = 0
    /\ \A x : ~Holds(<< >>, x)
    /\ \A x : OnceExcept(<< >>, x)
  BY DEF Holds, OnceExcept

\* How often a channel holds what it may hold once.
LEMMA CountOnce ==
    ASSUME NEW S, NEW s \in Seq(S), NEW g, OnceExcept(s, g), NEW x, x # g
    PROVE  Cardinality(Places(s, x)) = IF Holds(s, x) THEN 1 ELSE 0
  <1>0. DOMAIN s = 1..Len(s)
    OBVIOUS
  <1>1. CASE Holds(s, x)
    <2>1. PICK i \in 1..Len(s) : s[i] = x
      BY <1>1 DEF Holds
    <2>2. Places(s, x) = {i}
      BY <1>0, <2>1 DEF Places, OnceExcept
    <2> QED BY <1>1, <2>2, FS_Singleton
  <1>2. CASE ~Holds(s, x)
    <2>1. Places(s, x) = {}
      BY <1>0, <1>2 DEF Places, Holds
    <2> QED BY <1>2, <2>1, FS_EmptySet
  <1> QED BY <1>1, <1>2

\* Commands and events of different kinds, or of different callers and requests, differ.
LEMMA CommandsDiffer ==
    /\ \A k, j \in Callers : Call(k) = Call(j) => k = j
    /\ \A k \in Callers, q \in Requests : Call(k) # SendResponse(q)
    /\ \A k \in Callers : /\ Call(k) # Shutdown /\ Call(k) \in Command
                          /\ Call(k).kind = "call" /\ Call(k).by = k
    /\ \A q, o \in Requests : SendResponse(q) = SendResponse(o) => q = o
    /\ \A q \in Requests : /\ SendResponse(q) # Shutdown /\ SendResponse(q) \in Command
                           /\ SendResponse(q).kind = "response" /\ SendResponse(q).to = q
    /\ Shutdown \in Command /\ Shutdown.kind = "shutdown"
  <1>1. /\ \A k \in Callers : Call(k).kind = "call" /\ Call(k).by = k
        /\ \A q \in Requests : SendResponse(q).kind = "response" /\ SendResponse(q).to = q
        /\ Shutdown.kind = "shutdown"
    BY DEF Call, SendResponse, Shutdown
  <1> QED BY <1>1 DEF Command

LEMMA EventsDiffer ==
    /\ \A q, o \in Requests : Request(q) = Request(o) => q = o
    /\ \A q \in Requests : /\ Request(q) # Gossip /\ Request(q) \in Event
                           /\ Request(q).kind = "request" /\ Request(q).id = q
    /\ Gossip \in Event /\ Gossip.kind = "gossip"
  <1>1. /\ \A q \in Requests : Request(q).kind = "request" /\ Request(q).id = q
        /\ Gossip.kind = "gossip"
    BY DEF Request, Gossip
  <1> QED BY <1>1 DEF Event

-----------------------------------------------------------------------------
(* What a step does to the channels.                                       *)

LEMMA CommandSent ==
    ASSUME SwarmInv, NEW e \in Command, e = Shutdown \/ ~Holds(command, e),
           Len(command) < CommandChannel, command' = Append(command, e)
    PROVE  /\ command' \in Seq(Command) /\ Len(command') =< CommandChannel
           /\ OnceExcept(command', Shutdown)
           /\ \A x : Holds(command', x) <=> Holds(command, x) \/ x = e
  <1>1. command \in Seq(Command) /\ OnceExcept(command, Shutdown)
    BY DEF SwarmInv, TypeOK, RespondersInPlace
  <1>2. CommandChannel \in Nat /\ Len(command) \in Nat
    BY <1>1, ChannelAssumption
  <1>3. /\ command' \in Seq(Command)
        /\ Len(command') = Len(command) + 1
        /\ \A x : Holds(command', x) <=> Holds(command, x) \/ x = e
    BY <1>1, AppendHolds
  <1>4. OnceExcept(command', Shutdown)
    BY <1>1, AppendOnce
  <1> QED BY <1>2, <1>3, <1>4

LEMMA CommandTaken ==
    ASSUME SwarmInv, command # << >>, command' = Tail(command)
    PROVE  /\ command' \in Seq(Command) /\ Len(command') =< CommandChannel
           /\ OnceExcept(command', Shutdown)
           /\ Head(command) \in Command /\ Holds(command, Head(command))
           /\ \A x : x # Shutdown => (Holds(command', x) <=> Holds(command, x) /\ x # Head(command))
  <1>1. command \in Seq(Command) /\ OnceExcept(command, Shutdown) /\ Len(command) =< CommandChannel
    BY DEF SwarmInv, TypeOK, RespondersInPlace
  <1>2. CommandChannel \in Nat /\ Len(command) \in Nat
    BY <1>1, ChannelAssumption
  <1>3. /\ command' \in Seq(Command)
        /\ Len(command') = Len(command) - 1
        /\ OnceExcept(command', Shutdown)
        /\ Head(command) \in Command /\ Holds(command, Head(command))
        /\ \A x : x # Shutdown => (Holds(command', x) <=> Holds(command, x) /\ x # Head(command))
    BY <1>1, TailHolds
  <1> QED BY <1>1, <1>2, <1>3

LEMMA EventSent ==
    ASSUME SwarmInv, NEW e \in Event, e = Gossip \/ ~Holds(event, e),
           Len(event) < EventChannel, event' = Append(event, e)
    PROVE  /\ event' \in Seq(Event) /\ Len(event') =< EventChannel
           /\ OnceExcept(event', Gossip)
           /\ \A x : Holds(event', x) <=> Holds(event, x) \/ x = e
  <1>1. event \in Seq(Event) /\ OnceExcept(event, Gossip)
    BY DEF SwarmInv, TypeOK, RequestsInPlace
  <1>2. EventChannel \in Nat /\ Len(event) \in Nat
    BY <1>1, ChannelAssumption
  <1>3. /\ event' \in Seq(Event)
        /\ Len(event') = Len(event) + 1
        /\ \A x : Holds(event', x) <=> Holds(event, x) \/ x = e
    BY <1>1, AppendHolds
  <1>4. OnceExcept(event', Gossip)
    BY <1>1, AppendOnce
  <1> QED BY <1>2, <1>3, <1>4

LEMMA EventTaken ==
    ASSUME SwarmInv, event # << >>, event' = Tail(event)
    PROVE  /\ event' \in Seq(Event) /\ Len(event') =< EventChannel
           /\ OnceExcept(event', Gossip)
           /\ Head(event) \in Event /\ Holds(event, Head(event))
           /\ \A x : x # Gossip => (Holds(event', x) <=> Holds(event, x) /\ x # Head(event))
  <1>1. event \in Seq(Event) /\ OnceExcept(event, Gossip) /\ Len(event) =< EventChannel
    BY DEF SwarmInv, TypeOK, RequestsInPlace
  <1>2. EventChannel \in Nat /\ Len(event) \in Nat
    BY <1>1, ChannelAssumption
  <1>3. /\ event' \in Seq(Event)
        /\ Len(event') = Len(event) - 1
        /\ OnceExcept(event', Gossip)
        /\ Head(event) \in Event /\ Holds(event, Head(event))
        /\ \A x : x # Gossip => (Holds(event', x) <=> Holds(event, x) /\ x # Head(event))
    BY <1>1, TailHolds
  <1> QED BY <1>1, <1>2, <1>3

(* Steps that leave a part of the invariant alone.                         *)

LEMMA SameResponders ==
    ASSUME SwarmInv, UNCHANGED <<caller, searches, pending>>,
           OnceExcept(command', Shutdown),
           \A k \in Callers : Holds(command', Call(k)) <=> Holds(command, Call(k))
    PROVE  RespondersInPlace'
  BY DEF SwarmInv, RespondersInPlace, Waiting

LEMMA SameRequests ==
    ASSUME SwarmInv, UNCHANGED inbound, OnceExcept(event', Gossip),
           \A q \in Requests : /\ Holds(event', Request(q)) <=> Holds(event, Request(q))
                               /\ Holds(command', SendResponse(q)) <=> Holds(command, SendResponse(q))
    PROVE  RequestsInPlace'
  <1>1. Serving' = Serving
    BY DEF Serving
  <1> QED BY <1>1 DEF SwarmInv, RequestsInPlace

-----------------------------------------------------------------------------
LEMMA InitSwarm == Init => SwarmInv
  <1> SUFFICES ASSUME Init PROVE SwarmInv
    OBVIOUS
  <1>1. TypeOK
    BY EmptyHolds, ChannelAssumption DEF Init, TypeOK
  <1>2. RespondersInPlace
    BY EmptyHolds DEF Init, RespondersInPlace, Waiting
  <1>3. RequestsInPlace
    BY EmptyHolds DEF Init, RequestsInPlace, Serving
  <1> QED BY <1>1, <1>2, <1>3 DEF SwarmInv

LEMMA CallerSteps ==
    ASSUME SwarmInv, NEW k \in Callers, CallerStep(k)
    PROVE  SwarmInv'
  <1>0. caller \in [Callers -> {"idle", "sending", "waiting", "ok", "err"}]
    BY DEF SwarmInv, TypeOK
  <1>1. CASE CallStarts(k)
    <2>1. \A j \in Callers : Waiting(j)' = Waiting(j)
      BY <1>0, <1>1 DEF CallStarts, Waiting
    <2>2. TypeOK'
      BY <1>1 DEF SwarmInv, TypeOK, CallStarts
    <2>3. RespondersInPlace'
      BY <1>1, <2>1 DEF SwarmInv, RespondersInPlace, CallStarts
    <2>4. RequestsInPlace'
      BY <1>1, SameRequests DEF SwarmInv, RequestsInPlace, CallStarts
    <2> QED BY <2>2, <2>3, <2>4 DEF SwarmInv
  <1>2. CASE CallRefused(k)
    <2>1. \A j \in Callers : Waiting(j)' = Waiting(j)
      BY <1>0, <1>2 DEF CallRefused, Waiting
    <2>2. TypeOK'
      BY <1>2 DEF SwarmInv, TypeOK, CallRefused
    <2>3. RespondersInPlace'
      BY <1>2, <2>1 DEF SwarmInv, RespondersInPlace, CallRefused
    <2>4. RequestsInPlace'
      BY <1>2, SameRequests DEF SwarmInv, RequestsInPlace, CallRefused
    <2> QED BY <2>2, <2>3, <2>4 DEF SwarmInv
  <1>3. CASE CallSent(k)
    <2>1. ~Waiting(k) /\ ~Holds(command, Call(k)) /\ k \notin searches /\ k \notin pending
      BY <1>3 DEF SwarmInv, RespondersInPlace, Waiting, CallSent
    <2>2. /\ command' \in Seq(Command) /\ Len(command') =< CommandChannel
          /\ OnceExcept(command', Shutdown)
          /\ \A x : Holds(command', x) <=> Holds(command, x) \/ x = Call(k)
      BY <1>3, <2>1, CommandSent, CommandsDiffer DEF CallSent
    <2>3. Waiting(k)' /\ \A j \in Callers : j # k => Waiting(j)' = Waiting(j)
      BY <1>0, <1>3 DEF CallSent, Waiting
    <2>4. TypeOK'
      BY <1>3, <2>2 DEF SwarmInv, TypeOK, CallSent
    <2>5. \A j \in Callers : j # k => (Holds(command', Call(j)) <=> Holds(command, Call(j)))
      BY <2>2, CommandsDiffer
    <2>6. RespondersInPlace'
      BY <1>3, <2>1, <2>2, <2>3, <2>5 DEF SwarmInv, RespondersInPlace, CallSent
    <2>7. RequestsInPlace'
      BY <1>3, <2>2, SameRequests, CommandsDiffer DEF SwarmInv, RequestsInPlace, CallSent
    <2> QED BY <2>4, <2>6, <2>7 DEF SwarmInv
  <1> QED BY <1>1, <1>2, <1>3 DEF CallerStep

LEMMA StopperSteps ==
    ASSUME SwarmInv, ShutdownStarts \/ ShutdownSent
    PROVE  SwarmInv'
  <1>0. UNCHANGED <<caller, searches, stale, pending, event, inbound, running>>
    BY DEF ShutdownStarts, ShutdownSent
  <1>1. CASE UNCHANGED command
    <2>1. TypeOK'
      BY <1>0, <1>1 DEF SwarmInv, TypeOK, ShutdownStarts, ShutdownSent
    <2>2. RespondersInPlace'
      BY <1>0, <1>1, SameResponders DEF SwarmInv, RespondersInPlace
    <2>3. RequestsInPlace'
      BY <1>0, <1>1, SameRequests DEF SwarmInv, RequestsInPlace
    <2> QED BY <2>1, <2>2, <2>3 DEF SwarmInv
  <1>2. CASE Len(command) < CommandChannel /\ command' = Append(command, Shutdown) /\ stopper' = "done"
    <2>1. /\ command' \in Seq(Command) /\ Len(command') =< CommandChannel
          /\ OnceExcept(command', Shutdown)
          /\ \A x : Holds(command', x) <=> Holds(command, x) \/ x = Shutdown
      BY <1>2, CommandSent, CommandsDiffer
    <2>2. TypeOK'
      BY <1>0, <1>2, <2>1 DEF SwarmInv, TypeOK
    <2>3. RespondersInPlace'
      BY <1>0, <2>1, SameResponders, CommandsDiffer
    <2>4. RequestsInPlace'
      BY <1>0, <2>1, SameRequests, CommandsDiffer DEF SwarmInv, RequestsInPlace
    <2> QED BY <2>2, <2>3, <2>4 DEF SwarmInv
  <1> QED BY <1>1, <1>2 DEF ShutdownStarts, ShutdownSent

\* The loop takes a call: its responder goes to a map, or is answered.
LEMMA TakeCommandStep ==
    ASSUME SwarmInv, TakeCommand
    PROVE  SwarmInv'
  <1>1. /\ command' \in Seq(Command) /\ Len(command') =< CommandChannel
        /\ OnceExcept(command', Shutdown)
        /\ Head(command) \in Command /\ Holds(command, Head(command))
        /\ \A x : x # Shutdown => (Holds(command', x) <=> Holds(command, x) /\ x # Head(command))
    BY CommandTaken DEF TakeCommand
  <1>2. PICK k \in Callers : Head(command) = Call(k)
    BY <1>1, CommandsDiffer DEF Command, TakeCommand
  <1>3. Head(command).by = k
    BY <1>2, CommandsDiffer
  <1>4. /\ ~Holds(command', Call(k))
        /\ \A j \in Callers : j # k => (Holds(command', Call(j)) <=> Holds(command, Call(j)))
    BY <1>1, <1>2, CommandsDiffer
  <1>5. Waiting(k) /\ k \notin searches /\ k \notin pending
    BY <1>1, <1>2 DEF SwarmInv, RespondersInPlace
  <1>6. /\ TakeCall(k)
        /\ UNCHANGED <<stale, event, inbound, running, stopper>>
    BY <1>3 DEF TakeCommand
  <1>7. TypeOK'
    BY <1>1, <1>6 DEF SwarmInv, TypeOK, TakeCall
  <1>8. RespondersInPlace'
    <2>1. CASE searches' = searches \cup {k} /\ UNCHANGED <<caller, pending>>
      BY <1>1, <1>4, <1>5, <2>1 DEF SwarmInv, RespondersInPlace, Waiting
    <2>2. CASE pending' = pending \cup {k} /\ UNCHANGED <<caller, searches>>
      BY <1>1, <1>4, <1>5, <2>2 DEF SwarmInv, RespondersInPlace, Waiting
    <2>3. ASSUME NEW result \in {"ok", "err"}, caller' = [caller EXCEPT ![k] = result],
                 UNCHANGED <<searches, pending>>
          PROVE  RespondersInPlace'
      <3>1. ~Waiting(k)' /\ \A j \in Callers : j # k => Waiting(j)' = Waiting(j)
        BY <2>3 DEF SwarmInv, TypeOK, Waiting
      <3> QED BY <1>1, <1>4, <1>5, <2>3, <3>1 DEF SwarmInv, RespondersInPlace
    <2> QED BY <1>6, <2>1, <2>2, <2>3 DEF TakeCall
  <1>9. RequestsInPlace'
    <2>1. \A q \in Requests : Holds(command', SendResponse(q)) <=> Holds(command, SendResponse(q))
      BY <1>1, <1>2, CommandsDiffer
    <2> QED BY <1>6, <2>1, SameRequests DEF SwarmInv, RequestsInPlace
  <1> QED BY <1>7, <1>8, <1>9 DEF SwarmInv

\* The loop takes the response to a request.
LEMMA TakeResponseStep ==
    ASSUME SwarmInv, TakeResponse
    PROVE  SwarmInv'
  <1>1. /\ command' \in Seq(Command) /\ Len(command') =< CommandChannel
        /\ OnceExcept(command', Shutdown)
        /\ Head(command) \in Command /\ Holds(command, Head(command))
        /\ \A x : x # Shutdown => (Holds(command', x) <=> Holds(command, x) /\ x # Head(command))
    BY CommandTaken DEF TakeResponse
  <1>2. PICK q \in Requests : Head(command) = SendResponse(q)
    BY <1>1, CommandsDiffer DEF Command, TakeResponse
  <1>3. /\ inbound' = [inbound EXCEPT ![q] = "answered"]
        /\ UNCHANGED <<caller, searches, stale, pending, event, running, stopper>>
    BY <1>2, CommandsDiffer DEF TakeResponse
  <1>4. inbound[q] = "replied"
    BY <1>1, <1>2 DEF SwarmInv, RequestsInPlace
  <1>5. inbound \in [Requests -> {"away", "queued", "serving", "replying", "replied", "answered", "lost"}]
    BY DEF SwarmInv, TypeOK
  <1>6. TypeOK'
    BY <1>1, <1>3 DEF SwarmInv, TypeOK
  <1>7. RespondersInPlace'
    BY <1>1, <1>2, <1>3, SameResponders, CommandsDiffer
  <1>8. RequestsInPlace'
    <2>1. inbound'[q] = "answered" /\ \A o \in Requests : o # q => inbound'[o] = inbound[o]
      BY <1>3, <1>5
    <2>2. /\ ~Holds(command', SendResponse(q))
          /\ \A o \in Requests : o # q => (Holds(command', SendResponse(o)) <=> Holds(command, SendResponse(o)))
      BY <1>1, <1>2, CommandsDiffer
    <2>3. Serving' = Serving
      BY <1>4, <2>1 DEF Serving
    <2> QED BY <1>3, <1>4, <2>1, <2>2, <2>3 DEF SwarmInv, RequestsInPlace
  <1> QED BY <1>6, <1>7, <1>8 DEF SwarmInv

\* The loop is left: every responder that waits is dropped.
LEMMA TakeShutdownStep ==
    ASSUME SwarmInv, TakeShutdown
    PROVE  SwarmInv'
  <1>1. /\ command' = << >> /\ searches' = {} /\ stale' = {} /\ pending' = {} /\ running' = FALSE
        /\ caller' = [k \in Callers |-> IF Waiting(k) THEN "err" ELSE caller[k]]
        /\ inbound' = [q \in Requests |-> IF inbound[q] = "replied" THEN "lost" ELSE inbound[q]]
        /\ UNCHANGED <<event, stopper>>
    BY DEF TakeShutdown
  <1>2. \A k \in Callers : ~Waiting(k)'
    BY <1>1 DEF Waiting
  <1>3. TypeOK'
    <2>1. command' \in Seq(Command) /\ Len(command') =< CommandChannel
      BY <1>1, EmptyHolds, ChannelAssumption
    <2>2. /\ caller' \in [Callers -> {"idle", "sending", "waiting", "ok", "err"}]
          /\ inbound' \in [Requests -> {"away", "queued", "serving", "replying",
                                        "replied", "answered", "lost"}]
      BY <1>1 DEF SwarmInv, TypeOK
    <2>3. event' \in Seq(Event) /\ Len(event') =< EventChannel /\ stopper' \in {"idle", "sending", "done"}
      BY <1>1 DEF SwarmInv, TypeOK
    <2> QED BY <1>1, <2>1, <2>2, <2>3 DEF TypeOK
  <1>4. RespondersInPlace'
    BY <1>1, <1>2, EmptyHolds DEF RespondersInPlace
  <1>5. RequestsInPlace'
    <2>1. Serving' = Serving
      BY <1>1 DEF Serving
    <2> QED BY <1>1, <2>1, EmptyHolds DEF SwarmInv, RequestsInPlace
  <1> QED BY <1>3, <1>4, <1>5 DEF SwarmInv

\* Callers in R, whose responders are in the maps, have their answers.
LEMMA AnswerStep ==
    ASSUME SwarmInv, NEW R \in SUBSET (searches \cup pending),
           searches' = searches \ R, pending' = pending \ R, stale' = stale \ R,
           caller' \in [Callers -> {"idle", "sending", "waiting", "ok", "err"}],
           \A k \in R : caller'[k] \in {"ok", "err"},
           \A k \in Callers \ R : caller'[k] = caller[k],
           UNCHANGED <<command, event, inbound, running, stopper>>
    PROVE  SwarmInv'
  <1>1. TypeOK'
    BY DEF SwarmInv, TypeOK
  <1>2. /\ \A k \in R : ~Waiting(k)' /\ ~Holds(command, Call(k)) /\ k \in Callers
        /\ \A k \in Callers \ R : Waiting(k)' = Waiting(k)
    BY DEF SwarmInv, TypeOK, RespondersInPlace, Waiting
  <1>3. RespondersInPlace'
    BY <1>2 DEF SwarmInv, RespondersInPlace
  <1>4. RequestsInPlace'
    BY SameRequests DEF SwarmInv, RequestsInPlace
  <1> QED BY <1>1, <1>3, <1>4 DEF SwarmInv

LEMMA NetworkSteps ==
    ASSUME SwarmInv, NEW k \in Callers, SearchEnds(k) \/ SearchAges(k) \/ RequestEnds(k)
    PROVE  SwarmInv'
  <1>0. /\ caller \in [Callers -> {"idle", "sending", "waiting", "ok", "err"}]
        /\ stale \subseteq searches
        /\ \A j \in Callers : ~(j \in searches /\ j \in pending)
    BY DEF SwarmInv, TypeOK, RespondersInPlace
  <1>1. CASE SearchEnds(k)
    <2>1. /\ {k} \in SUBSET (searches \cup pending)
          /\ searches' = searches \ {k} /\ pending' = pending \ {k} /\ stale' = stale \ {k}
      BY <1>0, <1>1 DEF SearchEnds
    <2>2. /\ caller' \in [Callers -> {"idle", "sending", "waiting", "ok", "err"}]
          /\ \A j \in {k} : caller'[j] \in {"ok", "err"}
          /\ \A j \in Callers \ {k} : caller'[j] = caller[j]
      BY <1>0, <1>1 DEF SearchEnds, Finish
    <2>3. UNCHANGED <<command, event, inbound, running, stopper>>
      BY <1>1 DEF SearchEnds
    <2> QED BY <2>1, <2>2, <2>3, AnswerStep
  <1>2. CASE SearchAges(k)
    <2>1. TypeOK'
      BY <1>2 DEF SwarmInv, TypeOK, SearchAges
    <2>2. RespondersInPlace'
      BY <1>2, SameResponders DEF SwarmInv, RespondersInPlace, SearchAges
    <2>3. RequestsInPlace'
      BY <1>2, SameRequests DEF SwarmInv, RequestsInPlace, SearchAges
    <2> QED BY <2>1, <2>2, <2>3 DEF SwarmInv
  <1>3. CASE RequestEnds(k)
    <2>1. /\ {k} \in SUBSET (searches \cup pending)
          /\ searches' = searches \ {k} /\ pending' = pending \ {k} /\ stale' = stale \ {k}
      BY <1>0, <1>3 DEF RequestEnds
    <2>2. /\ caller' \in [Callers -> {"idle", "sending", "waiting", "ok", "err"}]
          /\ \A j \in {k} : caller'[j] \in {"ok", "err"}
          /\ \A j \in Callers \ {k} : caller'[j] = caller[j]
      BY <1>0, <1>3 DEF RequestEnds, Finish
    <2>3. UNCHANGED <<command, event, inbound, running, stopper>>
      BY <1>3 DEF RequestEnds
    <2> QED BY <2>1, <2>2, <2>3, AnswerStep
  <1> QED BY <1>1, <1>2, <1>3

LEMMA CleanupStep ==
    ASSUME SwarmInv, Cleanup
    PROVE  SwarmInv'
  <1>0. /\ caller \in [Callers -> {"idle", "sending", "waiting", "ok", "err"}]
        /\ stale \subseteq searches /\ searches \subseteq Callers
        /\ \A j \in Callers : ~(j \in searches /\ j \in pending)
    BY DEF SwarmInv, TypeOK, RespondersInPlace
  <1>1. /\ stale \in SUBSET (searches \cup pending)
        /\ searches' = searches \ stale /\ pending' = pending \ stale /\ stale' = stale \ stale
    BY <1>0 DEF Cleanup
  <1>2. /\ caller' \in [Callers -> {"idle", "sending", "waiting", "ok", "err"}]
        /\ \A j \in stale : caller'[j] \in {"ok", "err"}
        /\ \A j \in Callers \ stale : caller'[j] = caller[j]
    BY <1>0 DEF Cleanup
  <1> QED BY <1>1, <1>2, AnswerStep DEF Cleanup

LEMMA GossipArrivesStep ==
    ASSUME SwarmInv, GossipArrives
    PROVE  SwarmInv'
  <1>1. /\ event' \in Seq(Event) /\ Len(event') =< EventChannel
        /\ OnceExcept(event', Gossip)
        /\ \A x : Holds(event', x) <=> Holds(event, x) \/ x = Gossip
    BY EventSent, EventsDiffer DEF GossipArrives
  <1>2. TypeOK'
    BY <1>1 DEF SwarmInv, TypeOK, GossipArrives
  <1>3. RespondersInPlace'
    BY SameResponders DEF SwarmInv, RespondersInPlace, GossipArrives
  <1>4. RequestsInPlace'
    BY <1>1, SameRequests, EventsDiffer DEF GossipArrives
  <1> QED BY <1>2, <1>3, <1>4 DEF SwarmInv

LEMMA RequestSteps ==
    ASSUME SwarmInv, NEW q \in Requests, RequestArrives(q) \/ Served(q) \/ Reply(q)
    PROVE  SwarmInv'
  <1>0. inbound \in [Requests -> {"away", "queued", "serving", "replying", "replied", "answered", "lost"}]
    BY DEF SwarmInv, TypeOK
  <1>1. CASE RequestArrives(q)
    <2>0. /\ ~Holds(event, Request(q)) /\ ~Holds(command, SendResponse(q)) /\ inbound[q] = "away"
          /\ UNCHANGED <<caller, command, searches, stale, pending, running, stopper>>
      BY <1>1 DEF SwarmInv, RequestsInPlace, RequestArrives
    <2>1. RespondersInPlace'
      BY <2>0, SameResponders DEF SwarmInv, RespondersInPlace
    <2>2. CASE Len(event) < EventChannel
      <3>1. event' = Append(event, Request(q)) /\ inbound' = [inbound EXCEPT ![q] = "queued"]
        BY <1>1, <2>2 DEF RequestArrives
      <3>2. /\ event' \in Seq(Event) /\ Len(event') =< EventChannel
            /\ OnceExcept(event', Gossip)
            /\ \A x : Holds(event', x) <=> Holds(event, x) \/ x = Request(q)
        BY <2>0, <2>2, <3>1, EventSent, EventsDiffer
      <3>3. inbound'[q] = "queued" /\ \A o \in Requests : o # q => inbound'[o] = inbound[o]
        BY <1>0, <3>1
      <3>4. TypeOK'
        BY <2>0, <3>1, <3>2 DEF SwarmInv, TypeOK
      <3>5. Serving' = Serving
        BY <2>0, <3>3 DEF Serving
      <3>6. \A o \in Requests : o # q => (Holds(event', Request(o)) <=> Holds(event, Request(o)))
        BY <3>2, EventsDiffer
      <3>7. RequestsInPlace'
        BY <2>0, <3>2, <3>3, <3>5, <3>6 DEF SwarmInv, RequestsInPlace
      <3> QED BY <2>1, <3>4, <3>7 DEF SwarmInv
    <2>3. CASE ~(Len(event) < EventChannel)
      <3>1. UNCHANGED event /\ inbound' = [inbound EXCEPT ![q] = "answered"]
        BY <1>1, <2>3 DEF RequestArrives
      <3>2. inbound'[q] = "answered" /\ \A o \in Requests : o # q => inbound'[o] = inbound[o]
        BY <1>0, <3>1
      <3>3. TypeOK'
        BY <2>0, <3>1 DEF SwarmInv, TypeOK
      <3>4. Serving' = Serving
        BY <2>0, <3>2 DEF Serving
      <3>5. RequestsInPlace'
        BY <2>0, <3>1, <3>2, <3>4 DEF SwarmInv, RequestsInPlace
      <3> QED BY <2>1, <3>3, <3>5 DEF SwarmInv
    <2> QED BY <2>2, <2>3
  <1>2. CASE Served(q)
    <2>1. /\ inbound[q] = "serving" /\ inbound'[q] = "replying"
          /\ \A o \in Requests : o # q => inbound'[o] = inbound[o]
      BY <1>0, <1>2 DEF Served
    <2>2. Serving' = Serving
      BY <2>1 DEF Serving
    <2>3. TypeOK'
      BY <1>2 DEF SwarmInv, TypeOK, Served
    <2>4. RespondersInPlace'
      BY <1>2, SameResponders DEF SwarmInv, RespondersInPlace, Served
    <2>5. RequestsInPlace'
      BY <1>2, <2>1, <2>2 DEF SwarmInv, RequestsInPlace, Served
    <2> QED BY <2>3, <2>4, <2>5 DEF SwarmInv
  <1>3. CASE Reply(q)
    <2>0. /\ inbound[q] = "replying" /\ ~Holds(command, SendResponse(q)) /\ ~Holds(event, Request(q))
          /\ UNCHANGED <<caller, searches, stale, pending, event, running, stopper>>
      BY <1>3 DEF SwarmInv, RequestsInPlace, Reply
    <2>1. CASE /\ Len(command) < CommandChannel
               /\ command' = Append(command, SendResponse(q))
               /\ inbound' = [inbound EXCEPT ![q] = "replied"]
      <3>1. /\ command' \in Seq(Command) /\ Len(command') =< CommandChannel
            /\ OnceExcept(command', Shutdown)
            /\ \A x : Holds(command', x) <=> Holds(command, x) \/ x = SendResponse(q)
        BY <2>0, <2>1, CommandSent, CommandsDiffer
      <3>2. inbound'[q] = "replied" /\ \A o \in Requests : o # q => inbound'[o] = inbound[o]
        BY <1>0, <2>1
      <3>3. TypeOK'
        BY <2>0, <2>1, <3>1 DEF SwarmInv, TypeOK
      <3>4. RespondersInPlace'
        BY <2>0, <3>1, SameResponders, CommandsDiffer
      <3>5. Serving' \subseteq Serving
        BY <2>0, <3>2 DEF Serving
      <3>6. \A o \in Requests :
               o # q => (Holds(command', SendResponse(o)) <=> Holds(command, SendResponse(o)))
        BY <3>1, CommandsDiffer
      <3>7. RequestsInPlace'
        BY <2>0, <3>1, <3>2, <3>5, <3>6 DEF SwarmInv, RequestsInPlace
      <3> QED BY <3>3, <3>4, <3>7 DEF SwarmInv
    <2>2. CASE inbound' = [inbound EXCEPT ![q] = "lost"] /\ UNCHANGED command
      <3>1. inbound'[q] = "lost" /\ \A o \in Requests : o # q => inbound'[o] = inbound[o]
        BY <1>0, <2>2
      <3>2. TypeOK'
        BY <2>0, <2>2 DEF SwarmInv, TypeOK
      <3>3. RespondersInPlace'
        BY <2>0, <2>2, SameResponders DEF SwarmInv, RespondersInPlace
      <3>4. Serving' \subseteq Serving
        BY <2>0, <3>1 DEF Serving
      <3>5. RequestsInPlace'
        BY <2>0, <2>2, <3>1, <3>4 DEF SwarmInv, RequestsInPlace
      <3> QED BY <3>2, <3>3, <3>5 DEF SwarmInv
    <2> QED BY <1>3, <2>1, <2>2 DEF Reply
  <1> QED BY <1>1, <1>2, <1>3

LEMMA TakeEventStep ==
    ASSUME SwarmInv, TakeEvent
    PROVE  SwarmInv'
  <1>0. /\ inbound \in [Requests -> {"away", "queued", "serving", "replying", "replied", "answered", "lost"}]
        /\ Serving = {} /\ event # << >>
        /\ UNCHANGED <<caller, command, searches, stale, pending, running, stopper>>
    BY DEF SwarmInv, TypeOK, TakeEvent
  <1>1. /\ event' \in Seq(Event) /\ Len(event') =< EventChannel
        /\ OnceExcept(event', Gossip)
        /\ Head(event) \in Event /\ Holds(event, Head(event))
        /\ \A x : x # Gossip => (Holds(event', x) <=> Holds(event, x) /\ x # Head(event))
    BY EventTaken DEF TakeEvent
  <1>2. RespondersInPlace'
    BY <1>0, SameResponders DEF SwarmInv, RespondersInPlace
  <1>3. CASE Head(event) = Gossip
    <2>1. UNCHANGED inbound
      BY <1>3, EventsDiffer DEF TakeEvent
    <2>2. TypeOK'
      BY <1>0, <1>1, <2>1 DEF SwarmInv, TypeOK
    <2>3. RequestsInPlace'
      BY <1>0, <1>1, <1>3, <2>1, SameRequests, EventsDiffer
    <2> QED BY <1>2, <2>2, <2>3 DEF SwarmInv
  <1>4. ASSUME NEW q \in Requests, Head(event) = Request(q) PROVE SwarmInv'
    <2>1. inbound' = [inbound EXCEPT ![q] = "serving"]
      BY <1>4, EventsDiffer DEF TakeEvent
    <2>2. inbound'[q] = "serving" /\ \A o \in Requests : o # q => inbound'[o] = inbound[o]
      BY <1>0, <2>1
    <2>3. inbound[q] = "queued"
      BY <1>1, <1>4 DEF SwarmInv, RequestsInPlace
    <2>4. TypeOK'
      BY <1>0, <1>1, <2>1 DEF SwarmInv, TypeOK
    <2>5. Serving' = {q}
      BY <1>0, <2>2 DEF Serving
    <2>6. /\ ~Holds(event', Request(q))
          /\ \A o \in Requests : o # q => (Holds(event', Request(o)) <=> Holds(event, Request(o)))
      BY <1>1, <1>4, EventsDiffer
    <2>7. RequestsInPlace'
      BY <1>0, <1>1, <2>2, <2>3, <2>5, <2>6 DEF SwarmInv, RequestsInPlace
    <2> QED BY <1>2, <2>4, <2>7 DEF SwarmInv
  <1> QED BY <1>1, <1>3, <1>4 DEF Event

LEMMA NextSwarm == SwarmInv /\ [Next]_vars => SwarmInv'
  <1> SUFFICES ASSUME SwarmInv, [Next]_vars PROVE SwarmInv'
    OBVIOUS
  <1>1. CASE Next
    BY <1>1, CallerSteps, StopperSteps, TakeCommandStep, TakeResponseStep, TakeShutdownStep,
       NetworkSteps, CleanupStep, GossipArrivesStep, RequestSteps, TakeEventStep DEF Next
  <1>2. CASE UNCHANGED vars
    <2>1. UNCHANGED <<caller, command, searches, stale, pending, event, inbound, running, stopper>>
      BY <1>2 DEF vars
    <2>2. TypeOK'
      BY <2>1 DEF SwarmInv, TypeOK
    <2>3. RespondersInPlace' /\ RequestsInPlace'
      BY <2>1, SameResponders, SameRequests DEF SwarmInv, RespondersInPlace, RequestsInPlace
    <2> QED BY <2>2, <2>3 DEF SwarmInv
  <1> QED BY <1>1, <1>2

LEMMA SwarmInvariance == Spec => []SwarmInv
  BY InitSwarm, NextSwarm, PTL DEF Spec

\* The two channels keep their bounds, and callers and requests their states.
THEOREM SwarmTypeOK == Spec => []TypeOK
  <1>1. SwarmInv => TypeOK
    BY DEF SwarmInv
  <1> QED BY <1>1, SwarmInvariance, PTL

\* The responder of a waiting caller is in exactly one place, and of no other caller in any.
THEOREM SwarmHasOneResponder == Spec => []OneResponder
  <1>1. SwarmInv => OneResponder
    <2> SUFFICES ASSUME SwarmInv, NEW k \in Callers
                 PROVE  Cardinality(Places(command, Call(k)))
                          + (IF k \in searches THEN 1 ELSE 0)
                          + (IF k \in pending THEN 1 ELSE 0)
                            = IF Waiting(k) THEN 1 ELSE 0
      BY DEF OneResponder
    <2>1. Cardinality(Places(command, Call(k))) = IF Holds(command, Call(k)) THEN 1 ELSE 0
      BY CountOnce, CommandsDiffer DEF SwarmInv, TypeOK, RespondersInPlace
    <2> QED BY <2>1 DEF SwarmInv, RespondersInPlace
  <1> QED BY <1>1, SwarmInvariance, PTL

\* An accepted request is in one place, its response in at most one, and one is served at a time.
THEOREM SwarmHasOneServer == Spec => []OneServer
  <1>1. SwarmInv => OneServer
    <2> SUFFICES ASSUME SwarmInv PROVE OneServer
      OBVIOUS
    <2>1. ASSUME NEW q \in Requests
          PROVE  /\ Cardinality(Places(event, Request(q))) = IF inbound[q] = "queued" THEN 1 ELSE 0
                 /\ Cardinality(Places(command, SendResponse(q))) = IF inbound[q] = "replied" THEN 1 ELSE 0
      <3>1. Cardinality(Places(event, Request(q))) = IF Holds(event, Request(q)) THEN 1 ELSE 0
        BY CountOnce, EventsDiffer DEF SwarmInv, TypeOK, RequestsInPlace
      <3>2. Cardinality(Places(command, SendResponse(q))) = IF Holds(command, SendResponse(q)) THEN 1 ELSE 0
        BY CountOnce, CommandsDiffer DEF SwarmInv, TypeOK, RespondersInPlace
      <3> QED BY <3>1, <3>2 DEF SwarmInv, RequestsInPlace
    <2>2. Cardinality(Serving) =< 1
      <3>1. CASE Serving = {}
        BY <3>1, FS_EmptySet
      <3>2. ASSUME NEW q \in Serving PROVE Cardinality(Serving) =< 1
        <4>1. Serving = {q}
          BY <3>2 DEF SwarmInv, RequestsInPlace
        <4>2. Cardinality({q}) = 1
          BY FS_Singleton
        <4> QED BY <4>1, <4>2
      <3> QED BY <3>1, <3>2
    <2> QED BY <2>1, <2>2 DEF OneServer
  <1> QED BY <1>1, SwarmInvariance, PTL

=============================================================================
