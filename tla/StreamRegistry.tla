--------------------------- MODULE StreamRegistry ---------------------------
(***************************************************************************)
(* The registries of event streams (sse-base.ts): the connections of one    *)
(* tenant, which refuse a connection over the limit (sse-manager.ts), or of *)
(* one support case, which close the oldest (chat-sse-manager.ts), and the  *)
(* handlers that keep a connection: /events/stream in server.ts and         *)
(* /cases/:id/stream in portal-routes.ts.                                   *)
(*                                                                         *)
(* A client may leave at any moment. The stream of the web framework        *)
(* (external) then calls the callbacks registered by then and ignores later *)
(* writes. A push writes to the connections registered and changes nothing. *)
(***************************************************************************)
EXTENDS Naturals, Sequences

CONSTANTS
  Conns,       \* connections, none used twice
  MaxPerKey    \* MAX_CONNECTIONS_PER_CASE, MAX_CONNECTIONS_PER_TENANT

VARIABLES
  kind,       \* the streams of a "case" or of a "tenant"
  registry,   \* the connections of the key, oldest first
  stream,     \* per connection: new, greet, loop, refused, closed
  gone,       \* connections whose client left
  early       \* history: those that left before onAbort was called

streamVars == <<kind, registry, stream, gone, early>>

Registered == {registry[i] : i \in DOMAIN registry}
Open == Conns \ (gone \cup {x \in Conns : stream[x] \in {"new", "refused", "closed"}})

Full == Len(registry) >= MaxPerKey

\* unregister: the connection leaves the map, which keeps the order of the others.
Without(x) ==
  IF x \notin Registered THEN registry
  ELSE LET at == CHOOSE i \in DOMAIN registry : registry[i] = x
       IN  [i \in 1..(Len(registry) - 1) |-> IF i < at THEN registry[i] ELSE registry[i + 1]]
-----------------------------------------------------------------------------
\* Mutant: the stream of the oldest stays open.
RegisterCaseQuietly(x) ==
  /\ kind = "case"
  /\ registry' = Append(IF Full THEN Tail(registry) ELSE registry, x)
  /\ stream' = [stream EXCEPT ![x] = "greet"]

\* register of the base class: the oldest makes place, and its stream closes.
RegisterCase(x) ==
  /\ kind = "case"
  /\ registry' = Append(IF Full THEN Tail(registry) ELSE registry, x)
  /\ stream' = [y \in Conns |-> IF y = x THEN "greet"
                                ELSE IF Full /\ y = Head(registry) THEN "closed" ELSE stream[y]]

\* register of a tenant: refused when full
RegisterTenant(x) ==
  /\ kind = "tenant"
  /\ registry' = IF Full THEN registry ELSE Append(registry, x)
  /\ stream' = [stream EXCEPT ![x] = IF Full THEN "refused" ELSE "greet"]

\* The handler up to its first await
Connect(x) ==
  /\ stream[x] = "new" /\ x \notin gone
  /\ RegisterCase(x) \/ RegisterTenant(x)
  /\ UNCHANGED <<kind, gone, early>>

\* The greeting is written; onAbort is called, and the loop of pings begins.
Greeted(x) ==
  /\ stream[x] = "greet"
  /\ stream' = [stream EXCEPT ![x] = "loop"]
  /\ UNCHANGED <<kind, registry, gone, early>>

\* The client leaves: the callback, if it is there, unregisters.
Leave(x) ==
  /\ x \notin gone /\ stream[x] \in {"greet", "loop", "closed"}
  /\ gone' = gone \cup {x}
  /\ IF stream[x] = "greet"
     THEN early' = early \cup {x} /\ UNCHANGED registry
     ELSE registry' = Without(x) /\ UNCHANGED early
  /\ UNCHANGED <<kind, stream>>
-----------------------------------------------------------------------------
Init ==
  /\ registry = <<>> /\ stream = [x \in Conns |-> "new"]
  /\ gone = {} /\ early = {} /\ kind \in {"case", "tenant"}

Next == \E x \in Conns : Connect(x) \/ Greeted(x) \/ Leave(x)

Spec == Init /\ [][Next]_streamVars
-----------------------------------------------------------------------------
(* Properties *)

\* The registry holds connections, each once, within the limit.
TypeOK ==
  /\ registry \in Seq(Conns)
  /\ \A i, j \in DOMAIN registry : registry[i] = registry[j] => i = j
  /\ stream \in [Conns -> {"new", "greet", "loop", "refused", "closed"}]
  /\ gone \subseteq Conns /\ early \subseteq gone

\* The registry of a key stays within its limit, holds every stream that is
\* open, so that it gets what is pushed, and besides them only those whose
\* client left before its callback was set: no other departure keeps a place.
PlacesAccounted ==
  /\ Len(registry) <= MaxPerKey
  /\ Open \subseteq Registered
  /\ Registered \subseteq Open \cup early
=============================================================================
