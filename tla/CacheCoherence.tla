---------------------------- MODULE CacheCoherence ----------------------------
(***************************************************************************)
(* One InMemoryCache that is written with the answers of one server, while  *)
(* the server's data change and the application evicts.  The answers are     *)
(* those of GraphQLServer.                                                  *)
(***************************************************************************)
EXTENDS InMemoryCache

CONSTANTS
  Facts,         \* the scalars of the server's data that change ...
  Values,        \* ... and the values they take
  Answers,       \* what the server answers to each request of the client, as
                 \* BuildRequest makes them, for given values of the facts
  MaxEvicted     \* bound: entities that are evicted

Asked == DOMAIN Answers

\* GraphQL has no names of its own but those that begin with "__", and of these no
\* response has a member "__ref".
IsResponse(v) ==
  /\ IsJson(v, Words) /\ v[<<>>].is = "object"
  /\ \A path \in DOMAIN v \ {<<>>} : Last(path) # Reference

ASSUME RequestsAssumption == \A r \in Asked :
  /\ IsDocument(r.document)
  /\ r.variables \in [DOMAIN r.variables -> Names]
ASSUME AnswersAssumption == \A r \in Asked :
  /\ DOMAIN Answers[r] = [Facts -> Values]
  /\ \A d \in [Facts -> Values] : IsResponse(Answers[r][d])

VARIABLES
  db,            \* the server's facts
  known,         \* each fact as the last response with it had it
  written,       \* the request of the last operation, if that was Write
  evicted        \* entities that were ever evicted

vars == <<cacheVars, db, known, written, evicted>>

Nothing == [query |-> ""]

\* The facts that the answers depend on.
Covers ==
  [r \in Asked |->
     {f \in Facts : \E d \in [Facts -> Values], v \in Values :
                      Answers[r][d] # Answers[r][[d EXCEPT ![f] = v]]}]

-----------------------------------------------------------------------------
Init ==
  /\ CacheInit
  /\ db \in [Facts -> Values] /\ known = db
  /\ written = Nothing /\ evicted = {}

\* The server's data change.
Change ==
  /\ \E f \in Facts, v \in Values : v # db[f] /\ db' = [db EXCEPT ![f] = v]
  /\ written' = Nothing
  /\ UNCHANGED <<cacheVars, known, evicted>>

\* A response is written.
Respond(request) ==
  /\ Write(request, Answers[request][db])
  /\ known' = [f \in Facts |-> IF f \in Covers[request] THEN db[f] ELSE known[f]]
  /\ written' = request
  /\ UNCHANGED <<db, evicted>>

EvictOne(id) ==
  /\ EvictEntity(id)
  /\ evicted' = evicted \cup {id}
  /\ Cardinality(evicted') <= MaxEvicted
  /\ written' = Nothing
  /\ UNCHANGED <<db, known>>

EvictQuery(request) ==
  /\ Hit(request)
  /\ Evict(request)
  /\ written' = Nothing
  /\ UNCHANGED <<db, known, evicted>>

Next ==
  \/ Change
  \/ \E r \in Asked : Respond(r) \/ EvictQuery(r)
  \/ \E id \in DOMAIN entities : EvictOne(id)

Spec == Init /\ [][Next]_vars

-----------------------------------------------------------------------------
(* Properties *)

Stored == {roots[k] : k \in DOMAIN roots} \cup {entities[i] : i \in DOMAIN entities}

TypeOK ==
  /\ {db, known} \subseteq [Facts -> Values] /\ written \in Asked \cup {Nothing}
  /\ DOMAIN entities \cup evicted \subseteq Seq(Words)
  /\ \A v \in Stored : IsJson(v, Words)

\* Every reference leads to an entity, unless that was evicted.
RefsResolve ==
  \A v \in Stored : \A path \in DOMAIN v \ {<<>>} :
    Last(path) = Reference => v[path].text \in DOMAIN entities \cup evicted

\* Whatever was written by which request in which order, every query that hits
\* reads the newest data that any response brought.
Coherent ==
  evicted = {} => \A r \in Asked : Hit(r) => Read(r) = Answers[r][known]

\* The texts of a value and where they are.
Leaves(v) == {<<path, v[path].text>> : path \in {p \in DOMAIN v : v[p].is = "text"}}

\* With entities evicted, a hit may lack data, but never shows data that were
\* replaced.
NothingStale ==
  \A r \in Asked : Hit(r) => Leaves(Read(r)) \subseteq Leaves(Answers[r][known])

\* What was just written is what the same request reads.
RoundTrip == written # Nothing => Read(written) = Answers[written][db]

\* What the documentation says of EvictEntity: a query that refers to the entity
\* misses, so that a hit lacks nothing.
EvictedMeansMiss ==
  \A r \in Asked : Hit(r) => Leaves(Answers[r][known]) \subseteq Leaves(Read(r))
=============================================================================
