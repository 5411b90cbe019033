-------------------------------- MODULE Client --------------------------------
(***************************************************************************)
(* A Client with its cache and its link: calls with every fetch policy,     *)
(* observed or awaited, that overlap in any way.                            *)
(*                                                                         *)
(* All documents select one field of one entity, whose value is a version   *)
(* number that mutations raise.  Of the cache that leaves the root keys it   *)
(* has and the version the entity has in it: a hit reads the version that    *)
(* was written last, by whatever request (CacheCoherence!Coherent).          *)
(***************************************************************************)
EXTENDS Naturals, Sequences

CONSTANTS
  Calls,         \* places for calls of the application; each is used again
  Queries,       \* documents, as the application writes them
  HasCache,      \* was the client given a cache?
  MaxVersion,    \* bound: versions of the entity
  MaxEvents      \* bound: values that a subscription brings

ASSUME ClientAssumption ==
  Queries # {} /\ HasCache \in BOOLEAN /\ MaxVersion \in Nat \ {0} /\ MaxEvents \in Nat \ {0}

VARIABLES
  hits,          \* the root keys in the cache
  stored,        \* the version in the cache, 0 before the first
  db,            \* the version at the server
  call,          \* the calls
  shown,         \* the newest version that a call which writes the cache showed
  overlapped,    \* did calls ever overlap?
  evicted        \* queries the application evicted and has no answer to since

cacheVars == <<hits, stored>>
vars == <<cacheVars, db, call, shown, overlapped, evicted>>

Policies == {"CacheFirst", "NetworkOnly", "CacheAndNetwork", "NoCache"}

\* A document goes into requests, and so into root keys, as transformed and
\* printed; Evict takes it as the caller gives it.
Text == {"written", "printed"}
Key(kind, query, text) == <<kind, query, text>>

\* What a call has shown: versions from the cache or the network, and responses
\* with errors only, as version 0.
Value(from, version) == [from |-> from, version |-> version]
Values == [from : {"cache", "network"}, version : 0..MaxVersion]

\* A coroutine that awaits an observable: what its AwaiterState holds, and what
\* each resumption found there.
Awaiter == [value : BOOLEAN, exception : BOOLEAN, resumed : BOOLEAN,
            resumptions : Seq({"value", "exception", "nothing"})]

Call == [stage : {"idle", "built", "waiting", "resuming", "done"},
         kind : {"query", "mutation", "subscription"},
         query : Queries,
         policy : Policies,          \* as BuildRequest was given it
         plan : {"just", "concat", "network", "link"},
         awaited : BOOLEAN,          \* co_await, or subscribe()
         cached : 0..MaxVersion,     \* what Execute read from the cache
         sent : BOOLEAN,             \* did a request go out?
         inbox : Seq(0..MaxVersion), \* answers on their way
         served : Nat,               \* how many answers there were
         seen : Seq(Values),
         awaiter : Awaiter,
         ending : {"none", "completed", "error", "disposed"}]

TypeOK ==
  /\ hits \subseteq {Key(k, q, t) : k \in {"query", "mutation"}, q \in Queries, t \in Text}
  /\ stored \in 0..MaxVersion
  /\ db \in 1..MaxVersion
  /\ call \in [Calls -> Call]
  /\ shown \in 0..MaxVersion
  /\ overlapped \in BOOLEAN
  /\ evicted \subseteq Queries

Idle == [stage |-> "idle", kind |-> "query", query |-> CHOOSE q \in Queries : TRUE,
         policy |-> "CacheFirst", plan |-> "link", awaited |-> FALSE, cached |-> 0,
         sent |-> FALSE, inbox |-> <<>>, served |-> 0, seen |-> <<>>,
         awaiter |-> [value |-> FALSE, exception |-> FALSE, resumed |-> FALSE,
                      resumptions |-> <<>>],
         ending |-> "none"]

Init ==
  /\ hits = {} /\ stored = 0
  /\ db = 1
  /\ call = [c \in Calls |-> Idle]
  /\ shown = 0 /\ overlapped = FALSE /\ evicted = {}

-----------------------------------------------------------------------------
(* co_await: what take(1) passes on to the awaiter *)

\* await_resume, as the resumed coroutine calls it: an exception goes first, and
\* an empty value would be dereferenced.
AwaitResume(awaiter) ==
  CASE awaiter.exception -> "exception"
    [] ~awaiter.exception /\ awaiter.value -> "value"
    [] OTHER -> "nothing"

\* h.resume(), unless resumed.exchange(true) finds that somebody did it.
Resume(awaiter) ==
  IF awaiter.resumed THEN awaiter
  ELSE [awaiter EXCEPT !.resumed = TRUE,
                       !.resumptions = Append(@, AwaitResume(awaiter))]

AwaiterNext(awaiter) == Resume([awaiter EXCEPT !.value = TRUE])
AwaiterError(awaiter) == Resume([awaiter EXCEPT !.exception = TRUE])

CompletesAnyway(awaiter) ==      \* mutant: looks neither for a value nor at resumed
  [awaiter EXCEPT !.exception = TRUE, !.resumed = TRUE,
                  !.resumptions = Append(@, "exception")]
AwaiterCompleted(awaiter) ==
  IF awaiter.value \/ awaiter.resumed THEN awaiter
  ELSE Resume([awaiter EXCEPT !.exception = TRUE])

-----------------------------------------------------------------------------
(* The application *)

\* Execute: the plan for a request, and what it read from the cache.
Policy(policy) == IF HasCache THEN policy ELSE "NoCache"

PlanIgnoringPolicy(policy, hit) == IF hit THEN "just" ELSE "network"   \* mutant
Plan(policy, hit) ==
  CASE policy = "NoCache" -> "link"
    [] policy = "NetworkOnly" -> "network"
    [] policy = "CacheFirst" -> IF hit THEN "just" ELSE "network"
    [] OTHER -> IF hit THEN "concat" ELSE "network"

Busy(c) == call[c].stage \in {"built", "waiting"}

\* A call that is over: what is still on its way is dropped.
Over(this, ending) ==
  [this EXCEPT !.stage = "done", !.ending = ending, !.inbox = <<>>, !.cached = 0,
               !.served = 0]

\* The end of an observable, as the application or its awaiter is told.
Completed(this) ==
  IF this.awaited THEN Over([this EXCEPT !.awaiter = AwaiterCompleted(@)], "completed")
  ELSE Over(this, "completed")
Failed(this) ==
  IF this.awaited THEN Over([this EXCEPT !.awaiter = AwaiterError(@)], "error")
  ELSE Over(this, "error")

\* take(1) lets one value pass and drops what comes behind it; the coroutine runs
\* inside on_next, and take(1) completes when it returns.
TakesOne(this) ==
  [this EXCEPT !.stage = "resuming", !.inbox = <<>>, !.cached = 0, !.served = 0,
               !.awaiter = AwaiterNext(@)]

\* A place is taken for a new call, also by a coroutine that is being resumed.
Start(c, new) ==
  /\ call[c].stage \in {"idle", "done"}
  /\ call' = [call EXCEPT ![c] = new]
  /\ overlapped' = (overlapped \/ \E d \in Calls \ {c} : Busy(d))
  /\ UNCHANGED <<cacheVars, db, shown, evicted>>

New(kind, query, policy, plan, awaited, cached) ==
  [Idle EXCEPT !.stage = "built", !.kind = kind, !.query = query, !.policy = policy,
               !.plan = plan, !.awaited = awaited, !.cached = cached]

\* Query; Refetch is Query with NetworkOnly.
Query(c) ==
  \E q \in Queries, policy \in Policies, awaited \in BOOLEAN :
    LET hit == Key("query", q, "printed") \in hits
        plan == Plan(Policy(policy), hit)
    IN Start(c, New("query", q, policy, plan, awaited,
                    IF plan \in {"just", "concat"} THEN stored ELSE 0))

Mutation(c) ==
  \E q \in Queries, awaited \in BOOLEAN :
    Start(c, New("mutation", q, "NetworkOnly",
                 Plan(Policy("NetworkOnly"), FALSE), awaited, 0))

\* Subscribe hands the request to the link.
Subscribe(c) ==
  \E q \in Queries, awaited \in BOOLEAN :
    Start(c, New("subscription", q, "NetworkOnly", "link", awaited, 0))

\* The observable is subscribed to, or awaited, at any later time.  What was read
\* from the cache is shown at once: just completes behind it, concat subscribes to
\* the network, and an awaiter has what it takes.
Observe(c) ==
  LET this == call[c]
      goesOn == this.plan # "just" /\ ~(this.plan = "concat" /\ this.awaited)
      shows == [this EXCEPT !.sent = goesOn,
                  !.seen = IF this.plan \in {"just", "concat"}
                           THEN <<Value("cache", this.cached)>> ELSE <<>>]
  IN /\ this.stage = "built"
     /\ call' = [call EXCEPT ![c] =
          IF goesOn THEN [shows EXCEPT !.stage = "waiting"]
          ELSE IF this.awaited THEN TakesOne(shows) ELSE Completed(shows)]
     /\ UNCHANGED <<cacheVars, db, shown, overlapped, evicted>>

\* Unsubscribe, or the end of the application's interest in an observable.
Dispose(c) ==
  /\ Busy(c)
  /\ call[c].awaited => call[c].stage = "built"
  /\ call' = [call EXCEPT ![c] = Over(@, "disposed")]
  /\ UNCHANGED <<cacheVars, db, shown, overlapped, evicted>>

\* Cache::Evict with a document as it was written or as it was printed.
Evict(q, text) ==
  /\ HasCache
  /\ hits' = hits \ {Key("query", q, text)}
  /\ evicted' = IF text = "written" THEN evicted \cup {q} ELSE evicted
  /\ UNCHANGED <<stored, db, call, shown, overlapped>>

-----------------------------------------------------------------------------
(* The server and the link: answers may arrive in another order than they were  *)
(* given, a call may end without one, or fail.                                *)

Serve(c) ==
  LET this == call[c]
      limit == IF this.kind = "subscription" THEN MaxEvents ELSE 1
  IN /\ this.stage = "waiting" /\ this.served < limit
     /\ db' = IF this.kind = "mutation" /\ db < MaxVersion THEN db + 1 ELSE db
     /\ \E answer \in {0, db'} :
          call' = [call EXCEPT ![c].inbox = Append(@, answer), ![c].served = @ + 1]
     /\ UNCHANGED <<cacheVars, shown, overlapped, evicted>>

\* on_next of the link.  FetchFromNetwork taps it: data are written to the cache
\* before they are shown.
WriteMisses(key, version) ==     \* mutant: does not replace what is there
  /\ hits' = hits \cup {key}
  /\ stored' = IF key \in hits THEN stored ELSE version
CacheWrite(key, version) == hits' = hits \cup {key} /\ stored' = version

Tap(this, version) ==
  IF this.plan # "link" /\ version # 0
  THEN CacheWrite(Key(this.kind, this.query, "printed"), version)
  ELSE UNCHANGED cacheVars

\* concat shows what the network answers behind what the cache had.
NetworkFirst(seen, value) == <<value>> \o seen    \* mutant
Then(seen, value) == Append(seen, value)

\* An awaiter takes the first value.
OnNext(c) ==
  LET this == call[c]
      version == Head(this.inbox)
      seen == Then(this.seen, Value("network", version))
  IN /\ this.stage = "waiting" /\ this.inbox # <<>>
     /\ Tap(this, version)
     /\ LET next == [this EXCEPT !.inbox = Tail(@), !.seen = seen]
        IN call' = [call EXCEPT ![c] =
                      IF this.awaited THEN TakesOne(next) ELSE next]
     /\ shown' = IF this.plan # "link" /\ version > shown THEN version ELSE shown
     /\ evicted' = IF this.plan # "link" /\ this.kind = "query" /\ version # 0
                   THEN evicted \ {this.query} ELSE evicted
     /\ UNCHANGED <<db, overlapped>>

\* The link completes after its answers, or without any; take(1) completes after
\* the one it let pass.
OnCompleted(c) ==
  LET this == call[c]
  IN /\ \/ this.stage = "resuming"
        \/ this.stage = "waiting" /\ this.inbox = <<>>
     /\ call' = [call EXCEPT ![c] = Completed(@)]
     /\ UNCHANGED <<cacheVars, db, shown, overlapped, evicted>>

\* The link fails; or a resumed coroutine lets an exception out of h.resume(),
\* which the observer's on_next turns into its on_error.
OnError(c) ==
  /\ call[c].stage \in {"waiting", "resuming"}
  /\ call' = [call EXCEPT ![c] = Failed(@)]
  /\ UNCHANGED <<cacheVars, db, shown, overlapped, evicted>>

-----------------------------------------------------------------------------
Next ==
  \/ \E c \in Calls :
       \/ Query(c) \/ Mutation(c) \/ Subscribe(c) \/ Observe(c) \/ Dispose(c)
       \/ Serve(c) \/ OnNext(c) \/ OnCompleted(c) \/ OnError(c)
  \/ \E q \in Queries, text \in Text : Evict(q, text)

Spec == Init /\ [][Next]_vars

-----------------------------------------------------------------------------
(* Properties *)

\* The table of fetch policies: cached data come first and only where the policy
\* reads the cache, CacheFirst shows one value at most, and a query that was
\* shown cached data by CacheFirst sends no request.
FromCache(this) == {i \in DOMAIN this.seen : this.seen[i].from = "cache"}
PoliciesHonoured ==
  \A c \in Calls :
    LET this == call[c]
    IN /\ FromCache(this) \subseteq {1}
       /\ FromCache(this) # {} => /\ this.kind = "query"
                                  /\ this.policy \in {"CacheFirst", "CacheAndNetwork"}
                                  /\ this.policy = "CacheFirst" => ~this.sent
       /\ this.kind # "subscription" =>
            Len(this.seen) <= IF this.policy = "CacheAndNetwork" THEN 2 ELSE 1

\* One observable never goes back in time, whatever else goes on: what the network
\* answers is no older than what the call was shown from the cache, and the events
\* of a subscription come in their order.
NeverGoesBack ==
  \A c \in Calls :
    LET seen == call[c].seen
    IN \A i, j \in DOMAIN seen :
         i < j /\ seen[j].version # 0 => seen[i].version <= seen[j].version

\* As long as calls do not overlap, the cache is level with the newest version
\* that was shown by calls that write it.
SerialCallsAgree == ~overlapped => stored = shown

\* A coroutine that awaits a call is resumed once and not again by what follows:
\* with the first value, although take(1) completes or an error comes behind it,
\* and with an exception if the call ends before there is a value.
AwaitHasOneOutcome ==
  \A c \in Calls :
    LET this == call[c]
        over == this.stage = "done" /\ this.ending # "disposed"
    IN this.awaited =>
         this.awaiter.resumptions =
           IF this.seen # <<>> THEN <<"value">>
           ELSE IF over THEN <<"exception">> ELSE <<>>

\* What the documentation says of CacheAndNetwork: it shows cached data first and
\* then fetches again.
CacheAndNetworkFetches ==
  \A c \in Calls :
    LET this == call[c]
    IN this.policy = "CacheAndNetwork" /\ this.stage = "done"
         /\ this.ending = "completed" => this.sent

\* What the documentation says of Evict: it evicts the query it is given, as the
\* application wrote it.
EvictedQueryMisses ==
  \A q \in evicted : Key("query", q, "printed") \notin hits
=============================================================================
