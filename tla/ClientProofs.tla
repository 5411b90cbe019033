----------------------------- MODULE ClientProofs -----------------------------
(***************************************************************************)
(* Theorems about Client, for any calls and documents and with or without a *)
(* cache: what each call keeps to on its own (Local), then the order of the *)
(* versions it is shown (Ordered), then what calls share (Serial).          *)
(***************************************************************************)
EXTENDS Client, SequenceTheorems, TLAPS

-----------------------------------------------------------------------------
(* One call on its own *)

\* The plan fits the request, nothing is shown before the call is observed, and
\* of answers there are no more than were served.
LocalPlan(this) ==
  /\ this.kind = "subscription" => this.plan = "link"
  /\ this.plan \in {"just", "concat"} => this.kind = "query"
  /\ this.plan = "just" => this.policy = "CacheFirst" /\ ~this.sent
  /\ this.plan = "concat" => this.policy = "CacheAndNetwork"
  /\ this.stage \in {"idle", "built"} =>
       this.seen = <<>> /\ this.inbox = <<>> /\ this.served = 0
  /\ this.stage = "waiting" =>
       /\ this.plan # "just"
       /\ this.awaited => this.plan # "concat" /\ this.seen = <<>>
       /\ this.kind # "subscription" =>
            /\ this.served <= 1
            /\ Len(this.seen) + Len(this.inbox)
                 <= this.served + (IF this.plan = "concat" THEN 1 ELSE 0)
  /\ \A i \in DOMAIN this.seen :
       this.seen[i].from = "cache" => i = 1 /\ this.plan \in {"just", "concat"}
  /\ this.kind # "subscription" =>
       Len(this.seen) <= IF this.policy = "CacheAndNetwork" THEN 2 ELSE 1

\* Until it has something to show, an awaiter is as it was made.  It is resumed
\* by the first value or by the end, and is marked as resumed then.
LocalAwait(this) ==
  /\ this.stage \in {"idle", "built", "waiting"} =>
       /\ ~this.awaiter.value /\ ~this.awaiter.exception /\ ~this.awaiter.resumed
       /\ this.awaiter.resumptions = <<>>
  /\ this.stage = "resuming" =>
       this.awaited /\ this.awaiter.resumed /\ this.seen # <<>>
  /\ this.awaited =>
       this.awaiter.resumptions =
         IF this.seen # <<>> THEN <<"value">>
         ELSE IF this.stage = "done" /\ this.ending # "disposed"
              THEN <<"exception">> ELSE <<>>

Local(this) == LocalPlan(this) /\ LocalAwait(this)

IInv == TypeOK /\ \A c \in Calls : Local(call[c])

\* Versions and Booleans, for the provers.
LEMMA Types ==
  /\ MaxVersion \in Nat /\ MaxVersion >= 1
  /\ Idle \in Call
  /\ Idle.query \in Queries
<1>1. (CHOOSE q \in Queries : TRUE) \in Queries
  BY ClientAssumption
<1>2. /\ <<>> \in Seq(0..MaxVersion) /\ <<>> \in Seq(Values)
      /\ <<>> \in Seq({"value", "exception", "nothing"})
  OBVIOUS
<1> QED
  BY <1>1, <1>2, ClientAssumption DEF Idle, Call, Policies, Awaiter

\* A new call, in terms of its fields.
LEMMA NewCall ==
  ASSUME NEW kind \in {"query", "mutation", "subscription"}, NEW query \in Queries,
         NEW policy \in Policies, NEW plan \in {"just", "concat", "network", "link"},
         NEW awaited \in BOOLEAN, NEW cached \in 0..MaxVersion
  PROVE  LET new == New(kind, query, policy, plan, awaited, cached) IN
         /\ new \in Call
         /\ new.stage = "built" /\ new.kind = kind /\ new.query = query
         /\ new.policy = policy /\ new.plan = plan /\ new.awaited = awaited
         /\ new.cached = cached /\ ~new.sent /\ new.inbox = <<>> /\ new.served = 0
         /\ new.seen = <<>> /\ new.ending = "none" /\ new.awaiter = Idle.awaiter
<1>1. Idle \in Call
  BY Types
<1>2. /\ ~Idle.sent /\ Idle.inbox = <<>> /\ Idle.served = 0
      /\ Idle.seen = <<>> /\ Idle.ending = "none"
  BY DEF Idle
<1> DEFINE new == New(kind, query, policy, plan, awaited, cached)
<1>3. new \in Call
  BY <1>1 DEF New, Call
<1>4. /\ new.stage = "built" /\ new.kind = kind /\ new.query = query
      /\ new.policy = policy /\ new.plan = plan /\ new.awaited = awaited
      /\ new.cached = cached
  BY <1>1 DEF New, Call
<1>5. /\ ~new.sent /\ new.inbox = <<>> /\ new.served = 0
      /\ new.seen = <<>> /\ new.ending = "none" /\ new.awaiter = Idle.awaiter
  BY <1>1, <1>2 DEF New, Call
<1> QED
  BY <1>3, <1>4, <1>5

\* A call that is over.
LEMMA OverCall ==
  ASSUME NEW this \in Call, NEW ending \in {"completed", "error", "disposed"}
  PROVE  LET o == Over(this, ending) IN
         /\ o \in Call
         /\ o.stage = "done" /\ o.ending = ending /\ o.inbox = <<>> /\ o.cached = 0
         /\ o.kind = this.kind /\ o.query = this.query /\ o.policy = this.policy
         /\ o.plan = this.plan /\ o.awaited = this.awaited /\ o.sent = this.sent
         /\ o.seen = this.seen /\ o.awaiter = this.awaiter
<1>1. <<>> \in Seq(0..MaxVersion) /\ 0 \in 0..MaxVersion
  BY Types
<1> QED
  BY <1>1 DEF Over, Call

\* What is appended comes last, and what is taken is the first.
LEMMA AppendOne ==
  ASSUME NEW S, NEW s \in Seq(S), NEW e \in S
  PROVE  /\ Append(s, e) \in Seq(S) /\ Append(s, e) # <<>>
         /\ Len(Append(s, e)) = Len(s) + 1
         /\ DOMAIN s = 1..Len(s) /\ DOMAIN Append(s, e) = 1..(Len(s) + 1)
         /\ \A i \in 1..Len(s) : Append(s, e)[i] = s[i]
         /\ Append(s, e)[Len(s) + 1] = e
BY AppendProperties

LEMMA TakeOne ==
  ASSUME NEW S, NEW s \in Seq(S), s # <<>>
  PROVE  /\ Head(s) \in S /\ Head(s) = s[1]
         /\ Tail(s) \in Seq(S) /\ Len(Tail(s)) = Len(s) - 1 /\ Len(s) >= 1
         /\ DOMAIN Tail(s) = 1..(Len(s) - 1)
         /\ \A i \in 1..(Len(s) - 1) : Tail(s)[i] = s[i + 1]
BY HeadTailProperties

\* An awaiter whose coroutine runs already, or not yet.
LEMMA AwaiterTells ==
  ASSUME NEW a \in Awaiter
  PROVE  /\ AwaiterNext(a) \in Awaiter /\ AwaiterError(a) \in Awaiter
         /\ AwaiterCompleted(a) \in Awaiter
         /\ AwaiterNext(a).resumed
         /\ a.resumed =>
              /\ AwaiterError(a).resumptions = a.resumptions
              /\ AwaiterCompleted(a).resumptions = a.resumptions
         /\ ~a.value /\ ~a.exception /\ ~a.resumed /\ a.resumptions = <<>> =>
              /\ AwaiterNext(a).resumptions = <<"value">>
              /\ AwaiterError(a).resumptions = <<"exception">>
              /\ AwaiterCompleted(a).resumptions = <<"exception">>
<1> DEFINE Outcomes == {"value", "exception", "nothing"}
<1>1. ASSUME NEW b \in Awaiter
      PROVE  /\ Resume(b) \in Awaiter /\ Resume(b).resumed
             /\ b.resumed => Resume(b) = b
             /\ ~b.resumed => Resume(b).resumptions = Append(b.resumptions, AwaitResume(b))
  <2>1. AwaitResume(b) \in Outcomes /\ b.resumptions \in Seq(Outcomes)
    BY <1>1 DEF AwaitResume, Awaiter
  <2>2. Append(b.resumptions, AwaitResume(b)) \in Seq(Outcomes)
    BY <2>1, AppendOne
  <2> QED BY <1>1, <2>2 DEF Resume, Awaiter
<1> DEFINE v == [a EXCEPT !.value = TRUE]
           e == [a EXCEPT !.exception = TRUE]
<1>2. /\ v \in Awaiter /\ v.value /\ v.exception = a.exception
      /\ v.resumed = a.resumed /\ v.resumptions = a.resumptions
  BY DEF Awaiter
<1>3. /\ e \in Awaiter /\ e.exception
      /\ e.resumed = a.resumed /\ e.resumptions = a.resumptions
  BY DEF Awaiter
<1>4. AwaiterNext(a) = Resume(v) /\ AwaiterError(a) = Resume(e)
  BY DEF AwaiterNext, AwaiterError
<1>5. AwaiterCompleted(a) \in {a, Resume(e)}
      /\ (a.resumed => AwaiterCompleted(a) = a)
      /\ (~a.value /\ ~a.resumed => AwaiterCompleted(a) = Resume(e))
  BY DEF AwaiterCompleted
<1> HIDE DEF v, e
<1>6. AwaitResume(e) = "exception" /\ (~a.exception => AwaitResume(v) = "value")
  BY <1>2, <1>3 DEF AwaitResume
<1>7. \A x : Append(<<>>, x) = <<x>>
  OBVIOUS
<1> QED
  BY <1>1, <1>2, <1>3, <1>4, <1>5, <1>6, <1>7

\* What ends a call, or its part of it, leaves nothing on its way.
Ends(this) == {Completed(this), Failed(this), Over(this, "disposed"), TakesOne(this)}
LEMMA EndFields ==
  ASSUME NEW this \in Call, NEW o \in Ends(this)
  PROVE  /\ o \in Call /\ o.stage \in {"resuming", "done"}
         /\ o.inbox = <<>> /\ o.cached = 0
         /\ o.kind = this.kind /\ o.query = this.query /\ o.policy = this.policy
         /\ o.plan = this.plan /\ o.awaited = this.awaited /\ o.sent = this.sent
         /\ o.seen = this.seen
<1>1. ASSUME NEW a \in Awaiter, NEW ending \in {"completed", "error"},
             o = Over([this EXCEPT !.awaiter = a], ending)
      PROVE  /\ o \in Call /\ o.stage \in {"resuming", "done"}
             /\ o.inbox = <<>> /\ o.cached = 0
             /\ o.kind = this.kind /\ o.query = this.query /\ o.policy = this.policy
             /\ o.plan = this.plan /\ o.awaited = this.awaited /\ o.sent = this.sent
             /\ o.seen = this.seen
  <2> DEFINE that == [this EXCEPT !.awaiter = a]
  <2>1. /\ that \in Call
        /\ that.kind = this.kind /\ that.query = this.query /\ that.policy = this.policy
        /\ that.plan = this.plan /\ that.awaited = this.awaited /\ that.sent = this.sent
        /\ that.seen = this.seen
    BY <1>1 DEF Call
  <2>2. o = Over(that, ending)
    BY <1>1
  <2> HIDE DEF that
  <2> QED BY <2>1, <2>2, OverCall
<1>2. this.awaiter \in Awaiter
  BY DEF Call
<1>3. CASE o = Completed(this) \/ o = Failed(this)
  <2>1. CASE this.awaited
    BY <1>1, <1>2, <1>3, <2>1, AwaiterTells DEF Completed, Failed
  <2>2. CASE ~this.awaited
    BY <1>3, <2>2, OverCall DEF Completed, Failed
  <2> QED BY <2>1, <2>2
<1>4. CASE o = Over(this, "disposed")
  BY <1>4, OverCall
<1>5. CASE o = TakesOne(this)
  <2> DEFINE a == AwaiterNext(this.awaiter)
  <2>1. a \in Awaiter /\ <<>> \in Seq(0..MaxVersion) /\ 0 \in 0..MaxVersion /\ 0 \in Nat
    BY <1>2, AwaiterTells, Types
  <2>2. o = [this EXCEPT !.stage = "resuming", !.inbox = <<>>, !.cached = 0,
                         !.served = 0, !.awaiter = a]
    BY <1>5 DEF TakesOne
  <2> HIDE DEF a
  <2> QED BY <2>1, <2>2 DEF Call
<1> QED BY <1>3, <1>4, <1>5 DEF Ends

LEMMA PlanFits ==
  ASSUME NEW policy \in Policies, NEW hit \in BOOLEAN
  PROVE  LET plan == Plan(Policy(policy), hit) IN
         /\ plan \in {"just", "concat", "network", "link"}
         /\ plan = "just" => policy = "CacheFirst"
         /\ plan = "concat" => policy = "CacheAndNetwork"
BY DEF Plan, Policy, Policies

\* An answer is served, an answer is shown: of what a call may show there is no more.
LEMMA ServedOne ==
  ASSUME NEW seen \in Nat, NEW inbox \in Nat, NEW served \in Nat, NEW more \in Nat,
         seen + inbox <= served + more, served < 1
  PROVE  served + 1 <= 1 /\ seen + (inbox + 1) <= (served + 1) + more
OBVIOUS

LEMMA ShownOne ==
  ASSUME NEW seen \in Nat, NEW inbox \in Nat, NEW served \in Nat, NEW more \in Nat,
         NEW most \in Nat,
         seen + inbox <= served + more, served <= 1, inbox >= 1, more + 1 <= most
  PROVE  /\ (seen + 1) + (inbox - 1) <= served + more
         /\ seen + 1 <= most
OBVIOUS

\* A step of the call c replaces it by another one that is sound.
Becomes(c) ==
  \E new \in Call : Local(new) /\ call' = [call EXCEPT ![c] = new]

LEMMA StartMoves ==
  ASSUME IInv, NEW c \in Calls, Query(c) \/ Mutation(c) \/ Subscribe(c)
  PROVE  Becomes(c)
<1>1. ASSUME NEW kind \in {"query", "mutation", "subscription"}, NEW query \in Queries,
             NEW policy \in Policies, NEW plan \in {"just", "concat", "network", "link"},
             NEW awaited \in BOOLEAN, NEW cached \in 0..MaxVersion,
             kind = "subscription" => plan = "link",
             plan \in {"just", "concat"} => kind = "query",
             plan = "just" => policy = "CacheFirst",
             plan = "concat" => policy = "CacheAndNetwork",
             Start(c, New(kind, query, policy, plan, awaited, cached))
      PROVE  Becomes(c)
  <2> DEFINE new == New(kind, query, policy, plan, awaited, cached)
  <2> HIDE DEF new
  <2>1. new \in Call /\ call' = [call EXCEPT ![c] = new]
    BY <1>1, NewCall DEF new, Start
  <2>2. Local(new)
    <3>1. /\ new.stage = "built" /\ new.kind = kind /\ new.policy = policy
          /\ new.plan = plan /\ new.awaited = awaited /\ ~new.sent
          /\ new.inbox = <<>> /\ new.served = 0 /\ new.seen = <<>>
          /\ new.awaiter = Idle.awaiter
      BY NewCall DEF new
    <3>2. LocalPlan(new)
      BY <1>1, <3>1 DEF LocalPlan
    <3>3. LocalAwait(new)
      BY <3>1 DEF LocalAwait, Idle
    <3> QED BY <3>2, <3>3 DEF Local
  <2> QED BY <2>1, <2>2 DEF Becomes
<1>2. CASE Query(c)
  <2>1. PICK q \in Queries, policy \in Policies, awaited \in BOOLEAN :
          LET hit == Key("query", q, "printed") \in hits
              plan == Plan(Policy(policy), hit)
          IN Start(c, New("query", q, policy, plan, awaited,
                          IF plan \in {"just", "concat"} THEN stored ELSE 0))
    BY <1>2 DEF Query
  <2> DEFINE hit == Key("query", q, "printed") \in hits
             plan == Plan(Policy(policy), hit)
             cached == IF plan \in {"just", "concat"} THEN stored ELSE 0
  <2>2. /\ plan \in {"just", "concat", "network", "link"}
        /\ plan = "just" => policy = "CacheFirst"
        /\ plan = "concat" => policy = "CacheAndNetwork"
    <3>1. hit \in BOOLEAN
      OBVIOUS
    <3> HIDE DEF hit
    <3> QED BY <3>1, PlanFits
  <2>3. cached \in 0..MaxVersion
    BY Types DEF IInv, TypeOK
  <2>4. Start(c, New("query", q, policy, plan, awaited, cached))
    BY <2>1
  <2> HIDE DEF plan, cached
  <2> QED BY <1>1, <2>2, <2>3, <2>4
<1>3. CASE Mutation(c)
  <2> DEFINE plan == Plan(Policy("NetworkOnly"), FALSE)
  <2>1. PICK q \in Queries, awaited \in BOOLEAN :
          Start(c, New("mutation", q, "NetworkOnly", plan, awaited, 0))
    BY <1>3 DEF Mutation
  <2>2. plan \in {"network", "link"} /\ "NetworkOnly" \in Policies /\ 0 \in 0..MaxVersion
    BY Types DEF Plan, Policy, Policies
  <2> HIDE DEF plan
  <2> QED BY <1>1, <2>1, <2>2
<1>4. CASE Subscribe(c)
  <2>1. "NetworkOnly" \in Policies /\ 0 \in 0..MaxVersion
    BY Types DEF Policies
  <2>2. PICK q \in Queries, awaited \in BOOLEAN :
          Start(c, New("subscription", q, "NetworkOnly", "link", awaited, 0))
    BY <1>4 DEF Subscribe
  <2> QED BY <1>1, <2>1, <2>2
<1> QED BY <1>2, <1>3, <1>4

\* A call that waits, that is over, or whose coroutine is resumed: what ends it
\* keeps to Local.
LEMMA PlanStays ==
  ASSUME NEW this \in Call, LocalPlan(this), NEW o \in Ends(this)
  PROVE  LocalPlan(o)
<1>1. /\ o.stage \in {"resuming", "done"}
      /\ o.kind = this.kind /\ o.policy = this.policy /\ o.sent = this.sent
      /\ o.plan = this.plan /\ o.awaited = this.awaited /\ o.seen = this.seen
  BY EndFields
<1> QED BY <1>1 DEF LocalPlan

\* The awaiter of a call that completes or fails.
LEMMA AwaiterEnds ==
  ASSUME NEW this \in Call, this.awaited,
         NEW o \in {Completed(this), Failed(this)}
  PROVE  /\ o.stage = "done" /\ o.ending # "disposed"
         /\ o.awaiter \in {AwaiterCompleted(this.awaiter), AwaiterError(this.awaiter)}
<1>1. this.awaiter \in Awaiter
  BY DEF Call
<1>2. ASSUME NEW a \in Awaiter, NEW ending \in {"completed", "error"},
             o = Over([this EXCEPT !.awaiter = a], ending)
      PROVE  o.stage = "done" /\ o.ending # "disposed" /\ o.awaiter = a
  <2> DEFINE that == [this EXCEPT !.awaiter = a]
  <2>1. that \in Call /\ that.awaiter = a
    BY <1>2 DEF Call
  <2>2. o = Over(that, ending)
    BY <1>2
  <2> HIDE DEF that
  <2> QED BY <2>1, <2>2, OverCall
<1>3. /\ AwaiterCompleted(this.awaiter) \in Awaiter /\ AwaiterError(this.awaiter) \in Awaiter
  BY <1>1, AwaiterTells
<1>4. CASE o = Completed(this)
  BY <1>2, <1>3, <1>4 DEF Completed
<1>5. CASE o = Failed(this)
  BY <1>2, <1>3, <1>5 DEF Failed
<1> QED BY <1>4, <1>5

LEMMA EndsLocal ==
  ASSUME NEW this \in Call, Local(this), this.stage \in {"waiting", "resuming"},
         NEW o \in {Completed(this), Failed(this)}
  PROVE  Local(o)
<1>1. LocalPlan(o)
  BY PlanStays DEF Local, Ends
<1>2. o.awaited = this.awaited /\ o.seen = this.seen /\ o.stage \in {"resuming", "done"}
  BY EndFields DEF Ends
<1>3. this.awaiter \in Awaiter
  BY DEF Call
<1>4. CASE this.awaited
  <2>1. /\ o.stage = "done" /\ o.ending # "disposed"
        /\ o.awaiter \in {AwaiterCompleted(this.awaiter), AwaiterError(this.awaiter)}
    BY <1>4, AwaiterEnds
  <2>2. CASE this.stage = "waiting"
    <3>1. /\ this.seen = <<>> /\ ~this.awaiter.value /\ ~this.awaiter.exception
          /\ ~this.awaiter.resumed /\ this.awaiter.resumptions = <<>>
      BY <1>4, <2>2 DEF Local, LocalPlan, LocalAwait
    <3>2. o.awaiter.resumptions = <<"exception">>
      BY <1>3, <2>1, <3>1, AwaiterTells
    <3> QED BY <1>1, <1>2, <2>1, <3>1, <3>2 DEF Local, LocalAwait
  <2>3. CASE this.stage = "resuming"
    <3>1. /\ this.seen # <<>> /\ this.awaiter.resumed
          /\ this.awaiter.resumptions = <<"value">>
      BY <1>4, <2>3 DEF Local, LocalAwait
    <3>2. o.awaiter.resumptions = <<"value">>
      BY <1>3, <2>1, <3>1, AwaiterTells
    <3> QED BY <1>1, <1>2, <2>1, <3>1, <3>2 DEF Local, LocalAwait
  <2> QED BY <2>2, <2>3
<1>5. CASE ~this.awaited
  <2>1. o.stage = "done"
    BY <1>5, OverCall DEF Completed, Failed
  <2> QED BY <1>1, <1>2, <1>5, <2>1 DEF Local, LocalAwait
<1> QED BY <1>4, <1>5

\* An awaiter that was as it was made has its first value.
LEMMA TakesLocal ==
  ASSUME NEW this \in Call, LocalPlan(TakesOne(this)), this.awaited, this.seen # <<>>,
         ~this.awaiter.value, ~this.awaiter.exception, ~this.awaiter.resumed,
         this.awaiter.resumptions = <<>>
  PROVE  Local(TakesOne(this))
<1> DEFINE o == TakesOne(this)
           a == AwaiterNext(this.awaiter)
<1>1. LocalPlan(o) /\ o.awaited /\ o.seen = this.seen
  BY EndFields DEF Ends
<1>2. this.awaiter \in Awaiter
  BY DEF Call
<1>3. a.resumed /\ a.resumptions = <<"value">>
  BY <1>2, AwaiterTells
<1> HIDE DEF a
<1>4. o.stage = "resuming" /\ o.awaiter = a
  BY DEF TakesOne, Call, a
<1> HIDE DEF o
<1>5. LocalAwait(o)
  BY <1>1, <1>3, <1>4 DEF LocalAwait
<1> QED BY <1>1, <1>5 DEF Local, o

LEMMA ObserveMoves ==
  ASSUME IInv, NEW c \in Calls, Observe(c)
  PROVE  Becomes(c)
<1> DEFINE this == call[c]
           goesOn == this.plan # "just" /\ ~(this.plan = "concat" /\ this.awaited)
           seen == IF this.plan \in {"just", "concat"}
                   THEN <<Value("cache", this.cached)>> ELSE <<>>
           shows == [this EXCEPT !.sent = goesOn, !.seen = seen]
           waits == [shows EXCEPT !.stage = "waiting"]
<1>1. this \in Call /\ Local(this) /\ this.stage = "built"
  BY DEF IInv, TypeOK, Observe
<1>2. call' = [call EXCEPT ![c] =
                 IF goesOn THEN waits
                 ELSE IF this.awaited THEN TakesOne(shows) ELSE Completed(shows)]
  BY DEF Observe
<1>3. /\ seen \in Seq(Values) /\ Len(seen) <= 1
      /\ this.plan \in {"just", "concat"} => Len(seen) = 1
      /\ this.plan \notin {"just", "concat"} => seen = <<>>
      /\ \A i \in DOMAIN seen : i = 1 /\ this.plan \in {"just", "concat"}
  <2>1. Value("cache", this.cached) \in Values
    BY <1>1 DEF Call, Values, Value
  <2> QED BY <2>1
<1>4. goesOn \in BOOLEAN
  OBVIOUS
<1> HIDE DEF goesOn, seen
<1>5. /\ shows \in Call /\ shows.stage = "built" /\ shows.kind = this.kind
      /\ shows.policy = this.policy /\ shows.plan = this.plan
      /\ shows.awaited = this.awaited /\ shows.sent = goesOn /\ shows.seen = seen
      /\ shows.inbox = <<>> /\ shows.served = 0 /\ shows.awaiter = this.awaiter
  BY <1>1, <1>3, <1>4 DEF Call, Local, LocalPlan
<1>5a. /\ ~this.awaiter.value /\ ~this.awaiter.exception /\ ~this.awaiter.resumed
       /\ this.awaiter.resumptions = <<>> /\ this.awaited \in BOOLEAN
  BY <1>1 DEF Call, Local, LocalAwait
<1> HIDE DEF this
<1>6. CASE goesOn
  <2>1. /\ waits \in Call /\ waits.stage = "waiting" /\ waits.kind = shows.kind
        /\ waits.policy = shows.policy /\ waits.plan = shows.plan
        /\ waits.awaited = shows.awaited /\ waits.sent = shows.sent
        /\ waits.seen = shows.seen /\ waits.inbox = shows.inbox
        /\ waits.served = shows.served /\ waits.awaiter = shows.awaiter
    BY <1>5 DEF Call
  <2> HIDE DEF shows, waits
  <2>2. LocalPlan(waits)
    BY <1>1, <1>3, <1>5, <1>6, <2>1 DEF Local, LocalPlan, goesOn
  <2>3. LocalAwait(waits)
    <3>1. this.awaited => seen = <<>>
      BY <1>3, <1>6, <1>1 DEF Local, LocalPlan, goesOn
    <3> QED BY <1>5, <1>5a, <2>1, <3>1 DEF LocalAwait
  <2> QED BY <1>2, <1>6, <2>1, <2>2, <2>3 DEF Becomes, Local
<1>7. CASE ~goesOn
  <2> HIDE DEF shows
  <2>1. this.plan = "just" \/ (this.plan = "concat" /\ this.awaited)
    BY <1>7 DEF goesOn
  <2>2. Len(seen) = 1 /\ seen # <<>>
    BY <1>3, <2>1
  <2>3. ASSUME NEW o \in Ends(shows) PROVE o \in Call /\ LocalPlan(o)
    <3>1. /\ o \in Call /\ o.stage \in {"resuming", "done"}
          /\ o.kind = this.kind /\ o.policy = this.policy /\ ~o.sent
          /\ o.plan = this.plan /\ o.awaited = this.awaited /\ o.seen = seen
      BY <1>5, <1>7, <2>3, EndFields
    <3> QED BY <1>1, <1>3, <2>1, <3>1 DEF Local, LocalPlan
  <2>4. CASE this.awaited
    <3>1. TakesOne(shows) \in Call /\ LocalPlan(TakesOne(shows))
      BY <2>3 DEF Ends
    <3>2. Local(TakesOne(shows))
      BY <1>5, <1>5a, <2>2, <2>4, <3>1, TakesLocal
    <3> QED BY <1>2, <1>7, <2>4, <3>1, <3>2 DEF Becomes
  <2>5. CASE ~this.awaited
    <3>1. Completed(shows) \in Call /\ LocalPlan(Completed(shows))
      BY <2>3 DEF Ends
    <3>2. Completed(shows).stage = "done" /\ ~Completed(shows).awaited
      BY <1>5, <2>5, OverCall DEF Completed
    <3>3. LocalAwait(Completed(shows))
      BY <3>2 DEF LocalAwait
    <3> QED BY <1>2, <1>7, <2>5, <3>1, <3>3 DEF Becomes, Local
  <2> QED BY <1>5a, <2>4, <2>5
<1> QED BY <1>6, <1>7

LEMMA ServeMoves ==
  ASSUME IInv, NEW c \in Calls, Serve(c)
  PROVE  /\ Becomes(c)
         /\ db' \in db..MaxVersion
         /\ \E answer \in {0, db'} :
              call' = [call EXCEPT ![c].inbox = Append(@, answer), ![c].served = @ + 1]
<1> DEFINE this == call[c]
<1>1. this \in Call /\ Local(this) /\ this.stage = "waiting"
  BY DEF IInv, TypeOK, Serve
<1>2. db' \in db..MaxVersion /\ db' \in 0..MaxVersion
  BY Types DEF IInv, TypeOK, Serve
<1>3. PICK answer \in {0, db'} :
        call' = [call EXCEPT ![c].inbox = Append(@, answer), ![c].served = @ + 1]
  BY DEF Serve
<1> DEFINE inbox == Append(this.inbox, answer)
           served == this.served + 1
           new == [this EXCEPT !.inbox = inbox, !.served = served]
<1>4. this.inbox \in Seq(0..MaxVersion) /\ this.served \in Nat /\ answer \in 0..MaxVersion
  BY <1>1, <1>2, Types DEF Call
<1>5. /\ inbox \in Seq(0..MaxVersion)
      /\ Len(inbox) = Len(this.inbox) + 1
      /\ served \in Nat
  BY <1>4, AppendOne
<1>6. call' = [call EXCEPT ![c] = new]
  BY <1>3
<1>7. this.kind # "subscription" => this.served < 1
  BY DEF Serve
<1> HIDE DEF inbox, served, this
<1>8. /\ new \in Call /\ new.stage = "waiting" /\ new.kind = this.kind
      /\ new.policy = this.policy /\ new.plan = this.plan
      /\ new.awaited = this.awaited /\ new.sent = this.sent
      /\ new.seen = this.seen /\ new.inbox = inbox
      /\ new.served = served /\ new.ending = this.ending
      /\ new.awaiter = this.awaiter
  BY <1>1, <1>5 DEF Call
<1> HIDE DEF new
<1>9. Len(this.inbox) \in Nat /\ Len(this.seen) \in Nat
  <2>1. this.seen \in Seq(Values)
    BY <1>1 DEF Call
  <2> QED BY <1>4, <2>1
<1>10. this.kind # "subscription" =>
         /\ new.served <= 1
         /\ Len(new.seen) + Len(new.inbox)
              <= new.served + (IF this.plan = "concat" THEN 1 ELSE 0)
  <2> SUFFICES ASSUME this.kind # "subscription"
               PROVE  /\ new.served <= 1
                      /\ Len(new.seen) + Len(new.inbox)
                           <= new.served + (IF this.plan = "concat" THEN 1 ELSE 0)
    OBVIOUS
  <2> DEFINE fromCache == IF this.plan = "concat" THEN 1 ELSE 0
  <2>1. fromCache \in Nat
    OBVIOUS
  <2>2. Len(this.seen) + Len(this.inbox) <= this.served + fromCache
    BY <1>1 DEF Local, LocalPlan
  <2>3. /\ Len(new.inbox) = Len(this.inbox) + 1 /\ Len(new.seen) = Len(this.seen)
        /\ new.served = this.served + 1 /\ this.served < 1
    BY <1>5, <1>7, <1>8 DEF served
  <2> HIDE DEF fromCache
  <2>4. new.served <= 1 /\ Len(new.seen) + Len(new.inbox) <= new.served + fromCache
    BY <1>4, <1>9, <2>1, <2>2, <2>3, ServedOne, Zenon
  <2> QED BY <2>4 DEF fromCache
<1>11. LocalPlan(new)
  BY <1>1, <1>8, <1>10 DEF Local, LocalPlan
<1>12. LocalAwait(new)
  BY <1>1, <1>8 DEF Local, LocalAwait
<1> QED BY <1>2, <1>3, <1>6, <1>8, <1>11, <1>12 DEF Becomes, Local

LEMMA OnNextMoves ==
  ASSUME IInv, NEW c \in Calls, OnNext(c)
  PROVE  Becomes(c)
<1> DEFINE this == call[c]
           version == Head(this.inbox)
           value == Value("network", version)
           seen == Then(this.seen, value)
           rest == Tail(this.inbox)
           next == [this EXCEPT !.inbox = Tail(@), !.seen = seen]
<1>1. /\ this \in Call /\ Local(this) /\ this.stage = "waiting" /\ this.inbox # <<>>
      /\ this.inbox \in Seq(0..MaxVersion) /\ this.seen \in Seq(Values)
      /\ this.awaited \in BOOLEAN /\ this.served \in Nat
  <2>1. this \in Call /\ Local(this) /\ this.stage = "waiting" /\ this.inbox # <<>>
    BY DEF IInv, TypeOK, OnNext
  <2> QED BY <2>1 DEF Call
<1>2. /\ version \in 0..MaxVersion /\ rest \in Seq(0..MaxVersion)
      /\ Len(rest) = Len(this.inbox) - 1
  BY <1>1, TakeOne
<1>3. value \in Values /\ value.from = "network"
  BY <1>2 DEF Value, Values
<1>4. /\ seen \in Seq(Values) /\ Len(seen) = Len(this.seen) + 1 /\ seen # <<>>
      /\ DOMAIN this.seen = 1..Len(this.seen) /\ DOMAIN seen = 1..(Len(this.seen) + 1)
      /\ \A i \in 1..Len(this.seen) : seen[i] = this.seen[i]
      /\ seen[Len(this.seen) + 1] = value
  <2>1. seen = Append(this.seen, value)
    BY DEF Then
  <2> HIDE DEF this, value, seen
  <2> QED BY <1>1, <1>3, <2>1, AppendOne
<1>5. call' = [call EXCEPT ![c] =
                 IF this.awaited THEN TakesOne(next) ELSE next]
  BY DEF OnNext
<1> HIDE DEF version, value, seen
<1>6. /\ next \in Call /\ next.stage = "waiting" /\ next.kind = this.kind
      /\ next.policy = this.policy /\ next.plan = this.plan
      /\ next.awaited = this.awaited /\ next.sent = this.sent
      /\ next.seen = seen /\ next.inbox = rest
      /\ next.served = this.served /\ next.ending = this.ending
      /\ next.awaiter = this.awaiter
  BY <1>1, <1>2, <1>4 DEF Call
<1>7. /\ Len(this.inbox) \in Nat /\ Len(this.seen) \in Nat
      /\ Len(this.inbox) = 0 <=> this.inbox = <<>>
  BY <1>1
<1>8. \A i \in DOMAIN seen :
        seen[i].from = "cache" => i = 1 /\ this.plan \in {"just", "concat"}
  <2> HIDE DEF this
  <2>1. \A i \in 1..Len(this.seen) :
          this.seen[i].from = "cache" => i = 1 /\ this.plan \in {"just", "concat"}
    BY <1>1, <1>4 DEF Local, LocalPlan
  <2>2. \A i \in 1..(Len(this.seen) + 1) : i \in 1..Len(this.seen) \/ i = Len(this.seen) + 1
    BY <1>7
  <2>3. seen[Len(this.seen) + 1].from # "cache"
    BY <1>3, <1>4
  <2> QED BY <1>4, <2>1, <2>2, <2>3
<1> HIDE DEF this, next, rest
<1>9. this.kind # "subscription" =>
        /\ this.served <= 1
        /\ Len(seen) + Len(rest) <= this.served + (IF this.plan = "concat" THEN 1 ELSE 0)
        /\ Len(seen) <= IF this.policy = "CacheAndNetwork" THEN 2 ELSE 1
  <2> DEFINE fromCache == IF this.plan = "concat" THEN 1 ELSE 0
             most == IF this.policy = "CacheAndNetwork" THEN 2 ELSE 1
  <2> SUFFICES ASSUME this.kind # "subscription"
               PROVE  /\ this.served <= 1
                      /\ Len(seen) + Len(rest) <= this.served + fromCache
                      /\ Len(seen) <= most
    OBVIOUS
  <2>1. fromCache \in Nat /\ most \in Nat /\ fromCache + 1 <= most
    BY <1>1 DEF Local, LocalPlan
  <2>2. /\ this.served <= 1
        /\ Len(this.seen) + Len(this.inbox) <= this.served + fromCache
    BY <1>1 DEF Local, LocalPlan
  <2>3. Len(this.inbox) >= 1
    BY <1>1, <1>7
  <2>4. Len(rest) = Len(this.inbox) - 1 /\ Len(seen) = Len(this.seen) + 1
    BY <1>2, <1>4
  <2> HIDE DEF fromCache, most
  <2>5. /\ (Len(this.seen) + 1) + (Len(this.inbox) - 1) <= this.served + fromCache
        /\ Len(this.seen) + 1 <= most
    <3>1. this.served \in Nat /\ Len(this.inbox) \in Nat /\ Len(this.seen) \in Nat
      BY <1>1, <1>7
    <3> QED BY <2>1, <2>2, <2>3, <3>1, ShownOne, ZenonT(60)
  <2> QED BY <2>2, <2>4, <2>5, Zenon
<1>10. CASE this.awaited
  <2> DEFINE o == TakesOne(next)
  <2>1. /\ o \in Call /\ o.stage \in {"resuming", "done"}
        /\ o.kind = this.kind /\ o.policy = this.policy /\ o.sent = this.sent
        /\ o.plan = this.plan /\ o.awaited = this.awaited /\ o.seen = seen
    BY <1>6, EndFields DEF Ends
  <2>2. /\ ~this.awaiter.value /\ ~this.awaiter.exception /\ ~this.awaiter.resumed
        /\ this.awaiter.resumptions = <<>>
    BY <1>1 DEF Local, LocalAwait
  <2>3. LocalPlan(o)
    <3> HIDE DEF o
    <3> QED BY <1>1, <1>8, <1>9, <2>1 DEF Local, LocalPlan
  <2>4. Local(o)
    BY <1>4, <1>6, <1>10, <2>2, <2>3, TakesLocal
  <2> HIDE DEF o
  <2> QED BY <1>5, <1>10, <2>1, <2>4 DEF Becomes, o
<1>11. CASE ~this.awaited
  <2>1. LocalPlan(next)
    BY <1>1, <1>6, <1>8, <1>9, <1>11 DEF Local, LocalPlan
  <2>2. LocalAwait(next)
    BY <1>1, <1>6, <1>11 DEF Local, LocalAwait
  <2> QED BY <1>5, <1>6, <1>11, <2>1, <2>2 DEF Becomes, Local
<1> QED BY <1>10, <1>11

LEMMA EndMoves ==
  ASSUME IInv, NEW c \in Calls, Dispose(c) \/ OnCompleted(c) \/ OnError(c)
  PROVE  /\ Becomes(c)
         /\ \E o \in Ends(call[c]) : call' = [call EXCEPT ![c] = o]
<1> DEFINE this == call[c]
<1>1. this \in Call /\ Local(this) /\ this.awaited \in BOOLEAN
  BY DEF IInv, TypeOK, Call
<1>2. ASSUME NEW o \in Ends(this), Local(o), call' = [call EXCEPT ![c] = o]
      PROVE  /\ Becomes(c)
             /\ \E p \in Ends(call[c]) : call' = [call EXCEPT ![c] = p]
  <2>1. o \in Call
    BY <1>1, <1>2, EndFields
  <2> QED BY <1>2, <2>1 DEF Becomes
<1>3. CASE Dispose(c)
  <2> DEFINE o == Over(this, "disposed")
  <2>1. /\ call' = [call EXCEPT ![c] = o] /\ this.stage \in {"built", "waiting"}
        /\ this.awaited => this.stage = "built"
    BY <1>3 DEF Dispose, Busy
  <2>2. /\ o \in Ends(this) /\ o.stage = "done" /\ o.ending = "disposed"
        /\ o.seen = this.seen /\ o.awaiter = this.awaiter /\ o.awaited = this.awaited
    BY <1>1, OverCall DEF Ends
  <2>3. LocalPlan(o)
    BY <1>1, <2>2, PlanStays DEF Local
  <2> HIDE DEF o, this
  <2>4. LocalAwait(o)
    BY <1>1, <2>1, <2>2 DEF Local, LocalPlan, LocalAwait
  <2> QED BY <1>2, <2>1, <2>2, <2>3, <2>4 DEF Local
<1>4. CASE OnError(c)
  <2>1. /\ this.stage \in {"waiting", "resuming"}
        /\ call' = [call EXCEPT ![c] = Failed(this)]
    BY <1>4 DEF OnError
  <2>2. Local(Failed(this)) /\ Failed(this) \in Ends(this)
    BY <1>1, <2>1, EndsLocal DEF Ends
  <2> QED BY <1>2, <2>1, <2>2
<1>5. CASE OnCompleted(c)
  <2>1. /\ this.stage \in {"waiting", "resuming"}
        /\ call' = [call EXCEPT ![c] = Completed(this)]
    BY <1>5 DEF OnCompleted
  <2>2. Local(Completed(this)) /\ Completed(this) \in Ends(this)
    BY <1>1, <2>1, EndsLocal DEF Ends
  <2> QED BY <1>2, <2>1, <2>2
<1> QED BY <1>3, <1>4, <1>5

\* All calls keep to Local when one does.
LEMMA CallsKept ==
  ASSUME IInv, NEW c \in Calls, Becomes(c)
  PROVE  call' \in [Calls -> Call] /\ \A d \in Calls : Local(call'[d])
<1>1. PICK new \in Call : Local(new) /\ call' = [call EXCEPT ![c] = new]
  BY DEF Becomes
<1>2. \A d \in Calls : call'[d] = IF d = c THEN new ELSE call[d]
  BY <1>1 DEF IInv, TypeOK
<1> QED
  BY <1>1, <1>2 DEF IInv, TypeOK

\* What an answer does to the cache, and to the histories.
LEMMA TapTypes ==
  ASSUME IInv, NEW c \in Calls, OnNext(c)
  PROVE  /\ hits' \subseteq {Key(k, q, t) : k \in {"query", "mutation"}, q \in Queries, t \in Text}
         /\ stored' \in 0..MaxVersion /\ shown' \in 0..MaxVersion
         /\ evicted' \subseteq Queries
<1> DEFINE this == call[c]
           version == Head(this.inbox)
           keys == {Key(k, q, t) : k \in {"query", "mutation"}, q \in Queries, t \in Text}
<1>1. /\ this \in Call /\ Local(this) /\ this.inbox \in Seq(0..MaxVersion)
      /\ this.inbox # <<>>
  BY DEF IInv, TypeOK, OnNext, Call
<1>2. version \in 0..MaxVersion
  BY <1>1, TakeOne
<1>3. /\ Tap(this, version)
      /\ shown' = IF this.plan # "link" /\ version > shown THEN version ELSE shown
      /\ evicted' \in {evicted, evicted \ {this.query}}
  BY DEF OnNext
<1>4. this.plan # "link" => Key(this.kind, this.query, "printed") \in keys
  BY <1>1 DEF Local, LocalPlan, Text, Call
<1> HIDE DEF version, this, keys
<1>5. hits' \subseteq keys /\ stored' \in 0..MaxVersion
  <2>1. hits \subseteq keys /\ stored \in 0..MaxVersion
    BY DEF IInv, TypeOK, keys
  <2>2. CASE this.plan # "link" /\ version # 0
    BY <1>2, <1>3, <1>4, <2>1, <2>2 DEF Tap, CacheWrite
  <2>3. CASE ~(this.plan # "link" /\ version # 0)
    BY <1>3, <2>1, <2>3 DEF Tap, cacheVars
  <2> QED BY <2>2, <2>3
<1>6. shown' \in 0..MaxVersion /\ evicted' \subseteq Queries
  BY <1>2, <1>3 DEF IInv, TypeOK
<1> QED BY <1>5, <1>6 DEF keys

LEMMA InitIInv == Init => IInv
<1> SUFFICES ASSUME Init PROVE IInv
  OBVIOUS
<1>1. \A c \in Calls : call[c] = Idle
  BY DEF Init
<1>2. Local(Idle)
  BY DEF Local, LocalPlan, LocalAwait, Idle
<1>3. TypeOK
  <2>1. call \in [Calls -> Call]
    BY Types DEF Init
  <2>2. stored = 0 /\ db = 1 /\ shown = 0 /\ hits = {} /\ evicted = {}
    BY DEF Init
  <2>3. 0 \in 0..MaxVersion /\ 1 \in 1..MaxVersion
    BY Types
  <2>4. overlapped \in BOOLEAN
    BY DEF Init
  <2> QED BY <2>1, <2>2, <2>3, <2>4 DEF TypeOK
<1> QED BY <1>1, <1>2, <1>3 DEF IInv

LEMMA NextIInv == IInv /\ [Next]_vars => IInv'
<1> SUFFICES ASSUME IInv, [Next]_vars PROVE IInv'
  OBVIOUS
<1>1. ASSUME NEW c \in Calls, Becomes(c),
             UNCHANGED <<hits, stored, shown, evicted>>,
             db' \in 1..MaxVersion, overlapped' \in BOOLEAN
      PROVE  IInv'
  BY <1>1, CallsKept DEF IInv, TypeOK
<1>2. ASSUME NEW c \in Calls, Query(c) \/ Mutation(c) \/ Subscribe(c) PROVE IInv'
  <2>1. Becomes(c)
    BY <1>2, StartMoves
  <2>2. /\ UNCHANGED <<cacheVars, db, shown, evicted>>
        /\ overlapped' \in BOOLEAN
    BY <1>2 DEF Query, Mutation, Subscribe, Start, IInv, TypeOK
  <2> QED BY <1>1, <2>1, <2>2 DEF IInv, TypeOK, cacheVars
<1>3. ASSUME NEW c \in Calls, Observe(c) PROVE IInv'
  <2>1. UNCHANGED <<cacheVars, db, shown, overlapped, evicted>>
    BY <1>3 DEF Observe
  <2> QED BY <1>1, <1>3, <2>1, ObserveMoves DEF IInv, TypeOK, cacheVars
<1>4. ASSUME NEW c \in Calls, Dispose(c) \/ OnCompleted(c) \/ OnError(c) PROVE IInv'
  <2>1. UNCHANGED <<cacheVars, db, shown, overlapped, evicted>>
    BY <1>4 DEF Dispose, OnCompleted, OnError
  <2> QED BY <1>1, <1>4, <2>1, EndMoves DEF IInv, TypeOK, cacheVars
<1>5. ASSUME NEW c \in Calls, Serve(c) PROVE IInv'
  <2>1. UNCHANGED <<cacheVars, shown, overlapped, evicted>>
    BY <1>5 DEF Serve
  <2>2. Becomes(c) /\ db' \in db..MaxVersion
    BY <1>5, ServeMoves
  <2>3. db' \in 1..MaxVersion
    BY <2>2, Types DEF IInv, TypeOK
  <2> QED BY <1>1, <2>1, <2>2, <2>3 DEF IInv, TypeOK, cacheVars
<1>6. ASSUME NEW c \in Calls, OnNext(c) PROVE IInv'
  <2>1. UNCHANGED <<db, overlapped>>
    BY <1>6 DEF OnNext
  <2>2. call' \in [Calls -> Call] /\ \A d \in Calls : Local(call'[d])
    BY <1>6, OnNextMoves, CallsKept
  <2> QED BY <1>6, <2>1, <2>2, TapTypes DEF IInv, TypeOK
<1>7. ASSUME NEW q \in Queries, NEW text \in Text, Evict(q, text) PROVE IInv'
  BY <1>7 DEF Evict, IInv, TypeOK
<1>8. CASE UNCHANGED vars
  BY <1>8 DEF vars, cacheVars, IInv, TypeOK
<1> QED BY <1>2, <1>3, <1>4, <1>5, <1>6, <1>7, <1>8 DEF Next

LEMMA AlwaysIInv == Spec => []IInv
BY InitIInv, NextIInv, PTL DEF Spec

\* Whatever the application calls, and in whatever order answers arrive, cache and
\* calls stay in their types.
THEOREM ClientTyped == Spec => []TypeOK
BY AlwaysIInv, PTL DEF IInv

\* Every fetch policy shows what its table allows, for any number of calls.
THEOREM PoliciesKept == Spec => []PoliciesHonoured
<1>1. IInv => PoliciesHonoured
  <2> SUFFICES ASSUME IInv, NEW c \in Calls
               PROVE  LET this == call[c]
                      IN /\ FromCache(this) \subseteq {1}
                         /\ FromCache(this) # {} =>
                              /\ this.kind = "query"
                              /\ this.policy \in {"CacheFirst", "CacheAndNetwork"}
                              /\ this.policy = "CacheFirst" => ~this.sent
                         /\ this.kind # "subscription" =>
                              Len(this.seen) <= IF this.policy = "CacheAndNetwork" THEN 2 ELSE 1
    BY DEF PoliciesHonoured
  <2> DEFINE this == call[c]
  <2>1. Local(this)
    BY DEF IInv
  <2> HIDE DEF this
  <2> QED BY <2>1 DEF Local, LocalPlan, FromCache, this
<1> QED BY <1>1, AlwaysIInv, PTL

\* A coroutine that awaits a call is resumed once, with the first value or with the
\* exception of a call that ended before there was one, and neither take(1)'s
\* completion nor a late error resumes it again.
THEOREM AwaitDecided == Spec => []AwaitHasOneOutcome
<1>1. IInv => AwaitHasOneOutcome
  BY DEF IInv, Local, LocalAwait, AwaitHasOneOutcome
<1> QED BY <1>1, AlwaysIInv, PTL

-----------------------------------------------------------------------------
(* The order of the versions *)

\* What a call was shown and what is on its way to it is in the order of the
\* versions, and no version is newer than the server's.
Ordered(this, newest) ==
  /\ this.stage # "waiting" => this.inbox = <<>>
  /\ this.cached <= newest
  /\ \A i \in DOMAIN this.seen : this.seen[i].version <= newest
  /\ \A i \in DOMAIN this.inbox : this.inbox[i] <= newest
  /\ \A i, j \in DOMAIN this.seen :
       i < j /\ this.seen[j].version # 0 => this.seen[i].version <= this.seen[j].version
  /\ \A i \in DOMAIN this.seen, j \in DOMAIN this.inbox :
       this.inbox[j] # 0 => this.seen[i].version <= this.inbox[j]
  /\ \A i, j \in DOMAIN this.inbox :
       i < j /\ this.inbox[j] # 0 => this.inbox[i] <= this.inbox[j]

OInv == IInv /\ stored <= db /\ \A c \in Calls : Ordered(call[c], db)

LEMMA ElementsOf ==
  ASSUME NEW S, NEW s \in Seq(S)
  PROVE  \A i \in DOMAIN s : s[i] \in S
OBVIOUS

\* Every version is a number.
LEMMA Numbers ==
  ASSUME NEW this \in Call
  PROVE  /\ this.cached \in Nat
         /\ \A i \in DOMAIN this.seen : this.seen[i].version \in Nat
         /\ \A i \in DOMAIN this.inbox : this.inbox[i] \in Nat
<1>1. /\ this.seen \in Seq(Values) /\ this.inbox \in Seq(0..MaxVersion)
      /\ this.cached \in 0..MaxVersion
  BY DEF Call
<1>2. /\ \A i \in DOMAIN this.seen : this.seen[i] \in Values
      /\ \A i \in DOMAIN this.inbox : this.inbox[i] \in 0..MaxVersion
  BY <1>1, ElementsOf
<1>3. \A v \in Values : v.version \in Nat
  BY Types DEF Values
<1> QED BY <1>1, <1>2, <1>3, Types

\* A call that is in order is in order when the server has a newer version.
LEMMA StaysOrdered ==
  ASSUME NEW this \in Call, NEW old \in Nat, NEW new \in Nat, old <= new,
         Ordered(this, old)
  PROVE  Ordered(this, new)
<1>1. /\ this.cached <= new
      /\ \A i \in DOMAIN this.seen : this.seen[i].version <= new
      /\ \A i \in DOMAIN this.inbox : this.inbox[i] <= new
  BY Numbers DEF Ordered
<1> QED BY <1>1 DEF Ordered

\* A call with nothing on its way and one value at most is in order.
LEMMA FewOrdered ==
  ASSUME NEW this \in Call, NEW newest \in Nat, this.inbox = <<>>, this.cached <= newest,
         this.seen = <<>> \/ (Len(this.seen) = 1 /\ this.seen[1].version <= newest)
  PROVE  Ordered(this, newest)
<1>1. this.seen \in Seq(Values)
  BY DEF Call
<1>2. DOMAIN this.inbox = {}
  OBVIOUS
<1>3. \A i \in DOMAIN this.seen : i = 1 /\ this.seen[i].version <= newest
  BY <1>1
<1> QED BY <1>2, <1>3 DEF Ordered

\* A call that ends stays in order.
LEMMA EndOrder ==
  ASSUME NEW this \in Call, NEW newest \in Nat, Ordered(this, newest), NEW o \in Ends(this)
  PROVE  o \in Call /\ Ordered(o, newest)
<1>1. /\ o \in Call /\ o.stage \in {"resuming", "done"} /\ o.inbox = <<>> /\ o.cached = 0
      /\ o.seen = this.seen
  BY EndFields
<1>2. DOMAIN o.inbox = {}
  BY <1>1
<1> QED BY <1>1, <1>2 DEF Ordered

\* A step that replaces a call by one that is in order.
BecomesOrdered(c) ==
  \E new \in Call : Ordered(new, db') /\ call' = [call EXCEPT ![c] = new]

LEMMA CallsOrdered ==
  ASSUME OInv, NEW c \in Calls, BecomesOrdered(c), db' \in Nat, db <= db'
  PROVE  \A d \in Calls : Ordered(call'[d], db')
<1>1. PICK new \in Call : Ordered(new, db') /\ call' = [call EXCEPT ![c] = new]
  BY DEF BecomesOrdered
<1>2. \A d \in Calls : call'[d] = IF d = c THEN new ELSE call[d]
  BY <1>1 DEF OInv, IInv, TypeOK
<1>3. db \in Nat /\ \A d \in Calls : call[d] \in Call
  BY Types DEF OInv, IInv, TypeOK
<1>4. \A d \in Calls : Ordered(call[d], db')
  BY <1>3, StaysOrdered DEF OInv
<1> QED
  BY <1>1, <1>2, <1>4

LEMMA StartOrdered ==
  ASSUME OInv, NEW c \in Calls, Query(c) \/ Mutation(c) \/ Subscribe(c)
  PROVE  BecomesOrdered(c)
<1>1. ASSUME NEW kind \in {"query", "mutation", "subscription"}, NEW query \in Queries,
             NEW policy \in Policies, NEW plan \in {"just", "concat", "network", "link"},
             NEW awaited \in BOOLEAN, NEW cached \in 0..MaxVersion, cached <= db,
             Start(c, New(kind, query, policy, plan, awaited, cached))
      PROVE  BecomesOrdered(c)
  <2> DEFINE new == New(kind, query, policy, plan, awaited, cached)
  <2>1. /\ new \in Call /\ new.inbox = <<>> /\ new.seen = <<>> /\ new.cached = cached
    BY NewCall
  <2>2. call' = [call EXCEPT ![c] = new] /\ db' = db /\ db \in Nat
    BY <1>1, Types DEF Start, OInv, IInv, TypeOK
  <2> HIDE DEF new
  <2>3. Ordered(new, db')
    BY <1>1, <2>1, <2>2, FewOrdered
  <2> QED BY <2>1, <2>2, <2>3 DEF BecomesOrdered
<1>2. 0 \in 0..MaxVersion /\ 0 <= db /\ stored \in 0..MaxVersion /\ stored <= db
  BY Types DEF OInv, IInv, TypeOK
<1>3. CASE Query(c)
  <2>1. PICK q \in Queries, policy \in Policies, awaited \in BOOLEAN :
          LET hit == Key("query", q, "printed") \in hits
              plan == Plan(Policy(policy), hit)
          IN Start(c, New("query", q, policy, plan, awaited,
                          IF plan \in {"just", "concat"} THEN stored ELSE 0))
    BY <1>3 DEF Query
  <2> DEFINE hit == Key("query", q, "printed") \in hits
             plan == Plan(Policy(policy), hit)
             cached == IF plan \in {"just", "concat"} THEN stored ELSE 0
  <2>2. plan \in {"just", "concat", "network", "link"}
    <3>1. hit \in BOOLEAN
      OBVIOUS
    <3> HIDE DEF hit
    <3> QED BY <3>1, PlanFits
  <2>3. cached \in 0..MaxVersion /\ cached <= db
    BY <1>2
  <2>4. Start(c, New("query", q, policy, plan, awaited, cached))
    BY <2>1
  <2> HIDE DEF plan, cached
  <2> QED BY <1>1, <2>2, <2>3, <2>4
<1>4. CASE Mutation(c)
  <2> DEFINE plan == Plan(Policy("NetworkOnly"), FALSE)
  <2>1. PICK q \in Queries, awaited \in BOOLEAN :
          Start(c, New("mutation", q, "NetworkOnly", plan, awaited, 0))
    BY <1>4 DEF Mutation
  <2>2. plan \in {"network", "link"} /\ "NetworkOnly" \in Policies
    BY DEF Plan, Policy, Policies
  <2> HIDE DEF plan
  <2> QED BY <1>1, <1>2, <2>1, <2>2
<1>5. CASE Subscribe(c)
  <2>1. "NetworkOnly" \in Policies
    BY DEF Policies
  <2> QED BY <1>1, <1>2, <1>5, <2>1 DEF Subscribe
<1> QED BY <1>3, <1>4, <1>5

LEMMA ObserveOrdered ==
  ASSUME OInv, NEW c \in Calls, Observe(c)
  PROVE  BecomesOrdered(c)
<1> DEFINE this == call[c]
           goesOn == this.plan # "just" /\ ~(this.plan = "concat" /\ this.awaited)
           value == Value("cache", this.cached)
           seen == IF this.plan \in {"just", "concat"} THEN <<value>> ELSE <<>>
           shows == [this EXCEPT !.sent = goesOn, !.seen = seen]
           waits == [shows EXCEPT !.stage = "waiting"]
<1>1. /\ this \in Call /\ Local(this) /\ this.stage = "built" /\ Ordered(this, db)
      /\ db' = db /\ db \in Nat
  BY Types DEF OInv, IInv, TypeOK, Observe
<1>2. call' = [call EXCEPT ![c] =
                 IF goesOn THEN waits
                 ELSE IF this.awaited THEN TakesOne(shows) ELSE Completed(shows)]
  BY DEF Observe
<1>3. /\ this.inbox = <<>> /\ this.cached <= db
      /\ value \in Values /\ value.version <= db
  BY <1>1 DEF Local, LocalPlan, Ordered, Call, Values, Value
<1> HIDE DEF value
<1>4. /\ seen \in Seq(Values)
      /\ seen = <<>> \/ (Len(seen) = 1 /\ seen[1].version <= db)
  BY <1>3
<1>5. goesOn \in BOOLEAN
  OBVIOUS
<1> HIDE DEF goesOn, seen
<1>6. /\ shows \in Call /\ shows.seen = seen /\ shows.inbox = <<>>
      /\ shows.cached = this.cached
  BY <1>1, <1>3, <1>4, <1>5 DEF Call
<1>7. /\ waits \in Call /\ waits.seen = seen /\ waits.inbox = <<>>
      /\ waits.cached = this.cached
  BY <1>6 DEF Call
<1> HIDE DEF this, shows, waits
<1>8. Ordered(shows, db') /\ Ordered(waits, db')
  BY <1>1, <1>3, <1>4, <1>6, <1>7, FewOrdered
<1>9. \A o \in {TakesOne(shows), Completed(shows)} : o \in Call /\ Ordered(o, db')
  BY <1>1, <1>6, <1>8, EndOrder DEF Ends
<1> QED BY <1>2, <1>7, <1>8, <1>9 DEF BecomesOrdered

LEMMA EndOrdered ==
  ASSUME OInv, NEW c \in Calls, Dispose(c) \/ OnCompleted(c) \/ OnError(c)
  PROVE  BecomesOrdered(c)
<1>1. PICK o \in Ends(call[c]) : call' = [call EXCEPT ![c] = o]
  BY EndMoves DEF OInv
<1>2. call[c] \in Call /\ Ordered(call[c], db) /\ db \in Nat /\ db' = db
  BY Types DEF OInv, IInv, TypeOK, Dispose, OnCompleted, OnError
<1>3. o \in Call /\ Ordered(o, db')
  BY <1>2, EndOrder
<1> QED BY <1>1, <1>3 DEF BecomesOrdered

\* An answer that is as new as the server's version goes behind all others.
LEMMA ServeOrdered ==
  ASSUME OInv, NEW c \in Calls, Serve(c)
  PROVE  BecomesOrdered(c)
<1> DEFINE this == call[c]
<1>1. /\ this \in Call /\ Ordered(this, db) /\ this.stage = "waiting"
      /\ db \in Nat /\ db' \in db..MaxVersion
  <2>1. IInv /\ Ordered(call[c], db)
    BY DEF OInv
  <2>2. db' \in db..MaxVersion
    BY <2>1, ServeMoves
  <2> QED BY <2>1, <2>2, Types DEF IInv, TypeOK, Serve
<1>2. PICK answer \in {0, db'} :
        call' = [call EXCEPT ![c].inbox = Append(@, answer), ![c].served = @ + 1]
  BY DEF Serve
<1> DEFINE inbox == Append(this.inbox, answer)
           served == this.served + 1
           new == [this EXCEPT !.inbox = inbox, !.served = served]
           n == Len(this.inbox)
<1>3. call' = [call EXCEPT ![c] = new]
  BY <1>2
<1>4. /\ this.inbox \in Seq(0..MaxVersion) /\ this.served \in Nat
      /\ db' \in Nat /\ db <= db' /\ answer \in 0..MaxVersion /\ answer <= db'
      /\ answer = 0 \/ answer = db'
  BY <1>1, Types DEF Call
<1>5. /\ inbox \in Seq(0..MaxVersion) /\ served \in Nat /\ n \in Nat
      /\ DOMAIN this.inbox = 1..n /\ DOMAIN inbox = 1..(n + 1)
      /\ \A i \in 1..n : inbox[i] = this.inbox[i]
      /\ inbox[n + 1] = answer
  BY <1>4, AppendOne
<1> HIDE DEF inbox, served, this, n
<1>6. /\ new \in Call /\ new.stage = "waiting" /\ new.cached = this.cached
      /\ new.seen = this.seen /\ new.inbox = inbox
  BY <1>1, <1>5 DEF Call
<1> HIDE DEF new
<1>7. Ordered(this, db')
  BY <1>1, <1>4, StaysOrdered
<1>8. \A i \in 1..(n + 1) : i \in 1..n \/ i = n + 1
  BY <1>5
<1>9. \A i, j \in 1..(n + 1) : i < j => i \in 1..n
  BY <1>5
<1>10. \A i \in DOMAIN inbox : inbox[i] <= db'
  BY <1>4, <1>5, <1>7, <1>8 DEF Ordered
<1>11. \A i \in DOMAIN this.seen, j \in DOMAIN inbox :
         inbox[j] # 0 => this.seen[i].version <= inbox[j]
  BY <1>4, <1>5, <1>7, <1>8 DEF Ordered
<1>12. \A i, j \in DOMAIN inbox : i < j /\ inbox[j] # 0 => inbox[i] <= inbox[j]
  BY <1>4, <1>5, <1>7, <1>8, <1>9 DEF Ordered
<1>13. Ordered(new, db')
  BY <1>6, <1>7, <1>10, <1>11, <1>12 DEF Ordered
<1> QED BY <1>3, <1>6, <1>13 DEF BecomesOrdered

\* The oldest answer goes behind all that was shown.
LEMMA OnNextOrdered ==
  ASSUME OInv, NEW c \in Calls, OnNext(c)
  PROVE  /\ BecomesOrdered(c)
         /\ db' = db /\ Head(call[c].inbox) <= db
<1> DEFINE this == call[c]
           version == Head(this.inbox)
           value == Value("network", version)
           seen == Then(this.seen, value)
           rest == Tail(this.inbox)
           next == [this EXCEPT !.inbox = rest, !.seen = seen]
           n == Len(this.seen)
           m == Len(this.inbox) - 1
<1>1. /\ this \in Call /\ Ordered(this, db) /\ this.stage = "waiting"
      /\ this.inbox \in Seq(0..MaxVersion) /\ this.inbox # <<>>
      /\ this.seen \in Seq(Values) /\ db' = db /\ db \in Nat
  BY Types DEF OInv, IInv, TypeOK, OnNext, Call
<1>2. call' = [call EXCEPT ![c] =
                 IF this.awaited THEN TakesOne(next) ELSE next]
  BY DEF OnNext
<1>3. /\ version \in 0..MaxVersion /\ version = this.inbox[1]
      /\ rest \in Seq(0..MaxVersion) /\ m \in Nat
      /\ DOMAIN this.inbox = 1..(m + 1) /\ DOMAIN rest = 1..m
      /\ \A i \in 1..m : rest[i] = this.inbox[i + 1]
  <2>1. Len(this.inbox) \in Nat /\ Len(this.inbox) >= 1
    BY <1>1, TakeOne
  <2>2. DOMAIN this.inbox = 1..(m + 1) /\ m \in Nat
    BY <1>1, <2>1
  <2>3. version \in 0..MaxVersion /\ version = this.inbox[1]
    BY <1>1, TakeOne
  <2>4. /\ rest \in Seq(0..MaxVersion) /\ DOMAIN rest = 1..m
        /\ \A i \in 1..m : rest[i] = this.inbox[i + 1]
    BY <1>1, TakeOne
  <2> QED BY <2>2, <2>3, <2>4
<1>4. value \in Values /\ value.version = version
  BY <1>3 DEF Value, Values
<1>5. /\ seen \in Seq(Values) /\ n \in Nat
      /\ DOMAIN this.seen = 1..n /\ DOMAIN seen = 1..(n + 1)
      /\ \A i \in 1..n : seen[i] = this.seen[i]
      /\ seen[n + 1] = value
  BY <1>1, <1>4, AppendOne DEF Then
<1> HIDE DEF version, value, seen, rest, n, m
<1>7. /\ next \in Call /\ next.stage = "waiting" /\ next.cached = this.cached
      /\ next.seen = seen /\ next.inbox = rest
  BY <1>1, <1>3, <1>5 DEF Call
<1> HIDE DEF this, next
<1>8. /\ \A i \in 1..n : this.seen[i].version \in Nat
      /\ \A i \in 1..(m + 1) : this.inbox[i] \in Nat
  BY <1>1, <1>3, <1>5, Numbers
<1>9. /\ 1 \in 1..(m + 1) /\ \A j \in 1..m : j + 1 \in 1..(m + 1) /\ 1 < j + 1
      /\ \A i \in 1..(n + 1) : i \in 1..n \/ i = n + 1
      /\ \A i, j \in 1..(n + 1) : i < j => i \in 1..n
      /\ \A i, j \in 1..m : i < j => i + 1 < j + 1
  BY <1>3, <1>5
<1>10. version <= db
  BY <1>1, <1>3, <1>9 DEF Ordered
<1>11. \A i \in DOMAIN seen : seen[i].version <= db
  BY <1>1, <1>4, <1>5, <1>9, <1>10 DEF Ordered
<1>12. \A i \in DOMAIN rest : rest[i] <= db
  BY <1>1, <1>3, <1>9 DEF Ordered
<1>13. \A i, j \in DOMAIN seen :
         i < j /\ seen[j].version # 0 => seen[i].version <= seen[j].version
  <2> SUFFICES ASSUME NEW i \in 1..(n + 1), NEW j \in 1..(n + 1),
                      i < j, seen[j].version # 0
               PROVE  seen[i].version <= seen[j].version
    BY <1>5
  <2>1. i \in 1..n /\ seen[i] = this.seen[i]
    BY <1>5, <1>9
  <2>2. CASE j \in 1..n
    BY <1>1, <1>5, <2>1, <2>2 DEF Ordered
  <2>3. CASE j = n + 1
    <3>1. seen[j].version = this.inbox[1] /\ this.inbox[1] # 0
      BY <1>3, <1>4, <1>5, <2>3
    <3>2. 1 \in DOMAIN this.inbox /\ i \in DOMAIN this.seen
      BY <1>3, <1>5, <1>9, <2>1
    <3>3. this.seen[i].version <= this.inbox[1]
      BY <1>1, <3>1, <3>2 DEF Ordered
    <3> QED BY <2>1, <3>1, <3>3
  <2> QED BY <1>9, <2>2, <2>3
<1>14. \A i \in DOMAIN seen, j \in DOMAIN rest :
         rest[j] # 0 => seen[i].version <= rest[j]
  <2> SUFFICES ASSUME NEW i \in 1..(n + 1), NEW j \in 1..m, rest[j] # 0
               PROVE  seen[i].version <= rest[j]
    BY <1>3, <1>5
  <2>1. j + 1 \in 1..(m + 1) /\ 1 < j + 1 /\ rest[j] = this.inbox[j + 1]
    BY <1>3, <1>9
  <2>2. CASE i \in 1..n
    BY <1>1, <1>3, <1>5, <2>1, <2>2 DEF Ordered
  <2>3. CASE i = n + 1
    <3>1. seen[i].version = this.inbox[1]
      BY <1>3, <1>4, <1>5, <2>3
    <3> QED BY <1>1, <1>3, <1>9, <2>1, <3>1 DEF Ordered
  <2> QED BY <1>9, <2>2, <2>3
<1>15. \A i, j \in DOMAIN rest : i < j /\ rest[j] # 0 => rest[i] <= rest[j]
  BY <1>1, <1>3, <1>9 DEF Ordered
<1>16. Ordered(next, db)
  BY <1>1, <1>7, <1>11, <1>12, <1>13, <1>14, <1>15 DEF Ordered
<1>17. TakesOne(next) \in Call /\ Ordered(TakesOne(next), db)
  BY <1>1, <1>7, <1>16, EndOrder DEF Ends
<1>18. BecomesOrdered(c)
  BY <1>1, <1>2, <1>7, <1>16, <1>17 DEF BecomesOrdered
<1> QED BY <1>1, <1>10, <1>18 DEF this, version

LEMMA InitOInv == Init => OInv
<1> SUFFICES ASSUME Init PROVE OInv
  OBVIOUS
<1>1. IInv
  BY InitIInv
<1>2. \A c \in Calls : call[c] = Idle
  BY DEF Init
<1>3. stored = 0 /\ db = 1
  BY DEF Init
<1>4. Idle \in Call /\ Idle.inbox = <<>> /\ Idle.seen = <<>> /\ Idle.cached = 0
  BY Types DEF Idle
<1>5. Ordered(Idle, 1)
  BY <1>4, FewOrdered
<1> QED BY <1>1, <1>2, <1>3, <1>5 DEF OInv

LEMMA NextOInv == OInv /\ [Next]_vars => OInv'
<1> SUFFICES ASSUME OInv, [Next]_vars PROVE OInv'
  OBVIOUS
<1>1. IInv'
  BY NextIInv DEF OInv
<1>2. db \in Nat /\ stored \in Nat /\ stored <= db
  BY Types DEF OInv, IInv, TypeOK
<1>3. ASSUME NEW c \in Calls, BecomesOrdered(c), db' \in Nat, db <= db', stored' <= db'
      PROVE  OInv'
  BY <1>1, <1>3, CallsOrdered DEF OInv
<1>4. ASSUME NEW c \in Calls, Query(c) \/ Mutation(c) \/ Subscribe(c) PROVE OInv'
  <2>1. db' = db /\ stored' = stored
    BY <1>4 DEF Query, Mutation, Subscribe, Start, cacheVars
  <2> QED BY <1>2, <1>3, <1>4, <2>1, StartOrdered
<1>5. ASSUME NEW c \in Calls, Observe(c) PROVE OInv'
  <2>1. db' = db /\ stored' = stored
    BY <1>5 DEF Observe, cacheVars
  <2> QED BY <1>2, <1>3, <1>5, <2>1, ObserveOrdered
<1>6. ASSUME NEW c \in Calls, Dispose(c) \/ OnCompleted(c) \/ OnError(c) PROVE OInv'
  <2>1. db' = db /\ stored' = stored
    BY <1>6 DEF Dispose, OnCompleted, OnError, cacheVars
  <2> QED BY <1>2, <1>3, <1>6, <2>1, EndOrdered
<1>7. ASSUME NEW c \in Calls, Serve(c) PROVE OInv'
  <2>1. stored' = stored
    BY <1>7 DEF Serve, cacheVars
  <2>2. db' \in db..MaxVersion
    BY <1>7, ServeMoves DEF OInv
  <2>3. db' \in Nat /\ db <= db' /\ stored' <= db'
    BY <1>2, <2>1, <2>2, Types
  <2> QED BY <1>3, <1>7, <2>3, ServeOrdered
<1>8. ASSUME NEW c \in Calls, OnNext(c) PROVE OInv'
  <2>1. BecomesOrdered(c) /\ db' = db /\ Head(call[c].inbox) <= db
    BY <1>8, OnNextOrdered
  <2>2. stored' \in {stored, Head(call[c].inbox)}
    BY <1>8 DEF OnNext, Tap, CacheWrite, cacheVars
  <2> QED BY <1>2, <1>3, <2>1, <2>2
<1>9. ASSUME NEW q \in Queries, NEW text \in Text, Evict(q, text) PROVE OInv'
  BY <1>1, <1>9 DEF Evict, OInv
<1>10. CASE UNCHANGED vars
  BY <1>1, <1>10 DEF vars, cacheVars, OInv
<1> QED
  BY <1>4, <1>5, <1>6, <1>7, <1>8, <1>9, <1>10 DEF Next

LEMMA AlwaysOInv == Spec => []OInv
BY InitOInv, NextOInv, PTL DEF Spec

\* No observable goes back in time, for any number of calls and of versions: what
\* the network answers is no older than what the cache had, and the events of a
\* subscription come in their order.
THEOREM OrderKept == Spec => []NeverGoesBack
<1>1. OInv => NeverGoesBack
  BY DEF OInv, Ordered, NeverGoesBack
<1> QED BY <1>1, AlwaysOInv, PTL

-----------------------------------------------------------------------------
(* What calls share *)

\* A call that will write the cache has nothing on its way that is older than
\* what was shown.
NotBehind(this, version) ==
  this.plan # "link" =>
    \A i \in DOMAIN this.inbox : this.inbox[i] # 0 => version <= this.inbox[i]

Serial ==
  /\ stored = shown
  /\ \A c, d \in Calls : Busy(c) /\ Busy(d) => c = d
  /\ \A c \in Calls : NotBehind(call[c], shown)

SInv == OInv /\ shown <= db /\ (~overlapped => Serial)

\* While one call alone is busy, all depends on what becomes of it.
LEMMA OneCallMoves ==
  ASSUME OInv, NEW c \in Calls,
         \A d \in Calls \ {c} : ~Busy(d) /\ call'[d] = call[d],
         NotBehind(call'[c], shown'), stored' = shown'
  PROVE  Serial'
<1>1. \A d \in Calls \ {c} : call[d].inbox = <<>>
  BY DEF Busy, OInv, Ordered
<1>2. \A d \in Calls \ {c} : NotBehind(call'[d], shown')
  BY <1>1 DEF NotBehind
<1>3. \A d \in Calls \ {c} : ~Busy(d)'
  BY DEF Busy
<1>4. \A d, e \in Calls : Busy(d)' /\ Busy(e)' => d = e
  BY <1>3
<1>5. \A d \in Calls : NotBehind(call'[d], shown')
  BY <1>2
<1> QED BY <1>4, <1>5 DEF Serial, Busy

\* A step of a call leaves all others as they are.
LEMMA OthersStay ==
  ASSUME IInv, NEW c \in Calls, NEW new, call' = [call EXCEPT ![c] = new]
  PROVE  call'[c] = new /\ \A d \in Calls \ {c} : call'[d] = call[d]
BY DEF IInv, TypeOK

\* Nothing is on its way to a call before it is observed.
LEMMA ObserveEmpty ==
  ASSUME IInv, NEW c \in Calls, Observe(c)
  PROVE  call'[c].inbox = <<>>
<1> DEFINE this == call[c]
           goesOn == this.plan # "just" /\ ~(this.plan = "concat" /\ this.awaited)
           seen == IF this.plan \in {"just", "concat"}
                   THEN <<Value("cache", this.cached)>> ELSE <<>>
           shows == [this EXCEPT !.sent = goesOn, !.seen = seen]
           waits == [shows EXCEPT !.stage = "waiting"]
<1>1. /\ this \in Call /\ this.inbox = <<>>
      /\ call' = [call EXCEPT ![c] =
           IF goesOn THEN waits
           ELSE IF this.awaited THEN TakesOne(shows) ELSE Completed(shows)]
  <2>1. this \in Call /\ LocalPlan(this)
    BY DEF IInv, TypeOK, Local
  <2>2. /\ this.stage = "built"
        /\ call' = [call EXCEPT ![c] =
             IF goesOn THEN waits
             ELSE IF this.awaited THEN TakesOne(shows) ELSE Completed(shows)]
    BY DEF Observe
  <2>3. this.inbox = <<>>
    BY <2>1, <2>2 DEF LocalPlan
  <2> QED BY <2>1, <2>2, <2>3
<1>2. seen \in Seq(Values) /\ goesOn \in BOOLEAN
  <2>1. Value("cache", this.cached) \in Values
    BY <1>1 DEF Call, Values, Value
  <2> QED BY <2>1
<1> HIDE DEF this, goesOn, seen
<1>3. shows \in Call /\ shows.inbox = <<>> /\ waits.inbox = <<>>
  BY <1>1, <1>2 DEF Call
<1> HIDE DEF shows, waits
<1>4. TakesOne(shows).inbox = <<>> /\ Completed(shows).inbox = <<>>
  BY <1>3, EndFields DEF Ends
<1> DEFINE new == IF goesOn THEN waits
                  ELSE IF this.awaited THEN TakesOne(shows) ELSE Completed(shows)
<1>5. new.inbox = <<>>
  BY <1>3, <1>4
<1>6. call' = [call EXCEPT ![c] = new]
  BY <1>1
<1> HIDE DEF new
<1> QED BY <1>5, <1>6, OthersStay

LEMMA StartBuilds ==
  ASSUME IInv, NEW c \in Calls, Query(c) \/ Mutation(c) \/ Subscribe(c)
  PROVE  /\ call'[c].inbox = <<>>
         /\ \A d \in Calls \ {c} : call'[d] = call[d]
         /\ overlapped' = (overlapped \/ \E d \in Calls \ {c} : Busy(d))
<1>1. PICK kind, query, policy, plan, awaited, cached :
        Start(c, New(kind, query, policy, plan, awaited, cached))
  BY DEF Query, Mutation, Subscribe
<1> DEFINE new == New(kind, query, policy, plan, awaited, cached)
<1>2. call' = [call EXCEPT ![c] = new] /\ new.inbox = <<>>
      /\ overlapped' = (overlapped \/ \E d \in Calls \ {c} : Busy(d))
  BY <1>1 DEF Start, New, Idle
<1> HIDE DEF new
<1> QED BY <1>2, OthersStay

LEMMA ServeNotBehind ==
  ASSUME SInv, Serial, NEW c \in Calls, Serve(c)
  PROVE  /\ NotBehind(call'[c], shown)
         /\ \A d \in Calls \ {c} : call'[d] = call[d]
<1> DEFINE this == call[c]
           n == Len(this.inbox)
<1>1. /\ this \in Call /\ this.inbox \in Seq(0..MaxVersion) /\ this.served \in Nat
      /\ db \in Nat /\ shown \in Nat /\ shown <= db /\ IInv
  <2>1. IInv /\ shown <= db
    BY DEF SInv, OInv
  <2>2. db \in Nat /\ shown \in Nat /\ call[c] \in Call
    BY <2>1, Types DEF IInv, TypeOK
  <2> QED BY <2>1, <2>2 DEF Call
<1>2. db' \in db..MaxVersion
  BY <1>1, ServeMoves
<1>3. PICK answer \in {0, db'} :
        call' = [call EXCEPT ![c].inbox = Append(@, answer), ![c].served = @ + 1]
  BY DEF Serve
<1>4. answer \in 0..MaxVersion /\ (answer = 0 \/ shown <= answer)
  BY <1>1, <1>2, Types
<1> DEFINE inbox == Append(this.inbox, answer)
           served == this.served + 1
           new == [this EXCEPT !.inbox = inbox, !.served = served]
<1>5. call' = [call EXCEPT ![c] = new]
  BY <1>3
<1>6. /\ DOMAIN this.inbox = 1..n /\ DOMAIN inbox = 1..(n + 1) /\ n \in Nat
      /\ \A i \in 1..n : inbox[i] = this.inbox[i]
      /\ inbox[n + 1] = answer
  BY <1>1, <1>4, AppendOne
<1>7. NotBehind(this, shown)
  BY DEF Serial
<1> HIDE DEF inbox, served, n, this
<1>8. new.inbox = inbox /\ new.plan = this.plan
  BY <1>1 DEF Call
<1> HIDE DEF new
<1>9. \A i \in 1..(n + 1) : i \in 1..n \/ i = n + 1
  BY <1>6
<1>10. NotBehind(new, shown)
  BY <1>4, <1>6, <1>7, <1>8, <1>9 DEF NotBehind
<1> QED BY <1>1, <1>5, <1>10, OthersStay

LEMMA OnNextNotBehind ==
  ASSUME SInv, Serial, NEW c \in Calls, OnNext(c)
  PROVE  /\ NotBehind(call'[c], shown') /\ stored' = shown' /\ shown' <= db
         /\ \A d \in Calls \ {c} : call'[d] = call[d]
<1> DEFINE this == call[c]
           version == Head(this.inbox)
           seen == Then(this.seen, Value("network", version))
           rest == Tail(this.inbox)
           next == [this EXCEPT !.inbox = rest, !.seen = seen]
           m == Len(this.inbox) - 1
<1>1. /\ this \in Call /\ Ordered(this, db) /\ NotBehind(this, shown) /\ IInv
      /\ this.inbox \in Seq(0..MaxVersion) /\ this.inbox # <<>>
      /\ db \in Nat /\ shown \in Nat /\ shown <= db /\ stored = shown
  <2>1. /\ IInv /\ Ordered(call[c], db) /\ NotBehind(call[c], shown)
        /\ shown <= db /\ stored = shown
    BY DEF SInv, OInv, Serial
  <2>2. db \in Nat /\ shown \in Nat /\ call[c] \in Call
    BY <2>1, Types DEF IInv, TypeOK
  <2>3. call[c].inbox \in Seq(0..MaxVersion)
    BY <2>2 DEF Call
  <2> QED BY <2>1, <2>2, <2>3 DEF OnNext
<1>2. call' = [call EXCEPT ![c] =
                 IF this.awaited THEN TakesOne(next) ELSE next]
  BY DEF OnNext
<1>3. /\ version \in Nat /\ version = this.inbox[1] /\ version <= db
      /\ m \in Nat /\ DOMAIN this.inbox = 1..(m + 1) /\ DOMAIN rest = 1..m
      /\ \A i \in 1..m : rest[i] = this.inbox[i + 1]
  <2>1. Len(this.inbox) \in Nat /\ Len(this.inbox) >= 1
    BY <1>1, TakeOne
  <2>2. DOMAIN this.inbox = 1..(m + 1) /\ m \in Nat
    BY <1>1, <2>1
  <2>3. version \in 0..MaxVersion /\ version = this.inbox[1]
    BY <1>1, TakeOne
  <2>4. DOMAIN rest = 1..m /\ \A i \in 1..m : rest[i] = this.inbox[i + 1]
    BY <1>1, TakeOne
  <2>5. 1 \in 1..(m + 1)
    BY <2>2
  <2> HIDE DEF this, version, rest, m
  <2>6. version \in Nat
    BY <2>3, Types
  <2>7. version <= db
    BY <1>1, <2>2, <2>3, <2>5 DEF Ordered
  <2> QED BY <2>2, <2>3, <2>4, <2>6, <2>7
<1>4. /\ Tap(this, version)
      /\ shown' = IF this.plan # "link" /\ version > shown THEN version ELSE shown
  BY DEF OnNext
<1>5. /\ next.inbox = rest /\ next.plan = this.plan
      /\ TakesOne(next).inbox = <<>>
  <2> HIDE DEF seen, rest
  <2> QED BY <1>1 DEF Call, TakesOne
<1> HIDE DEF this, version, seen, rest, next, m
<1>6. /\ 1 \in 1..(m + 1)
      /\ \A j \in 1..m : j + 1 \in 1..(m + 1) /\ 1 < j + 1
  BY <1>3
<1>7. this.plan # "link" /\ version # 0 => shown <= version
  BY <1>1, <1>3, <1>6 DEF NotBehind
<1>8. stored' = shown' /\ shown' <= db
  BY <1>1, <1>3, <1>4, <1>7 DEF Tap, CacheWrite, cacheVars
<1>9. NotBehind(next, shown')
  <2> SUFFICES ASSUME this.plan # "link", NEW j \in 1..m, rest[j] # 0
               PROVE  shown' <= rest[j]
    BY <1>3, <1>5 DEF NotBehind
  <2>1. rest[j] = this.inbox[j + 1] /\ j + 1 \in 1..(m + 1) /\ 1 < j + 1
    BY <1>3, <1>6
  <2>2. shown <= rest[j] /\ version <= rest[j]
    BY <1>1, <1>3, <1>6, <2>1 DEF NotBehind, Ordered
  <2> QED BY <1>4, <2>2
<1>10. NotBehind(TakesOne(next), shown')
  BY <1>5 DEF NotBehind
<1> DEFINE new == IF this.awaited THEN TakesOne(next) ELSE next
<1>11. NotBehind(new, shown')
  BY <1>9, <1>10
<1> HIDE DEF new
<1> QED BY <1>1, <1>2, <1>8, <1>11, OthersStay DEF new

LEMMA NextSInv == SInv /\ [Next]_vars => SInv'
<1> SUFFICES ASSUME SInv, [Next]_vars PROVE SInv'
  OBVIOUS
<1>1. OInv'
  BY NextOInv DEF SInv
<1>2. db \in Nat /\ shown \in Nat /\ shown <= db /\ IInv
  BY Types DEF SInv, OInv, IInv, TypeOK
<1>3. ASSUME NEW c \in Calls, Query(c) \/ Mutation(c) \/ Subscribe(c) PROVE SInv'
  <2>1. db' = db /\ stored' = stored /\ shown' = shown
    BY <1>3 DEF Query, Mutation, Subscribe, Start, cacheVars
  <2>2. /\ call'[c].inbox = <<>> /\ \A d \in Calls \ {c} : call'[d] = call[d]
        /\ overlapped' = (overlapped \/ \E d \in Calls \ {c} : Busy(d))
    BY <1>2, <1>3, StartBuilds
  <2>3. NotBehind(call'[c], shown')
    BY <2>2 DEF NotBehind
  <2>4. ASSUME ~overlapped' PROVE Serial'
    <3>1. ~overlapped /\ \A d \in Calls \ {c} : ~Busy(d)
      BY <2>2, <2>4
    <3>2. stored' = shown'
      BY <2>1, <3>1 DEF SInv, Serial
    <3> QED BY <2>2, <2>3, <3>1, <3>2, OneCallMoves DEF SInv
  <2> QED BY <1>1, <1>2, <2>1, <2>4 DEF SInv
<1>4. ASSUME NEW c \in Calls, Busy(c), \A d \in Calls \ {c} : call'[d] = call[d],
             overlapped' = overlapped, db' \in Nat, shown' <= db',
             Serial => NotBehind(call'[c], shown') /\ stored' = shown'
      PROVE  SInv'
  <2>1. ASSUME ~overlapped' PROVE Serial'
    <3>1. Serial /\ \A d \in Calls \ {c} : ~Busy(d)
      BY <1>4, <2>1 DEF SInv, Serial
    <3> QED BY <1>4, <3>1, OneCallMoves DEF SInv
  <2> QED BY <1>1, <1>4, <2>1 DEF SInv
<1>5. ASSUME NEW c \in Calls, Observe(c) PROVE SInv'
  <2>1. /\ db' = db /\ stored' = stored /\ shown' = shown /\ overlapped' = overlapped
        /\ Busy(c) /\ call[c].stage = "built" /\ call[c] \in Call /\ Local(call[c])
    BY <1>2, <1>5 DEF Observe, cacheVars, Busy, IInv, TypeOK
  <2>2. OInv' /\ call[c].inbox = <<>>
    BY <1>1, <2>1 DEF Local, LocalPlan
  <2>3. call'[c].inbox = <<>> /\ \A d \in Calls \ {c} : call'[d] = call[d]
    <3>1. PICK new : call' = [call EXCEPT ![c] = new]
      BY <1>5 DEF Observe
    <3>2. call'[c] = new /\ \A d \in Calls \ {c} : call'[d] = call[d]
      BY <1>2, <3>1, OthersStay
    <3>3. call'[c].inbox = <<>>
      BY <1>2, <1>5, ObserveEmpty
    <3> QED BY <3>2, <3>3
  <2> QED BY <1>2, <1>4, <2>1, <2>3 DEF Serial, NotBehind
<1>6. ASSUME NEW c \in Calls, Dispose(c) \/ OnCompleted(c) \/ OnError(c) PROVE SInv'
  <2>1. /\ db' = db /\ stored' = stored /\ shown' = shown /\ overlapped' = overlapped
        /\ call[c] \in Call
    BY <1>2, <1>6 DEF Dispose, OnCompleted, OnError, cacheVars, IInv, TypeOK
  <2>2. PICK o \in Ends(call[c]) : call' = [call EXCEPT ![c] = o]
    BY <1>2, <1>6, EndMoves
  <2>3. o.inbox = <<>> /\ o.stage \in {"resuming", "done"}
    BY <2>1, EndFields
  <2>4. call'[c] = o /\ \A d \in Calls \ {c} : call'[d] = call[d]
    BY <1>2, <2>2, OthersStay
  <2>5. ASSUME ~overlapped' PROVE Serial'
    <3>1. Serial
      BY <2>1, <2>5 DEF SInv
    <3>2. \A d \in Calls : Busy(d)' => Busy(d)
      BY <2>3, <2>4 DEF Busy
    <3>3. \A d \in Calls : NotBehind(call'[d], shown')
      BY <2>1, <2>3, <2>4, <3>1 DEF Serial, NotBehind
    <3> QED BY <2>1, <3>1, <3>2, <3>3 DEF Serial
  <2> QED BY <1>1, <1>2, <2>1, <2>5 DEF SInv
<1>7. ASSUME NEW c \in Calls, Serve(c) PROVE SInv'
  <2>1. stored' = stored /\ shown' = shown /\ overlapped' = overlapped /\ Busy(c)
    BY <1>7 DEF Serve, cacheVars, Busy
  <2>2. db' \in db..MaxVersion
    BY <1>2, <1>7, ServeMoves
  <2>3. db' \in Nat /\ shown' <= db'
    <3>1. MaxVersion \in Nat /\ shown' = shown
      BY <2>1, Types
    <3>2. db' \in Nat /\ db <= db'
      BY <1>2, <2>2, <3>1
    <3> QED BY <1>2, <3>1, <3>2
  <2>4. \A d \in Calls \ {c} : call'[d] = call[d]
    BY <1>2, <1>7, ServeMoves, OthersStay DEF Becomes
  <2>5. Serial => NotBehind(call'[c], shown') /\ stored' = shown'
    BY <1>7, <2>1, ServeNotBehind DEF Serial
  <2> QED BY <1>4, <2>1, <2>3, <2>4, <2>5
<1>8. ASSUME NEW c \in Calls, OnNext(c) PROVE SInv'
  <2>1. db' = db /\ overlapped' = overlapped /\ Busy(c)
    BY <1>8 DEF OnNext, Busy
  <2>2. Head(call[c].inbox) <= db
    BY <1>8, OnNextOrdered DEF SInv
  <2>3. shown' \in {shown, Head(call[c].inbox)}
    BY <1>8 DEF OnNext
  <2>4. shown' <= db'
    BY <1>2, <2>1, <2>2, <2>3
  <2>5. \A d \in Calls \ {c} : call'[d] = call[d]
    BY <1>2, <1>8, OnNextMoves, OthersStay DEF Becomes
  <2>6. Serial => NotBehind(call'[c], shown') /\ stored' = shown'
    BY <1>8, OnNextNotBehind
  <2> QED BY <1>2, <1>4, <2>1, <2>4, <2>5, <2>6
<1>9. ASSUME NEW q \in Queries, NEW text \in Text, Evict(q, text) PROVE SInv'
  BY <1>1, <1>9 DEF Evict, SInv, Serial, Busy
<1>10. CASE UNCHANGED vars
  BY <1>1, <1>10 DEF vars, cacheVars, SInv, Serial, Busy
<1> QED
  BY <1>3, <1>5, <1>6, <1>7, <1>8, <1>9, <1>10 DEF Next

LEMMA InitSInv == Init => SInv
<1> SUFFICES ASSUME Init PROVE SInv
  OBVIOUS
<1>1. /\ OInv /\ stored = 0 /\ shown = 0 /\ db = 1
      /\ \A c \in Calls : call[c] = Idle
  BY InitOInv DEF Init
<1>2. Idle.stage = "idle" /\ Idle.plan = "link"
  BY DEF Idle
<1> QED BY <1>1, <1>2 DEF SInv, Serial, Busy, NotBehind

LEMMA AlwaysSInv == Spec => []SInv
BY InitSInv, NextSInv, PTL DEF Spec

\* As long as no calls overlap, the cache is never behind what was shown, for any
\* number of calls, documents and versions.
THEOREM SerialClient == Spec => []SerialCallsAgree
<1>1. SInv => SerialCallsAgree
  BY DEF SInv, Serial, SerialCallsAgree
<1> QED BY <1>1, AlwaysSInv, PTL
=============================================================================
