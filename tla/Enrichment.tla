----------------------------- MODULE Enrichment -----------------------------
(***************************************************************************)
(* What nta-server adds to an event, and the state that outlives it: the   *)
(* GeoIP cache (nta_geoip.c) and the AbuseIPDB cache (nta_abuse.c), as the *)
(* traffic workers use them (nta_influx.c and republish_if_high in         *)
(* nta_server.c).  A worker takes a message and, event by event,           *)
(*                                                                         *)
(*   asks GeoIP and AbuseIPDB and builds a point; then POSTs the points;   *)
(*   asks AbuseIPDB again, to decide whether the narrator gets the event.  *)
(*                                                                         *)
(* The caches are guarded in two ways.  AbuseIPDB holds its mutex across   *)
(* the HTTP request.  GeoIP looks up and inserts under its mutex but       *)
(* searches the database between the two.                                  *)
(*                                                                         *)
(* The clock is time(NULL), in units of which Ttl and NegTtl are a few.    *)
(* nta_abuse_score reads it before it waits for the mutex.                 *)
(***************************************************************************)
EXTENDS Integers, Sequences, FiniteSets

CONSTANTS
  Workers,
  Public, Private,       \* addresses; is_private_ip tells them apart
  LongKeys,              \* public addresses of IP_KEY_MAX characters or more
  GeoDb,                 \* what the two databases say of a public address
  Batches,               \* messages: sequences of events [ip, high]
  RawScores,             \* numbers the service may send as abuseConfidenceScore
  Ttl, NegTtl,           \* ttl_sec, neg_ttl_sec
  LpCap,                 \* LP_BUF_SIZE, in the units of PointSize
  MinRoom,               \* build_traffic_point needs 64 bytes to begin
  MaxTime, MaxFaults     \* bounds: clock, failed allocations

\* env_int takes the lifetimes from the environment as they are.
ASSUME TtlAssumption == {Ttl, NegTtl} \subseteq Int
ASSUME AddressAssumption == Public \cap Private = {} /\ LongKeys \subseteq Public
ASSUME ScoreAssumption == RawScores \subseteq Int
ASSUME GeoAssumption == GeoDb \in [Public -> [geo : BOOLEAN, asn : BOOLEAN]]
ASSUME BatchAssumption ==              \* publish_thread sends no empty batch
  \A b \in Batches : b \in Seq([ip : Public \cup Private, high : BOOLEAN]) /\ b # <<>>
ASSUME RoomAssumption == {LpCap, MinRoom, MaxTime, MaxFaults} \subseteq Nat

VARIABLES
  clock,
  geo,       \* one bucket of the GeoIP cache: entries [ip, res], newest first
  abuse,     \* AbuseIPDB cache: address -> entry, or NoScore
  holder,    \* the worker that holds the mutex of AbuseIPDB, or Nobody
  worker,    \* what each traffic worker is at
  faults,    \* cache entries that could not be allocated
  asked      \* history: requests sent to AbuseIPDB, by address that can be cached

vars == <<clock, geo, abuse, holder, worker, faults, asked>>

NoScore == [score |-> -1, expires |-> -1]      \* no entry in the AbuseIPDB cache
Nobody  == "nobody"
Cacheable == Public \ LongKeys
ASSUME WorkersAssumption == IsFiniteSet(Workers) /\ Nobody \notin Workers
NoGeo   == [geo |-> FALSE, asn |-> FALSE]
Failed  == -1                          \* score of a request that failed

\* first and second are the answers to the two calls of nta_abuse_score for each
\* event: the score, and until when the cache will give it (-1: it will not).
NoAnswer == [score |-> Failed, until |-> -1]

\* points are the lines of the text: the event of each and where it ends.
IdleWorker == [pc |-> "idle", batch |-> <<>>, pos |-> 1, now |-> 0, out |-> NoGeo, used |-> 0,
               points |-> <<>>, judging |-> FALSE, first |-> <<>>, second |-> <<>>]

Init ==
  /\ clock = 0
  /\ geo = <<>>
  /\ abuse = [ip \in Public |-> NoScore] /\ holder = Nobody
  /\ worker = [w \in Workers |-> IdleWorker]
  /\ faults = 0
  /\ asked = [ip \in Cacheable |-> 0]

Event(w) == worker[w].batch[worker[w].pos]
Ip(w)    == Event(w).ip
Counted(ip) == [a \in Cacheable |-> asked[a] + (IF a = ip THEN 1 ELSE 0)]

(***************************************************************************)
(* Bugs that mutation runs plant in the definitions below.                 *)
(***************************************************************************)
MutValidOffByOne(entry, now) == entry.expires > now

MutClampedBelowOnly(raw) == IF raw < 0 THEN 0 ELSE raw

MutFitsToTheBrim(used, size) == used + size <= LpCap

MutGeoMissHalf(w) ==
  /\ worker[w].pc = "geo" /\ LpCap - worker[w].used >= MinRoom
  /\ Ip(w) \in Public /\ \A i \in DOMAIN geo : geo[i].ip # Ip(w)
  /\ worker' = [worker EXCEPT ![w].pc = "geoPut", ![w].out = [GeoDb[Ip(w)] EXCEPT !.asn = FALSE]]
  /\ UNCHANGED <<clock, geo, abuse, holder, faults, asked>>

MutAbuseMissUnchecked(w) ==
  /\ worker[w].pc = "lock" /\ holder = Nobody
  /\ holder' = w
  /\ worker' = [worker EXCEPT ![w].pc = "query"]
  /\ asked' = Counted(Ip(w))
  /\ UNCHANGED <<clock, geo, abuse, faults>>

MutPostFailsRetries(w) ==
  /\ worker[w].pc = "post" /\ worker[w].points # <<>>
  /\ worker' = [worker EXCEPT ![w] = [IdleWorker EXCEPT !.pc = "geo", !.batch = worker[w].batch]]
  /\ UNCHANGED <<clock, geo, abuse, holder, faults, asked>>

(***************************************************************************)
(* Helpers.                                                                *)
(***************************************************************************)
\* cache_get_locked: an entry still counts at the second it expires.  (NoScore
\* never counts.)
Valid(entry, now) == entry.expires >= now

\* http_query_locked clamps the number to 0 .. 100.
Clamped(raw) == IF raw < 0 THEN 0 ELSE IF raw > 100 THEN 100 ELSE raw

Lifetime(score) == IF score >= 0 THEN Ttl ELSE NegTtl
Shortest == IF Ttl < NegTtl THEN Ttl ELSE NegTtl

\* The line of build_traffic_point up to the fields that need no AbuseIPDB, the
\* abuse_score field, and the end of line.
HeadSize(out) == 2 + (IF out.asn THEN 1 ELSE 0) + (IF out.geo THEN 1 ELSE 0)
PointSize(out, score) == HeadSize(out) + (IF score >= 0 THEN 1 ELSE 0) + 1
Fits(used, size) == used + size < LpCap

\* A line has more than the 64 bytes that build_traffic_point asks for.
ASSUME LineAssumption == MinRoom <= PointSize(NoGeo, Failed) /\ LpCap > 0

\* On to the next event of the batch, when its points are built and when it is
\* judged.
NextPoint(me) ==
  IF me.pos < Len(me.batch) THEN [me EXCEPT !.pc = "geo", !.pos = @ + 1, !.out = NoGeo]
                            ELSE [me EXCEPT !.pc = "post", !.out = NoGeo]
NextJudged(me) ==
  IF me.pos < Len(me.batch) THEN [me EXCEPT !.pc = "judge", !.pos = @ + 1]
                            ELSE [me EXCEPT !.pc = "done"]

\* The GeoIP answer is known: what is left of build_traffic_point goes on as long
\* as the line fits, and gives the point up otherwise.
GeoKnown(me, out) ==
  IF Fits(me.used, HeadSize(out)) THEN [me EXCEPT !.pc = "score", !.out = out]
                                  ELSE NextPoint([me EXCEPT !.first = Append(@, NoAnswer)])

\* nta_abuse_score has returned, to build_traffic_point or to republish_if_high.
Scored(me, answer) ==
  LET size == PointSize(me.out, answer.score)
      line == [pos |-> me.pos, end |-> me.used + size]
      heard == [me EXCEPT !.first = Append(@, answer), !.now = 0]
      judged == [me EXCEPT !.second = Append(@, answer), !.now = 0]
  IN  IF me.judging
        THEN NextJudged(judged)
        ELSE IF Fits(me.used, size)
               THEN NextPoint([heard EXCEPT !.points = Append(@, line), !.used = @ + size])
               ELSE NextPoint(heard)

(***************************************************************************)
(* A traffic worker: nta_influx_write_traffic, a point for each event.     *)
(***************************************************************************)
TakeMessage(w) ==
  /\ worker[w].pc = "idle"
  /\ \E batch \in Batches :
       worker' = [worker EXCEPT ![w].pc = "geo", ![w].batch = batch]
  /\ UNCHANGED <<clock, geo, abuse, holder, faults, asked>>

\* Less than 64 bytes are left: the point is given up before anything is looked up.
NoRoom(w) ==
  /\ worker[w].pc = "geo" /\ LpCap - worker[w].used < MinRoom
  /\ worker' = [worker EXCEPT ![w] = NextPoint([worker[w] EXCEPT !.first = Append(@, NoAnswer)])]
  /\ UNCHANGED <<clock, geo, abuse, holder, faults, asked>>

\* The first entry for ip in the chain is the i-th.
FoundAt(ip, i) == geo[i].ip = ip /\ \A j \in 1 .. i - 1 : geo[j].ip # ip

\* A private address, or an address whose first entry in the chain is the answer.
GeoHit(w) ==
  /\ worker[w].pc = "geo" /\ LpCap - worker[w].used >= MinRoom
  /\ \/ Ip(w) \in Private /\ worker' = [worker EXCEPT ![w] = GeoKnown(@, NoGeo)]
     \/ \E i \in DOMAIN geo :
          FoundAt(Ip(w), i) /\ worker' = [worker EXCEPT ![w] = GeoKnown(@, geo[i].res)]
  /\ UNCHANGED <<clock, geo, abuse, holder, faults, asked>>

\* Not cached: lookup_city and lookup_asn fill in the answer outside the mutex.
GeoMiss(w) ==
  /\ worker[w].pc = "geo" /\ LpCap - worker[w].used >= MinRoom
  /\ Ip(w) \in Public /\ \A i \in DOMAIN geo : geo[i].ip # Ip(w)
  /\ worker' = [worker EXCEPT ![w].pc = "geoPut", ![w].out = GeoDb[Ip(w)]]
  /\ UNCHANGED <<clock, geo, abuse, holder, faults, asked>>

\* cache_put of GeoIP inserts at the head and does not look for a duplicate; an
\* address that is too long for an entry is left out.
GeoPut(w) ==
  /\ worker[w].pc = "geoPut"
  /\ \/ Ip(w) \in LongKeys /\ UNCHANGED <<geo, faults>>
     \/ /\ Ip(w) \in Cacheable
        /\ geo' = <<[ip |-> Ip(w), res |-> worker[w].out]>> \o geo /\ UNCHANGED faults
     \/ /\ Ip(w) \in Cacheable /\ faults < MaxFaults
        /\ faults' = faults + 1 /\ UNCHANGED geo
  /\ worker' = [worker EXCEPT ![w] = GeoKnown(@, @.out)]
  /\ UNCHANGED <<clock, abuse, holder, asked>>

(***************************************************************************)
(* nta_abuse_score.                                                        *)
(***************************************************************************)
\* Private addresses have no score; for the others the clock is read first.
AbuseCall(w) ==
  /\ worker[w].pc = "score"
  /\ worker' = [worker EXCEPT ![w] = IF Ip(w) \in Private THEN Scored(@, NoAnswer)
                                     ELSE [@ EXCEPT !.pc = "lock", !.now = clock]]
  /\ UNCHANGED <<clock, geo, abuse, holder, faults, asked>>

\* The mutex is free and the cache has an answer: the mutex is free again.
AbuseHit(w) ==
  /\ worker[w].pc = "lock" /\ holder = Nobody
  /\ Valid(abuse[Ip(w)], worker[w].now)
  /\ worker' = [worker EXCEPT ![w] = Scored(@, [score |-> abuse[Ip(w)].score,
                                                until |-> abuse[Ip(w)].expires])]
  /\ UNCHANGED <<clock, geo, abuse, holder, faults, asked>>

\* The cache has none: the service is asked, with the mutex held.
AbuseMiss(w) ==
  /\ worker[w].pc = "lock" /\ holder = Nobody
  /\ ~Valid(abuse[Ip(w)], worker[w].now)
  /\ holder' = w
  /\ worker' = [worker EXCEPT ![w].pc = "query"]
  /\ asked' = Counted(Ip(w))
  /\ UNCHANGED <<clock, geo, abuse, faults>>

\* cache_put_locked: an address that is too long is not cached, an old entry is
\* overwritten, a new one may find no memory.
AbusePut(ip, score, expires) ==
  \/ ip \in LongKeys /\ UNCHANGED <<abuse, faults>>
  \/ /\ ip \in Cacheable
     /\ abuse' = [abuse EXCEPT ![ip] = [score |-> score, expires |-> expires]]
     /\ UNCHANGED faults
  \/ /\ ip \in Cacheable /\ abuse[ip] = NoScore /\ faults < MaxFaults
     /\ faults' = faults + 1 /\ UNCHANGED abuse

\* The answer, or the failure, goes into the cache with a lifetime that counts
\* from the call, and the mutex is released.
AbuseAnswer(w) ==
  /\ worker[w].pc = "query"
  /\ \E score \in {Failed} \cup {Clamped(raw) : raw \in RawScores} :
       LET expires == worker[w].now + Lifetime(score)
           until   == IF Ip(w) \in Cacheable /\ faults' = faults THEN expires ELSE -1
       IN  /\ AbusePut(Ip(w), score, expires)
           /\ worker' = [worker EXCEPT ![w] = Scored(@, [score |-> score, until |-> until])]
  /\ holder' = Nobody
  /\ UNCHANGED <<clock, geo, asked>>

(***************************************************************************)
(* The POST, and republish_if_high for each event of the message.          *)
(***************************************************************************)
\* The points are written, or there are none, which counts as written.
PostOk(w) ==
  /\ worker[w].pc = "post"
  /\ worker' = [worker EXCEPT ![w].pc = "judge", ![w].judging = TRUE, ![w].pos = 1]
  /\ UNCHANGED <<clock, geo, abuse, holder, faults, asked>>

\* The write fails: the message is dropped.
PostFails(w) ==
  /\ worker[w].pc = "post" /\ worker[w].points # <<>>
  /\ worker' = [worker EXCEPT ![w] = IdleWorker]
  /\ UNCHANGED <<clock, geo, abuse, holder, faults, asked>>

\* An event whose kc_score is high goes to the narrator without a second question.
JudgeHigh(w) ==
  /\ worker[w].pc = "judge" /\ Event(w).high
  /\ worker' = [worker EXCEPT ![w] = NextJudged([worker[w] EXCEPT !.second = Append(@, NoAnswer)])]
  /\ UNCHANGED <<clock, geo, abuse, holder, faults, asked>>

\* For the others AbuseIPDB is asked again.
JudgeLow(w) ==
  /\ worker[w].pc = "judge" /\ ~Event(w).high
  /\ worker' = [worker EXCEPT ![w].pc = "score"]
  /\ UNCHANGED <<clock, geo, abuse, holder, faults, asked>>

\* traffic_handler returns.
MessageDone(w) ==
  /\ worker[w].pc = "done"
  /\ worker' = [worker EXCEPT ![w] = IdleWorker]
  /\ UNCHANGED <<clock, geo, abuse, holder, faults, asked>>

(***************************************************************************)
(* Specification.                                                          *)
(***************************************************************************)
Tick ==
  /\ clock < MaxTime
  /\ clock' = clock + 1
  /\ UNCHANGED <<geo, abuse, holder, worker, faults, asked>>

\* What a worker does without waiting for the mutex.
Proceeds(w) ==
  \/ NoRoom(w) \/ GeoHit(w) \/ GeoMiss(w) \/ GeoPut(w)
  \/ AbuseCall(w) \/ AbuseAnswer(w)
  \/ PostOk(w) \/ PostFails(w) \/ JudgeHigh(w) \/ JudgeLow(w) \/ MessageDone(w)

Next ==
  \/ \E w \in Workers : TakeMessage(w) \/ Proceeds(w) \/ AbuseHit(w) \/ AbuseMiss(w)
  \/ Tick

Spec == Init /\ [][Next]_vars

\* Threads run, requests end (curl and the sockets have timeouts), and a thread
\* that waits for the mutex gets it when it is free again and again.
Fairness ==
  \A w \in Workers : WF_vars(Proceeds(w)) /\ SF_vars(AbuseHit(w) \/ AbuseMiss(w))

FairSpec == Spec /\ Fairness

(***************************************************************************)
(* Properties.                                                             *)
(***************************************************************************)
Answers == [score : -1 .. 100, until : Int]

\* Values every variable keeps to.  A score is one the line protocol and the
\* threshold expect, whatever number the service sent.
TypeOK ==
  /\ clock \in 0 .. MaxTime
  /\ geo \in Seq([ip : Public, res : [geo : BOOLEAN, asn : BOOLEAN]])
  /\ abuse \in [Public -> [score : -1 .. 100, expires : Int]]
  /\ holder \in Workers \cup {Nobody}
  /\ \A w \in Workers :
       /\ worker[w].pc \in {"idle", "geo", "geoPut", "score", "lock", "query", "post", "judge",
                            "done"}
       /\ worker[w].first \in Seq(Answers) /\ worker[w].second \in Seq(Answers)
       /\ worker[w].used \in Nat /\ worker[w].pos \in Nat
  /\ faults \in 0 .. MaxFaults /\ asked \in [Cacheable -> Nat]

\* "Negative TTL so as not to hammer the API": however many workers meet the same
\* address at once, it costs one request in the shorter lifetime and a second,
\* failures included.  Out of this are a lifetime that was configured negative, an
\* address that is too long to be cached and an answer that found no memory.
ApiSpared ==
  Shortest >= 0 =>
    \A ip \in Cacheable : asked[ip] <= 1 + clock \div (Shortest + 1) + faults

\* The race that cache_put of GeoIP leaves open is harmless: duplicates say the
\* same, whole answer, and there is at most one for each worker.
GeoTellsDatabase ==
  /\ \A i \in DOMAIN geo : geo[i].res = GeoDb[geo[i].ip]
  /\ \A ip \in Public : Cardinality({i \in DOMAIN geo : geo[i].ip = ip}) <= Cardinality(Workers)

\* The score that decides whether an event is narrated is the score its point was
\* written with, unless that one has expired meanwhile or was never cached.
ScoresAgree ==
  \A w \in Workers : \A i \in DOMAIN worker[w].second :
    LET me == worker[w] IN
    \/ me.batch[i].high
    \/ me.second[i].score = me.first[i].score
    \/ clock > me.first[i].until

\* The line of the i-th event, and where the k-th line of the text starts.
LineSize(me, i) ==
  PointSize(IF me.batch[i].ip \in Private THEN NoGeo ELSE GeoDb[me.batch[i].ip], me.first[i].score)
LineStart(me, k) == IF k = 1 THEN 0 ELSE me.points[k - 1].end

\* The text of the first n events: lines without gaps, in the order of their
\* events; an event without a line did not fit behind the lines before it.
WholeText(me, n) ==
  LET lines == 1 .. Len(me.points) IN
  /\ me.used = LineStart(me, Len(me.points) + 1) /\ me.used < LpCap
  /\ \A k \in lines : /\ me.points[k].pos \in 1 .. n
                      /\ me.points[k].end = LineStart(me, k) + LineSize(me, me.points[k].pos)
  /\ \A j, k \in lines : j < k => me.points[j].pos < me.points[k].pos
  /\ \A i \in 1 .. n :
       \/ \E k \in lines : me.points[k].pos = i
       \/ \E k \in 1 .. Len(me.points) + 1 :
            /\ \A j \in lines : me.points[j].pos < i <=> j < k
            /\ LineStart(me, k) + LineSize(me, i) >= LpCap

\* The text that is posted ends before its buffer does and consists of the whole
\* lines of the events, each once and in order, save those that did not fit.
PostWhole ==
  \A w \in Workers : worker[w].pc = "post" => WholeText(worker[w], Len(worker[w].batch))

\* No worker waits for ever: not for the mutex behind a request, not for the end
\* of a lookup; every message is done with.
MessagesEnd == \A w \in Workers : worker[w].pc # "idle" ~> worker[w].pc = "idle"
=============================================================================
