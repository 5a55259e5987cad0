-------------------------- MODULE EnrichmentProofs --------------------------
(***************************************************************************)
(* The GeoIP cache tells what the database says, AbuseIPDB is asked seldom *)
(* and an event is judged by the score it was written with, for every      *)
(* number of workers and addresses, every batch and all lifetimes.         *)
(***************************************************************************)
EXTENDS Enrichment, SequenceTheorems, FiniteSetTheorems, TLAPS

GeoAnswers == [geo : BOOLEAN, asn : BOOLEAN]
Places == {"idle", "geo", "geoPut", "score", "lock", "query", "post", "judge", "done"}
Asking == {"score", "lock", "query"}

Lines == [pos : Nat, end : Nat]

\* What a worker's record holds.
WorkerStates ==
  [pc : Places, batch : Seq([ip : Public \cup Private, high : BOOLEAN]), pos : Nat, now : Nat,
   out : GeoAnswers, used : Nat, points : Seq(Lines), judging : BOOLEAN,
   first : Seq(Answers), second : Seq(Answers)]

IpOf(me) == me.batch[me.pos].ip

\* The events are gone through twice, in order: first has an answer for every
\* event before the one in hand, and second too once the points are written.
Shape(me) ==
  /\ me \in WorkerStates
  /\ me.pc = "idle" => me = IdleWorker
  /\ me.pc # "idle" => me.pos \in 1 .. Len(me.batch)
  /\ me.pc \in {"geo", "geoPut"} \/ (me.pc \in Asking /\ ~me.judging)
       => Len(me.first) = me.pos - 1 /\ me.second = <<>> /\ ~me.judging
  /\ me.pc = "post" => Len(me.first) = Len(me.batch) /\ me.second = <<>> /\ ~me.judging
  /\ me.pc = "judge" \/ (me.pc \in Asking /\ me.judging)
       => Len(me.first) = Len(me.batch) /\ Len(me.second) = me.pos - 1 /\ me.judging
  /\ me.pc = "done" => Len(me.first) = Len(me.batch) /\ Len(me.second) = Len(me.batch)
  /\ me.pc = "geoPut" => IpOf(me) \in Public /\ me.out = GeoDb[IpOf(me)]
  /\ me.pc \in {"lock", "query"} => IpOf(me) \in Public

(***************************************************************************)
(* The worker's record.                                                    *)
(***************************************************************************)
\* Answers a worker can get.
LEMMA NoAnswerIsAnswer == NoAnswer \in Answers /\ NoAnswer.until = -1 /\ NoAnswer.score = -1
BY DEF NoAnswer, Answers, Failed

\* On to the next event, or to the POST.
LEMMA NextPointShape ==
  ASSUME NEW me \in WorkerStates, me.pos \in 1 .. Len(me.batch), ~me.judging,
         Len(me.first) = me.pos, me.second = <<>>
  PROVE  LET r == NextPoint(me)
         IN  /\ Shape(r) /\ r.pc \in {"geo", "post"} /\ r.batch = me.batch
             /\ r.first = me.first /\ r.second = me.second
<1>0. /\ me.batch \in Seq([ip : Public \cup Private, high : BOOLEAN]) /\ Len(me.batch) \in Nat
      /\ me.pos \in Nat /\ NoGeo \in GeoAnswers
  BY LenProperties DEF WorkerStates, NoGeo, GeoAnswers
<1>1. CASE me.pos < Len(me.batch)
  <2> DEFINE r == [me EXCEPT !.pc = "geo", !.pos = @ + 1, !.out = NoGeo]
  <2>1. /\ r \in WorkerStates /\ r.pc = "geo" /\ r.pos = me.pos + 1 /\ r.batch = me.batch
        /\ r.first = me.first /\ r.second = me.second /\ r.judging = me.judging
    <3>1. me.pos + 1 \in Nat /\ "geo" \in Places
      BY <1>0 DEF Places
    <3> QED BY <1>0, <3>1 DEF WorkerStates
  <2>2. NextPoint(me) = r
    BY <1>1 DEF NextPoint
  <2> HIDE DEF r
  <2> QED BY <1>0, <1>1, <2>1, <2>2 DEF Shape, Asking
<1>2. CASE ~(me.pos < Len(me.batch))
  <2> DEFINE r == [me EXCEPT !.pc = "post", !.out = NoGeo]
  <2>1. /\ r \in WorkerStates /\ r.pc = "post" /\ r.pos = me.pos /\ r.batch = me.batch
        /\ r.first = me.first /\ r.second = me.second /\ r.judging = me.judging
    BY <1>0 DEF WorkerStates, Places
  <2>2. NextPoint(me) = r
    BY <1>2 DEF NextPoint
  <2>3. me.pos = Len(me.batch)
    BY <1>0, <1>2
  <2> HIDE DEF r
  <2> QED BY <1>0, <2>1, <2>2, <2>3 DEF Shape, Asking
<1> QED BY <1>1, <1>2

\* On to the next event to judge, or to the end of the message.
LEMMA NextJudgedShape ==
  ASSUME NEW me \in WorkerStates, me.pos \in 1 .. Len(me.batch), me.judging,
         Len(me.first) = Len(me.batch), Len(me.second) = me.pos
  PROVE  LET r == NextJudged(me)
         IN  /\ Shape(r) /\ r.pc \in {"judge", "done"} /\ r.batch = me.batch
             /\ r.first = me.first /\ r.second = me.second
<1>0. /\ me.batch \in Seq([ip : Public \cup Private, high : BOOLEAN]) /\ Len(me.batch) \in Nat
      /\ me.pos \in Nat
  BY LenProperties DEF WorkerStates
<1>1. CASE me.pos < Len(me.batch)
  <2> DEFINE r == [me EXCEPT !.pc = "judge", !.pos = @ + 1]
  <2>1. /\ r \in WorkerStates /\ r.pc = "judge" /\ r.pos = me.pos + 1 /\ r.batch = me.batch
        /\ r.first = me.first /\ r.second = me.second /\ r.judging = me.judging
    <3>1. me.pos + 1 \in Nat /\ "judge" \in Places
      BY <1>0 DEF Places
    <3> QED BY <1>0, <3>1 DEF WorkerStates
  <2>2. NextJudged(me) = r
    BY <1>1 DEF NextJudged
  <2> HIDE DEF r
  <2>3. r.pos \in 1 .. Len(r.batch) /\ Len(r.second) = r.pos - 1
    BY <1>0, <1>1, <2>1
  <2> QED BY <2>1, <2>2, <2>3 DEF Shape, Asking
<1>2. CASE ~(me.pos < Len(me.batch))
  <2> DEFINE r == [me EXCEPT !.pc = "done"]
  <2>1. /\ r \in WorkerStates /\ r.pc = "done" /\ r.pos = me.pos /\ r.batch = me.batch
        /\ r.first = me.first /\ r.second = me.second /\ r.judging = me.judging
    BY <1>0 DEF WorkerStates, Places
  <2>2. NextJudged(me) = r
    BY <1>2 DEF NextJudged
  <2>3. me.pos = Len(me.batch)
    BY <1>0, <1>2
  <2> HIDE DEF r
  <2> QED BY <1>0, <2>1, <2>2, <2>3 DEF Shape, Asking
<1> QED BY <1>1, <1>2
\* The points written so far are remembered as long as they can matter: until the
\* answer expires it is what the cache says.
Remembers(me, now, cache) ==
  \A i \in 1 .. Len(me.first) :
    \/ now > me.first[i].until
    \/ /\ me.batch[i].ip \in Public
       /\ cache[me.batch[i].ip] = [score |-> me.first[i].score, expires |-> me.first[i].until]

\* ScoresAgree, of one worker.
Agrees(me, now) ==
  \A i \in 1 .. Len(me.second) :
    \/ me.batch[i].high
    \/ me.second[i].score = me.first[i].score
    \/ now > me.first[i].until

\* An answer to a worker that asks is worth remembering, and agrees with the first
\* if it is the second.
Answered(me, answer, now, cache) ==
  /\ \/ now > answer.until
     \/ /\ IpOf(me) \in Public
        /\ cache[IpOf(me)] = [score |-> answer.score, expires |-> answer.until]
  /\ me.judging => \/ answer.score = me.first[me.pos].score
                   \/ now > me.first[me.pos].until

\* One more answer for a point.
LEMMA FirstGrows ==
  ASSUME NEW me, NEW now, NEW cache, NEW answer \in Answers, NEW r,
         me.first \in Seq(Answers), me.pos \in Nat, me.second = <<>>,
         Len(me.first) = me.pos - 1,
         Remembers(me, now, cache),
         \/ now > answer.until
         \/ /\ IpOf(me) \in Public
            /\ cache[IpOf(me)] = [score |-> answer.score, expires |-> answer.until],
         r.first = Append(me.first, answer), r.second = <<>>, r.batch = me.batch
  PROVE  Remembers(r, now, cache) /\ Agrees(r, now)
<1>1. /\ Len(r.first) = me.pos
      /\ \A i \in 1 .. me.pos - 1 : r.first[i] = me.first[i]
      /\ r.first[me.pos] = answer
  BY AppendProperties
<1>2. ASSUME NEW i \in 1 .. Len(r.first)
      PROVE  \/ now > r.first[i].until
             \/ /\ r.batch[i].ip \in Public
                /\ cache[r.batch[i].ip]
                     = [score |-> r.first[i].score, expires |-> r.first[i].until]
  <2>1. CASE i = me.pos
    BY <1>1, <2>1 DEF IpOf
  <2>2. CASE i # me.pos
    <3>1. i \in 1 .. me.pos - 1
      BY <1>1, <1>2, <2>2
    <3> QED BY <1>1, <3>1 DEF Remembers
  <2> QED BY <2>1, <2>2
<1>3. Remembers(r, now, cache)
  BY <1>2 DEF Remembers
<1>4. Agrees(r, now)
  BY DEF Agrees
<1> QED BY <1>3, <1>4

\* One more answer for a judgement.
LEMMA SecondGrows ==
  ASSUME NEW me, NEW now, NEW cache, NEW answer \in Answers, NEW r,
         me.second \in Seq(Answers), me.pos \in Nat, Len(me.second) = me.pos - 1,
         Remembers(me, now, cache), Agrees(me, now),
         \/ me.batch[me.pos].high
         \/ answer.score = me.first[me.pos].score
         \/ now > me.first[me.pos].until,
         r.second = Append(me.second, answer), r.first = me.first, r.batch = me.batch
  PROVE  Remembers(r, now, cache) /\ Agrees(r, now)
<1>1. /\ Len(r.second) = me.pos
      /\ \A i \in 1 .. me.pos - 1 : r.second[i] = me.second[i]
      /\ r.second[me.pos] = answer
  BY AppendProperties
<1>2. ASSUME NEW i \in 1 .. Len(r.second)
      PROVE  \/ r.batch[i].high
             \/ r.second[i].score = r.first[i].score
             \/ now > r.first[i].until
  <2>1. CASE i = me.pos
    BY <1>1, <2>1
  <2>2. CASE i # me.pos
    <3>1. i \in 1 .. me.pos - 1
      BY <1>1, <1>2, <2>2
    <3> QED BY <1>1, <3>1 DEF Agrees
  <2> QED BY <2>1, <2>2
<1>3. Remembers(r, now, cache)
  BY DEF Remembers
<1>4. Agrees(r, now)
  BY <1>2 DEF Agrees
<1> QED BY <1>3, <1>4
\* A point is written or given up with one more answer.
LEMMA PointAnswered ==
  ASSUME NEW me, NEW now, NEW cache, NEW answer \in Answers,
         me.first \in Seq(Answers), me.pos \in Nat, me.second = <<>>,
         Len(me.first) = me.pos - 1, me.pos \in 1 .. Len(me.batch),
         Remembers(me, now, cache),
         \/ now > answer.until
         \/ /\ IpOf(me) \in Public
            /\ cache[IpOf(me)] = [score |-> answer.score, expires |-> answer.until],
         NEW x \in WorkerStates,
         x.pos = me.pos, x.batch = me.batch, x.first = Append(me.first, answer),
         x.second = <<>>, ~x.judging
  PROVE  LET r == NextPoint(x)
         IN  /\ Shape(r) /\ Remembers(r, now, cache) /\ Agrees(r, now)
             /\ r.pc \in {"geo", "post"}
<1> DEFINE r == NextPoint(x)
<1>1. Len(x.first) = x.pos
  BY AppendProperties
<1>2. /\ Shape(r) /\ r.pc \in {"geo", "post"} /\ r.batch = x.batch
      /\ r.first = x.first /\ r.second = x.second
  BY <1>1, NextPointShape
<1> HIDE DEF r
<1>3. Remembers(r, now, cache) /\ Agrees(r, now)
  BY <1>2, FirstGrows
<1> QED BY <1>2, <1>3 DEF r

\* A line's length.
LEMMA SizesAreNat ==
  ASSUME NEW out, NEW score
  PROVE  HeadSize(out) \in Nat /\ PointSize(out, score) \in Nat
<1>1. HeadSize(out) \in Nat
  BY DEF HeadSize
<1> QED BY <1>1 DEF PointSize

\* AbuseIPDB has answered: the point is written or given up, or the event judged.
LEMMA ScoredKeeps ==
  ASSUME NEW me, NEW now \in Nat, NEW cache, NEW answer \in Answers,
         Shape(me), me.pc \in Asking, Remembers(me, now, cache), Agrees(me, now),
         Answered(me, answer, now, cache)
  PROVE  LET r == Scored(me, answer)
         IN  /\ Shape(r) /\ Remembers(r, now, cache) /\ Agrees(r, now)
             /\ r.pc \in {"geo", "post", "judge", "done"}
<1>0. /\ me \in WorkerStates /\ me.pos \in 1 .. Len(me.batch) /\ me.pos \in Nat
      /\ me.first \in Seq(Answers) /\ me.second \in Seq(Answers) /\ me.judging \in BOOLEAN
      /\ me.used \in Nat /\ me.points \in Seq(Lines) /\ 0 \in Nat
  BY DEF Shape, WorkerStates, Asking
<1>1. CASE me.judging
  <2> DEFINE x == [me EXCEPT !.second = Append(@, answer), !.now = 0]
             r == NextJudged(x)
  <2>1. Len(me.first) = Len(me.batch) /\ Len(me.second) = me.pos - 1
    BY <1>1 DEF Shape, Asking
  <2>2. /\ Append(me.second, answer) \in Seq(Answers)
        /\ Len(Append(me.second, answer)) = me.pos
    BY <1>0, <2>1, AppendProperties
  <2>3. /\ x \in WorkerStates /\ x.pos = me.pos /\ x.batch = me.batch /\ x.judging = me.judging
        /\ x.first = me.first /\ x.second = Append(me.second, answer)
    BY <1>0, <2>2 DEF WorkerStates
  <2>4. Scored(me, answer) = r
    BY <1>1 DEF Scored
  <2> HIDE DEF x
  <2>5. /\ Shape(r) /\ r.pc \in {"judge", "done"} /\ r.batch = x.batch
        /\ r.first = x.first /\ r.second = x.second
    BY <1>0, <1>1, <2>1, <2>2, <2>3, NextJudgedShape
  <2> HIDE DEF r
  <2>6. Remembers(r, now, cache) /\ Agrees(r, now)
    BY <1>0, <1>1, <2>1, <2>3, <2>5, SecondGrows DEF Answered
  <2> QED BY <2>4, <2>5, <2>6
<1>2. CASE ~me.judging
  <2> DEFINE size == PointSize(me.out, answer.score)
             heard == [me EXCEPT !.first = Append(@, answer), !.now = 0]
             line == [pos |-> me.pos, end |-> me.used + size]
             wrote == [heard EXCEPT !.points = Append(@, line), !.used = @ + size]
  <2>1. Len(me.first) = me.pos - 1 /\ me.second = <<>>
    BY <1>2 DEF Shape, Asking
  <2>2. Append(me.first, answer) \in Seq(Answers)
    BY <1>0, AppendProperties
  <2>3. /\ heard \in WorkerStates /\ heard.pos = me.pos /\ heard.batch = me.batch
        /\ heard.first = Append(me.first, answer) /\ heard.second = me.second
        /\ heard.judging = me.judging /\ heard.points = me.points /\ heard.used = me.used
    BY <1>0, <2>2 DEF WorkerStates
  <2>4. me.used + size \in Nat
    BY <1>0, SizesAreNat
  <2>5. Append(me.points, line) \in Seq(Lines)
    <3>1. line \in Lines
      BY <1>0, <2>4 DEF Lines
    <3> QED BY <1>0, <3>1, AppendProperties
  <2>6. Scored(me, answer) = NextPoint(wrote) \/ Scored(me, answer) = NextPoint(heard)
    BY <1>2 DEF Scored
  <2> HIDE DEF heard, line, size
  <2>7. /\ wrote \in WorkerStates /\ wrote.pos = heard.pos /\ wrote.batch = heard.batch
        /\ wrote.first = heard.first /\ wrote.second = heard.second
        /\ wrote.judging = heard.judging
    BY <2>3, <2>4, <2>5 DEF WorkerStates
  <2> HIDE DEF wrote
  <2>8. ASSUME NEW x \in {heard, wrote}
        PROVE  LET r == NextPoint(x)
               IN  /\ Shape(r) /\ Remembers(r, now, cache) /\ Agrees(r, now)
                   /\ r.pc \in {"geo", "post"}
    <3>1. /\ x \in WorkerStates /\ x.pos = me.pos /\ x.batch = me.batch
          /\ x.first = Append(me.first, answer) /\ x.second = <<>> /\ ~x.judging
      BY <1>2, <2>1, <2>3, <2>7
    <3> QED BY <1>0, <2>1, <3>1, PointAnswered DEF Answered
  <2> QED BY <2>6, <2>8
<1> QED BY <1>0, <1>1, <1>2

\* GeoIP has answered: the score comes next, or the point is given up.
LEMMA GeoKnownKeeps ==
  ASSUME NEW me, NEW now \in Nat, NEW cache, NEW out \in GeoAnswers,
         Shape(me), me.pc \in {"geo", "geoPut"}, Remembers(me, now, cache), Agrees(me, now)
  PROVE  LET r == GeoKnown(me, out)
         IN  /\ Shape(r) /\ Remembers(r, now, cache) /\ Agrees(r, now)
             /\ r.pc \in {"geo", "post", "score"}
<1>0. /\ me \in WorkerStates /\ me.pos \in 1 .. Len(me.batch) /\ me.pos \in Nat
      /\ me.first \in Seq(Answers) /\ me.second = <<>> /\ ~me.judging
      /\ Len(me.first) = me.pos - 1
  BY DEF Shape, WorkerStates
<1>1. CASE Fits(me.used, HeadSize(out))
  <2> DEFINE r == [me EXCEPT !.pc = "score", !.out = out]
  <2>1. "score" \in Places
    BY DEF Places
  <2>2. /\ r \in WorkerStates /\ r.pc = "score" /\ r.pos = me.pos /\ r.batch = me.batch
        /\ r.first = me.first /\ r.second = me.second /\ r.judging = me.judging
    BY <1>0, <2>1 DEF WorkerStates
  <2>3. GeoKnown(me, out) = r
    BY <1>1 DEF GeoKnown
  <2> HIDE DEF r
  <2>4. Shape(r)
    BY <1>0, <2>2 DEF Shape, Asking
  <2>5. Remembers(r, now, cache) /\ Agrees(r, now)
    BY <2>2 DEF Remembers, Agrees
  <2> QED BY <2>2, <2>3, <2>4, <2>5
<1>2. CASE ~Fits(me.used, HeadSize(out))
  <2> DEFINE x == [me EXCEPT !.first = Append(@, NoAnswer)]
  <2>1. Append(me.first, NoAnswer) \in Seq(Answers)
    BY <1>0, NoAnswerIsAnswer, AppendProperties
  <2>2. /\ x \in WorkerStates /\ x.pos = me.pos /\ x.batch = me.batch
        /\ x.first = Append(me.first, NoAnswer) /\ x.second = me.second
        /\ x.judging = me.judging
    BY <1>0, <2>1 DEF WorkerStates
  <2>3. GeoKnown(me, out) = NextPoint(x)
    BY <1>2 DEF GeoKnown
  <2> HIDE DEF x
  <2>4. now > NoAnswer.until
    BY NoAnswerIsAnswer
  <2> QED BY <1>0, <2>2, <2>3, <2>4, NoAnswerIsAnswer, PointAnswered
<1> QED BY <1>1, <1>2
(***************************************************************************)
(* The inductive invariant.                                                *)
(***************************************************************************)
Types ==
  /\ clock \in 0 .. MaxTime
  /\ geo \in Seq([ip : Public, res : GeoAnswers])
  /\ abuse \in [Public -> [score : -1 .. 100, expires : Int]]
  /\ holder \in Workers \cup {Nobody}
  /\ worker \in [Workers -> WorkerStates]
  /\ faults \in 0 .. MaxFaults
  /\ asked \in [Cacheable -> Nat]

Shapes == \A w \in Workers : Shape(worker[w])

\* The mutex of AbuseIPDB is held exactly while the service is asked.
Turns == \A w \in Workers : holder = w <=> worker[w].pc = "query"

\* The time a worker read before it waited is past, and the entry it found expired
\* is expired until it has the answer.
Clocked ==
  \A w \in Workers :
    LET me == worker[w] IN
    /\ me.pc \in {"lock", "query"} => me.now <= clock
    /\ me.pc = "query" => ~Valid(abuse[IpOf(me)], me.now)

\* The entries of the GeoIP cache are what the database says.
GeoTrue == \A i \in DOMAIN geo : geo[i].res = GeoDb[geo[i].ip]

\* An entry and a worker about to insert one each take the place of a worker.
Entries(ip) == {i \in DOMAIN geo : geo[i].ip = ip}
Putting(ip) == {w \in Workers : worker[w].pc = "geoPut" /\ IpOf(worker[w]) = ip}
GeoFew ==
  \A ip \in Public : Cardinality(Entries(ip)) + Cardinality(Putting(ip)) <= Cardinality(Workers)

\* Before this time an address cannot have cost k requests more than the first.
Floor(k) == k * (Shortest + 1)
Surplus(ip) == asked[ip] - faults - 1
Querying(w, ip) == worker[w].pc = "query" /\ IpOf(worker[w]) = ip

\* An answer in the cache keeps the next request away; a request that is under way
\* was not kept away by the one before.
SparedFor(ip, k) ==
  /\ Floor(k) <= clock
  /\ (\A w \in Workers : ~Querying(w, ip)) => abuse[ip].expires >= Floor(k) + Shortest
  /\ \A w \in Workers : Querying(w, ip) =>
       /\ worker[w].now >= Floor(k)
       /\ abuse[ip].expires >= Floor(k - 1) + Shortest
Spared == Shortest >= 0 => \A ip \in Cacheable : SparedFor(ip, Surplus(ip))

Remembered == \A w \in Workers : Remembers(worker[w], clock, abuse)
Agreed == \A w \in Workers : Agrees(worker[w], clock)

IInv ==
  /\ Types /\ Shapes /\ Turns /\ Clocked
  /\ GeoTrue /\ GeoFew /\ Spared /\ Remembered /\ Agreed

\* The shorter lifetime is one of the two.
LEMMA ShortestIsShortest ==
  /\ Shortest \in Int /\ Shortest <= Ttl /\ Shortest <= NegTtl
  /\ Ttl \in Int /\ NegTtl \in Int
BY TtlAssumption DEF Shortest

\* Only public addresses are cached.
LEMMA CacheableArePublic == \A ip \in Cacheable : ip \in Public
BY DEF Cacheable

\* One request more is worth Shortest + 1 seconds.
LEMMA FloorStep ==
  ASSUME NEW k \in Int
  PROVE  Floor(k) \in Int /\ Floor(k) = Floor(k - 1) + Shortest + 1
<1>1. Shortest + 1 \in Int
  BY ShortestIsShortest
<1> DEFINE n == Shortest + 1
<1>2. n \in Int
  BY <1>1
<1> HIDE DEF n
<1>3. k * n \in Int /\ k * n = (k - 1) * n + n
  BY <1>2
<1>4. (k - 1) * n \in Int
  BY <1>2
<1> QED BY <1>1, <1>3, <1>4, ShortestIsShortest DEF n, Floor

\* What Floor bounds.
LEMMA FloorBounds ==
  ASSUME Shortest >= 0, NEW k \in Int, NEW c \in Nat, Floor(k) <= c
  PROVE  k <= c \div (Shortest + 1)
<1> DEFINE n == Shortest + 1
           q == c \div n
<1>1. n \in Nat /\ n > 0
  BY ShortestIsShortest
<1> HIDE DEF n
<1>2. q \in Int /\ c < q * n + n
  <2>1. q \in Nat /\ c = n * q + (c % n) /\ c % n < n /\ c % n \in Nat
    BY <1>1
  <2>2. n * q = q * n /\ n * q \in Int
    BY <1>1, <2>1
  <2> QED BY <1>1, <2>1, <2>2
<1> HIDE DEF q
<1>3. SUFFICES ASSUME k >= q + 1 PROVE FALSE
  BY <1>2 DEF q, n
<1>4. k * n >= (q + 1) * n
  BY <1>1, <1>2, <1>3
<1>5. (q + 1) * n = q * n + n /\ k * n \in Int /\ q * n \in Int
  BY <1>1, <1>2
<1>6. k * n <= c
  BY DEF Floor, n
<1> QED BY <1>1, <1>2, <1>4, <1>5, <1>6
(***************************************************************************)
(* Steps that leave the caches alone.                                      *)
(***************************************************************************)
\* One worker moves.
LEMMA OneMoves ==
  ASSUME Types, NEW w \in Workers, NEW r \in WorkerStates,
         worker' = [worker EXCEPT ![w] = r]
  PROVE  /\ worker' \in [Workers -> WorkerStates]
         /\ worker'[w] = r
         /\ \A v \in Workers : v # w => worker'[v] = worker[v]
BY DEF Types

\* What the workers remember and have judged does not depend on who moved.
LEMMA MemoriesKept ==
  ASSUME Types, Shapes, Remembered, Agreed,
         NEW w \in Workers, NEW r, worker' = [worker EXCEPT ![w] = r],
         Shape(r), Remembers(r, clock, abuse), Agrees(r, clock),
         clock' = clock, abuse' = abuse
  PROVE  Shapes' /\ Remembered' /\ Agreed'
<1>1. /\ worker'[w] = r
      /\ \A v \in Workers : v # w => worker'[v] = worker[v]
  BY OneMoves DEF Shape
<1>2. ASSUME NEW v \in Workers
      PROVE  /\ Shape(worker'[v]) /\ Remembers(worker'[v], clock, abuse)
             /\ Agrees(worker'[v], clock)
  <2>1. CASE v = w
    BY <1>1, <2>1
  <2>2. CASE v # w
    BY <1>1, <2>2 DEF Shapes, Remembered, Agreed
  <2> QED BY <2>1, <2>2
<1>3. Shapes'
  BY <1>2 DEF Shapes
<1>4. Remembered'
  BY <1>2 DEF Remembered
<1>5. Agreed'
  BY <1>2 DEF Agreed
<1> QED BY <1>3, <1>4, <1>5

\* A worker that neither inserts into the GeoIP cache nor is about to.
LEMMA PuttingKept ==
  ASSUME Types, NEW w \in Workers, NEW r \in WorkerStates,
         worker' = [worker EXCEPT ![w] = r],
         worker[w].pc # "geoPut", r.pc # "geoPut", NEW ip
  PROVE  Putting(ip)' = Putting(ip)
<1>1. /\ worker'[w] = r
      /\ \A v \in Workers : v # w => worker'[v] = worker[v]
  BY OneMoves
<1>2. ASSUME NEW v \in Workers
      PROVE  worker'[v].pc = "geoPut" /\ IpOf(worker'[v]) = ip
             <=> worker[v].pc = "geoPut" /\ IpOf(worker[v]) = ip
  BY <1>1
<1> QED BY <1>2 DEF Putting

\* A worker that neither asks the service nor is about to.
LEMMA QueryingKept ==
  ASSUME Types, NEW w \in Workers, NEW r \in WorkerStates,
         worker' = [worker EXCEPT ![w] = r],
         worker[w].pc # "query", r.pc # "query"
  PROVE  \A v \in Workers, ip \in Public :
           /\ Querying(v, ip)' <=> Querying(v, ip)
           /\ Querying(v, ip) => worker'[v] = worker[v]
<1>1. /\ worker'[w] = r
      /\ \A v \in Workers : v # w => worker'[v] = worker[v]
  BY OneMoves
<1> SUFFICES ASSUME NEW v \in Workers, NEW ip \in Public
             PROVE  /\ Querying(v, ip)' <=> Querying(v, ip)
                    /\ Querying(v, ip) => worker'[v] = worker[v]
  OBVIOUS
<1>2. CASE v = w
  BY <1>1, <1>2 DEF Querying
<1>3. CASE v # w
  BY <1>1, <1>3 DEF Querying
<1> QED BY <1>2, <1>3

\* Requests are all the rarer for one surplus less.
LEMMA LessSurplus ==
  ASSUME Types, Shortest >= 0, NEW ip \in Cacheable, NEW k \in Int, SparedFor(ip, k)
  PROVE  SparedFor(ip, k - 1)
<1>1. /\ k - 1 \in Int /\ Floor(k) \in Int /\ Floor(k - 1) \in Int
      /\ Floor(k - 1 - 1) \in Int
      /\ Floor(k) = Floor(k - 1) + Shortest + 1
      /\ Floor(k - 1) = Floor(k - 1 - 1) + Shortest + 1
  BY FloorStep
<1>2. clock \in Int /\ Shortest \in Nat /\ abuse[ip].expires \in Int
  BY ShortestIsShortest, CacheableArePublic, RoomAssumption DEF Types
<1>3. Floor(k - 1) <= clock
  BY <1>1, <1>2 DEF SparedFor
<1>4. (\A w \in Workers : ~Querying(w, ip)) => abuse[ip].expires >= Floor(k - 1) + Shortest
  BY <1>1, <1>2 DEF SparedFor
<1>5. ASSUME NEW w \in Workers, Querying(w, ip)
      PROVE  /\ worker[w].now >= Floor(k - 1)
             /\ abuse[ip].expires >= Floor(k - 1 - 1) + Shortest
  <2>1. worker[w].now \in Int
    BY DEF Types, WorkerStates
  <2>2. worker[w].now >= Floor(k) /\ abuse[ip].expires >= Floor(k - 1) + Shortest
    BY <1>5 DEF SparedFor
  <2> QED BY <1>1, <1>2, <2>1, <2>2
<1> QED BY <1>3, <1>4, <1>5 DEF SparedFor

\* ... and so requests are as far apart as they were, whatever finds no memory.
LEMMA SparedKept ==
  ASSUME Types, Spared, NEW w \in Workers, NEW r \in WorkerStates,
         worker' = [worker EXCEPT ![w] = r],
         worker[w].pc # "query", r.pc # "query",
         UNCHANGED <<clock, abuse, asked>>, faults' \in {faults, faults + 1}
  PROVE  Spared'
<1> SUFFICES ASSUME Shortest >= 0 PROVE \A ip \in Cacheable : SparedFor(ip, Surplus(ip))'
  BY DEF Spared, Shortest
<1>1. \A v \in Workers, ip \in Cacheable :
        /\ Querying(v, ip)' <=> Querying(v, ip)
        /\ Querying(v, ip) => worker'[v] = worker[v]
  BY QueryingKept, CacheableArePublic
<1>2. \A ip \in Cacheable :
        Surplus(ip) \in Int /\ Surplus(ip)' \in {Surplus(ip), Surplus(ip) - 1}
  <2>1. faults \in Int /\ \A ip \in Cacheable : asked[ip] \in Int
    BY RoomAssumption DEF Types
  <2>2. ASSUME NEW ip \in Cacheable
        PROVE  Surplus(ip) \in Int /\ Surplus(ip)' \in {Surplus(ip), Surplus(ip) - 1}
    <3>1. CASE faults' = faults
      BY <2>1, <3>1 DEF Surplus
    <3>2. CASE faults' = faults + 1
      BY <2>1, <3>2 DEF Surplus
    <3> QED BY <3>1, <3>2
  <2> QED BY <2>2
<1>3. \A k : Floor(k)' = Floor(k)
  BY DEF Floor, Shortest
<1>4. ASSUME NEW ip \in Cacheable
      PROVE  SparedFor(ip, Surplus(ip))'
  <2>1. SparedFor(ip, Surplus(ip)')
    BY <1>2, LessSurplus DEF Spared
  <2> DEFINE k == Surplus(ip)'
  <2> HIDE DEF k
  <2>2. /\ Floor(k) <= clock
        /\ (\A v \in Workers : ~Querying(v, ip)) => abuse[ip].expires >= Floor(k) + Shortest
        /\ \A v \in Workers : Querying(v, ip) =>
             /\ worker[v].now >= Floor(k)
             /\ abuse[ip].expires >= Floor(k - 1) + Shortest
    BY <2>1 DEF SparedFor, k
  <2>3. (Floor(Surplus(ip)))' = Floor(k) /\ (Floor(Surplus(ip) - 1))' = Floor(k - 1)
    BY DEF Floor, Shortest, k
  <2>4. Shortest' = Shortest
    BY DEF Shortest
  <2> QED BY <1>1, <2>2, <2>3, <2>4 DEF SparedFor
<1> QED BY <1>4

\* A step of one worker that touches neither cache nor mutex.
LEMMA QuietStep ==
  ASSUME IInv, NEW w \in Workers, NEW r, worker' = [worker EXCEPT ![w] = r],
         UNCHANGED <<clock, geo, abuse, holder, faults, asked>>,
         Shape(r), Remembers(r, clock, abuse), Agrees(r, clock),
         worker[w].pc \notin {"geoPut", "query"}, r.pc \notin {"geoPut", "query"},
         r.pc = "lock" => r.now <= clock
  PROVE  IInv'
<1>0. /\ Types /\ Shapes /\ Turns /\ Clocked /\ GeoTrue /\ GeoFew /\ Spared
      /\ Remembered /\ Agreed
  BY DEF IInv
<1>1. r \in WorkerStates
  BY DEF Shape
<1>2. /\ worker' \in [Workers -> WorkerStates] /\ worker'[w] = r
      /\ \A v \in Workers : v # w => worker'[v] = worker[v]
  BY <1>0, <1>1, OneMoves
<1>3. Types'
  BY <1>0, <1>2 DEF Types
<1>4. Shapes' /\ Remembered' /\ Agreed'
  BY <1>0, MemoriesKept
<1>5. Turns'
  BY <1>0, <1>2 DEF Turns
<1>6. Clocked'
  BY <1>0, <1>2 DEF Clocked
<1>7. GeoTrue'
  BY <1>0 DEF GeoTrue
<1>8. GeoFew'
  <2>1. ASSUME NEW ip \in Public
        PROVE  Entries(ip)' = Entries(ip) /\ Putting(ip)' = Putting(ip)
    BY <1>0, <1>1, PuttingKept DEF Entries
  <2> QED BY <1>0, <2>1 DEF GeoFew
<1>9. Spared'
  BY <1>0, <1>1, SparedKept
<1> QED BY <1>3, <1>4, <1>5, <1>6, <1>7, <1>8, <1>9 DEF IInv
\* What is known of a worker in hand.
LEMMA InHand ==
  ASSUME IInv, NEW w \in Workers
  PROVE  /\ worker[w] \in WorkerStates /\ Shape(worker[w]) /\ clock \in Nat
         /\ Remembers(worker[w], clock, abuse) /\ Agrees(worker[w], clock)
BY RoomAssumption DEF IInv, Types, Shapes, Remembered, Agreed

\* A worker at the start.
LEMMA IdleWorkerShape ==
  /\ IdleWorker \in WorkerStates /\ Shape(IdleWorker)
  /\ \A now, cache : Remembers(IdleWorker, now, cache) /\ Agrees(IdleWorker, now)
<1>1. IdleWorker \in WorkerStates
  <2>1. NoGeo \in GeoAnswers /\ "idle" \in Places
    BY DEF NoGeo, GeoAnswers, Places
  <2> QED BY <2>1 DEF IdleWorker, WorkerStates
<1>2. /\ IdleWorker.pc = "idle" /\ IdleWorker.first = <<>> /\ IdleWorker.second = <<>>
      /\ ~IdleWorker.judging
  BY DEF IdleWorker
<1>3. Shape(IdleWorker)
  BY <1>1, <1>2 DEF Shape, Asking
<1> QED BY <1>1, <1>2, <1>3 DEF Remembers, Agrees

\* The worker is idle again, with a message or without.
LEMMA EndKeeps ==
  ASSUME IInv, NEW w \in Workers, PostFails(w) \/ MessageDone(w)
  PROVE  IInv'
<1>1. worker[w].pc \in {"post", "done"}
  BY DEF PostFails, MessageDone
<1>2. /\ worker' = [worker EXCEPT ![w] = IdleWorker]
      /\ UNCHANGED <<clock, geo, abuse, holder, faults, asked>>
  BY DEF PostFails, MessageDone
<1>3. IdleWorker.pc = "idle"
  BY DEF IdleWorker
<1> QED BY <1>1, <1>2, <1>3, IdleWorkerShape, QuietStep

\* A message is taken.
LEMMA TakeMessageKeeps ==
  ASSUME IInv, NEW w \in Workers, TakeMessage(w)
  PROVE  IInv'
<1>1. PICK batch \in Batches :
        /\ worker[w].pc = "idle"
        /\ worker' = [worker EXCEPT ![w].pc = "geo", ![w].batch = batch]
        /\ UNCHANGED <<clock, geo, abuse, holder, faults, asked>>
  BY DEF TakeMessage
<1> DEFINE r == [IdleWorker EXCEPT !.pc = "geo", !.batch = batch]
<1>2. worker[w] = IdleWorker
  BY <1>1, InHand DEF Shape
<1>3. worker \in [Workers -> WorkerStates]
  BY DEF IInv, Types
<1>4. worker' = [worker EXCEPT ![w] = r]
  BY <1>1, <1>2, <1>3
<1>5. batch \in Seq([ip : Public \cup Private, high : BOOLEAN]) /\ Len(batch) \in Nat \ {0}
  BY BatchAssumption, LenProperties, EmptySeq
<1>6. /\ r \in WorkerStates /\ r.pc = "geo" /\ r.pos = 1 /\ r.batch = batch
      /\ r.first = <<>> /\ r.second = <<>> /\ ~r.judging
  <2>1. "geo" \in Places
    BY DEF Places
  <2>2. /\ IdleWorker.pos = 1 /\ IdleWorker.first = <<>> /\ IdleWorker.second = <<>>
        /\ ~IdleWorker.judging
    BY DEF IdleWorker
  <2> QED BY <1>5, <2>1, <2>2, IdleWorkerShape DEF WorkerStates
<1> HIDE DEF r
<1>7. Shape(r)
  BY <1>5, <1>6 DEF Shape, Asking
<1>8. Remembers(r, clock, abuse) /\ Agrees(r, clock)
  BY <1>6 DEF Remembers, Agrees
<1> QED BY <1>1, <1>4, <1>6, <1>7, <1>8, QuietStep

\* A point is given up for lack of room.
LEMMA NoRoomKeeps ==
  ASSUME IInv, NEW w \in Workers, NoRoom(w)
  PROVE  IInv'
<1> DEFINE me == worker[w]
           x == [me EXCEPT !.first = Append(@, NoAnswer)]
<1>1. /\ me.pc = "geo" /\ UNCHANGED <<clock, geo, abuse, holder, faults, asked>>
      /\ worker' = [worker EXCEPT ![w] = NextPoint(x)]
  BY DEF NoRoom
<1>2. /\ me \in WorkerStates /\ Shape(me) /\ clock \in Nat
      /\ Remembers(me, clock, abuse)
  BY InHand
<1> HIDE DEF me
<1>3. /\ me.pos \in 1 .. Len(me.batch) /\ me.pos \in Nat
      /\ me.first \in Seq(Answers) /\ me.second = <<>> /\ ~me.judging
      /\ Len(me.first) = me.pos - 1
  BY <1>1, <1>2 DEF Shape, WorkerStates
<1>4. Append(me.first, NoAnswer) \in Seq(Answers)
  BY <1>3, NoAnswerIsAnswer, AppendProperties
<1>5. /\ x \in WorkerStates /\ x.pos = me.pos /\ x.batch = me.batch
      /\ x.first = Append(me.first, NoAnswer) /\ x.second = me.second
      /\ x.judging = me.judging
  BY <1>2, <1>4 DEF WorkerStates
<1>6. clock > NoAnswer.until
  BY <1>2, NoAnswerIsAnswer
<1> HIDE DEF x
<1> DEFINE r == NextPoint(x)
<1>7. /\ Shape(r) /\ Remembers(r, clock, abuse) /\ Agrees(r, clock)
      /\ r.pc \in {"geo", "post"}
  BY <1>2, <1>3, <1>5, <1>6, NoAnswerIsAnswer, PointAnswered
<1> HIDE DEF r
<1>8. worker' = [worker EXCEPT ![w] = r]
  BY <1>1 DEF r
<1> QED BY <1>1, <1>7, <1>8, QuietStep DEF me

\* The GeoIP cache has the answer, or none is needed.
LEMMA GeoHitKeeps ==
  ASSUME IInv, NEW w \in Workers, GeoHit(w)
  PROVE  IInv'
<1>1. PICK out \in GeoAnswers : worker' = [worker EXCEPT ![w] = GeoKnown(@, out)]
  <2>1. CASE worker' = [worker EXCEPT ![w] = GeoKnown(@, NoGeo)]
    BY <2>1 DEF NoGeo, GeoAnswers
  <2>2. CASE \E i \in DOMAIN geo : worker' = [worker EXCEPT ![w] = GeoKnown(@, geo[i].res)]
    <3>1. geo \in Seq([ip : Public, res : GeoAnswers])
      BY DEF IInv, Types
    <3>2. \A i \in DOMAIN geo : geo[i].res \in GeoAnswers
      <4>1. ASSUME NEW i \in DOMAIN geo PROVE geo[i] \in [ip : Public, res : GeoAnswers]
        BY <3>1, LenProperties, ElementOfSeq
      <4> QED BY <4>1
    <3> QED BY <2>2, <3>2
  <2> QED BY <2>1, <2>2 DEF GeoHit
<1> DEFINE r == GeoKnown(worker[w], out)
<1>2. worker[w].pc = "geo" /\ UNCHANGED <<clock, geo, abuse, holder, faults, asked>>
  BY DEF GeoHit
<1>3. /\ Shape(r) /\ Remembers(r, clock, abuse) /\ Agrees(r, clock)
      /\ r.pc \in {"geo", "post", "score"}
  BY <1>2, InHand, GeoKnownKeeps
<1>4. worker' = [worker EXCEPT ![w] = r]
  BY <1>1
<1> HIDE DEF r
<1> QED BY <1>2, <1>3, <1>4, QuietStep
\* nta_abuse_score is called: no answer for a private address, else the clock is
\* read.
LEMMA AbuseCallKeeps ==
  ASSUME IInv, NEW w \in Workers, AbuseCall(w)
  PROVE  IInv'
<1> DEFINE me == worker[w]
           waits == [me EXCEPT !.pc = "lock", !.now = clock]
<1>1. /\ me.pc = "score" /\ UNCHANGED <<clock, geo, abuse, holder, faults, asked>>
      /\ worker' = [worker EXCEPT ![w] = IF IpOf(me) \in Private THEN Scored(me, NoAnswer)
                                         ELSE waits]
  BY DEF AbuseCall, Ip, Event, IpOf
<1>2. /\ me \in WorkerStates /\ Shape(me) /\ clock \in Nat
      /\ Remembers(me, clock, abuse) /\ Agrees(me, clock)
  BY InHand
<1> HIDE DEF me
<1>3. CASE IpOf(me) \in Private
  <2> DEFINE r == Scored(me, NoAnswer)
  <2>1. clock > NoAnswer.until /\ me.pc \in Asking
    BY <1>1, <1>2, NoAnswerIsAnswer DEF Asking
  <2>2. Answered(me, NoAnswer, clock, abuse)
    <3>1. ASSUME me.judging
          PROVE  \/ NoAnswer.score = me.first[me.pos].score
                 \/ clock > me.first[me.pos].until
      <4>1. me.pos \in 1 .. Len(me.first)
        BY <1>1, <1>2, <3>1, <2>1 DEF Shape
      <4>2. /\ me.pos \in 1 .. Len(me.batch)
            /\ me.batch \in Seq([ip : Public \cup Private, high : BOOLEAN])
        BY <1>1, <1>2 DEF Shape, WorkerStates
      <4>3. IpOf(me) \notin Public
        BY <1>3, AddressAssumption
      <4> QED BY <1>2, <4>1, <4>3 DEF Remembers, IpOf
    <3> QED BY <2>1, <3>1 DEF Answered
  <2>3. /\ Shape(r) /\ Remembers(r, clock, abuse) /\ Agrees(r, clock)
        /\ r.pc \in {"geo", "post", "judge", "done"}
    BY <1>2, <2>1, <2>2, NoAnswerIsAnswer, ScoredKeeps
  <2>4. worker' = [worker EXCEPT ![w] = r]
    BY <1>1, <1>3
  <2> HIDE DEF r
  <2> QED BY <1>1, <2>3, <2>4, QuietStep DEF me
<1>4. CASE IpOf(me) \notin Private
  <2>1. me.pos \in 1 .. Len(me.batch) /\ IpOf(me) \in Public
    <3>1. /\ me.pos \in 1 .. Len(me.batch)
          /\ me.batch \in Seq([ip : Public \cup Private, high : BOOLEAN])
      BY <1>1, <1>2 DEF Shape, WorkerStates
    <3>2. me.batch[me.pos] \in [ip : Public \cup Private, high : BOOLEAN]
      BY <3>1, ElementOfSeq
    <3> QED BY <1>4, <3>1, <3>2 DEF IpOf
  <2>2. "lock" \in Places
    BY DEF Places
  <2>3. /\ waits \in WorkerStates /\ waits.pc = "lock" /\ waits.pos = me.pos
        /\ waits.batch = me.batch /\ waits.first = me.first /\ waits.second = me.second
        /\ waits.judging = me.judging /\ waits.now = clock
    BY <1>2, <2>2 DEF WorkerStates
  <2>4. worker' = [worker EXCEPT ![w] = waits]
    BY <1>1, <1>4
  <2> HIDE DEF waits
  <2>5. IpOf(waits) = IpOf(me)
    BY <2>3 DEF IpOf
  <2>6. Shape(waits)
    BY <1>1, <1>2, <2>1, <2>3, <2>5 DEF Shape, Asking
  <2>7. Remembers(waits, clock, abuse) /\ Agrees(waits, clock)
    BY <1>2, <2>3 DEF Remembers, Agrees
  <2>8. waits.now <= clock
    BY <1>2, <2>3
  <2> QED BY <1>1, <2>3, <2>4, <2>6, <2>7, <2>8, QuietStep DEF me
<1> QED BY <1>3, <1>4

\* What the cache gives is what the point was written with, as long as that counts.
LEMMA AbuseHitKeeps ==
  ASSUME IInv, NEW w \in Workers, AbuseHit(w)
  PROVE  IInv'
<1> DEFINE me == worker[w]
           answer == [score |-> abuse[IpOf(me)].score, until |-> abuse[IpOf(me)].expires]
           r == Scored(me, answer)
<1>1. /\ me.pc = "lock" /\ UNCHANGED <<clock, geo, abuse, holder, faults, asked>>
      /\ worker' = [worker EXCEPT ![w] = r]
  BY DEF AbuseHit, Ip, Event, IpOf
<1>2. /\ me \in WorkerStates /\ Shape(me) /\ clock \in Nat
      /\ Remembers(me, clock, abuse) /\ Agrees(me, clock)
  BY InHand
<1> HIDE DEF me
<1>3. IpOf(me) \in Public
  BY <1>1, <1>2 DEF Shape
<1>4. abuse[IpOf(me)] \in [score : -1 .. 100, expires : Int]
  BY <1>3 DEF IInv, Types
<1>5. /\ answer \in Answers
      /\ abuse[IpOf(me)] = [score |-> answer.score, expires |-> answer.until]
  BY <1>4 DEF Answers
<1> HIDE DEF answer
<1>6. Answered(me, answer, clock, abuse)
  <2>1. ASSUME me.judging
        PROVE  \/ answer.score = me.first[me.pos].score
               \/ clock > me.first[me.pos].until
    <3>1. me.pos \in 1 .. Len(me.first)
      BY <1>1, <1>2, <2>1 DEF Shape, Asking
    <3>2. \/ clock > me.first[me.pos].until
          \/ abuse[IpOf(me)]
               = [score |-> me.first[me.pos].score, expires |-> me.first[me.pos].until]
      BY <1>2, <3>1 DEF Remembers, IpOf
    <3> QED BY <1>5, <3>2
  <2> QED BY <1>3, <1>5, <2>1 DEF Answered
<1>7. /\ Shape(r) /\ Remembers(r, clock, abuse) /\ Agrees(r, clock)
      /\ r.pc \in {"geo", "post", "judge", "done"}
  <2>1. me.pc \in Asking
    BY <1>1 DEF Asking
  <2> QED BY <1>2, <1>5, <1>6, <2>1, ScoredKeeps
<1> HIDE DEF r
<1> QED BY <1>1, <1>7, QuietStep DEF me

\* The points are written: the events are gone through again.
LEMMA PostOkKeeps ==
  ASSUME IInv, NEW w \in Workers, PostOk(w)
  PROVE  IInv'
<1> DEFINE me == worker[w]
           r == [me EXCEPT !.pc = "judge", !.judging = TRUE, !.pos = 1]
<1>1. worker \in [Workers -> WorkerStates]
  BY DEF IInv, Types
<1>2. /\ me.pc = "post" /\ UNCHANGED <<clock, geo, abuse, holder, faults, asked>>
      /\ worker' = [worker EXCEPT ![w] = r]
  BY <1>1 DEF PostOk
<1>3. /\ me \in WorkerStates /\ Shape(me) /\ clock \in Nat
      /\ Remembers(me, clock, abuse) /\ Agrees(me, clock)
  BY InHand
<1> HIDE DEF me
<1>4. /\ r \in WorkerStates /\ r.pc = "judge" /\ r.pos = 1 /\ r.batch = me.batch
      /\ r.first = me.first /\ r.second = me.second /\ r.judging
  BY <1>3 DEF WorkerStates, Places
<1> HIDE DEF r
<1>5. Shape(r)
  <2>1. /\ me.pos \in 1 .. Len(me.batch) /\ Len(me.first) = Len(me.batch) /\ me.second = <<>>
        /\ Len(me.batch) \in Nat
    BY <1>2, <1>3, LenProperties DEF Shape, WorkerStates
  <2>2. 1 \in 1 .. Len(me.batch)
    BY <2>1
  <2> QED BY <1>4, <2>1, <2>2 DEF Shape, Asking
<1>6. Remembers(r, clock, abuse) /\ Agrees(r, clock)
  BY <1>3, <1>4 DEF Remembers, Agrees
<1> QED BY <1>2, <1>4, <1>5, <1>6, QuietStep DEF me

\* An event is narrated for its kill-chain score alone.
LEMMA JudgeHighKeeps ==
  ASSUME IInv, NEW w \in Workers, JudgeHigh(w)
  PROVE  IInv'
<1> DEFINE me == worker[w]
           x == [me EXCEPT !.second = Append(@, NoAnswer)]
           r == NextJudged(x)
<1>1. /\ me.pc = "judge" /\ me.batch[me.pos].high
      /\ UNCHANGED <<clock, geo, abuse, holder, faults, asked>>
      /\ worker' = [worker EXCEPT ![w] = r]
  BY DEF JudgeHigh, Event
<1>2. /\ me \in WorkerStates /\ Shape(me) /\ clock \in Nat
      /\ Remembers(me, clock, abuse) /\ Agrees(me, clock)
  BY InHand
<1> HIDE DEF me
<1>3. /\ me.pos \in 1 .. Len(me.batch) /\ me.pos \in Nat /\ me.second \in Seq(Answers)
      /\ Len(me.first) = Len(me.batch) /\ Len(me.second) = me.pos - 1 /\ me.judging
  BY <1>1, <1>2 DEF Shape, WorkerStates
<1>4. /\ Append(me.second, NoAnswer) \in Seq(Answers)
      /\ Len(Append(me.second, NoAnswer)) = me.pos
  BY <1>3, NoAnswerIsAnswer, AppendProperties
<1>5. /\ x \in WorkerStates /\ x.pos = me.pos /\ x.batch = me.batch /\ x.judging = me.judging
      /\ x.first = me.first /\ x.second = Append(me.second, NoAnswer)
  BY <1>2, <1>4 DEF WorkerStates
<1> HIDE DEF x
<1>6. /\ Shape(r) /\ r.pc \in {"judge", "done"} /\ r.batch = x.batch
      /\ r.first = x.first /\ r.second = x.second
  BY <1>3, <1>4, <1>5, NextJudgedShape
<1> HIDE DEF r
<1>7. Remembers(r, clock, abuse) /\ Agrees(r, clock)
  BY <1>1, <1>2, <1>3, <1>5, <1>6, NoAnswerIsAnswer, SecondGrows
<1> QED BY <1>1, <1>6, <1>7, QuietStep DEF me

\* An event is narrated if its score is high.
LEMMA JudgeLowKeeps ==
  ASSUME IInv, NEW w \in Workers, JudgeLow(w)
  PROVE  IInv'
<1> DEFINE me == worker[w]
           r == [me EXCEPT !.pc = "score"]
<1>1. worker \in [Workers -> WorkerStates]
  BY DEF IInv, Types
<1>2. /\ me.pc = "judge" /\ UNCHANGED <<clock, geo, abuse, holder, faults, asked>>
      /\ worker' = [worker EXCEPT ![w] = r]
  BY <1>1 DEF JudgeLow
<1>3. /\ me \in WorkerStates /\ Shape(me) /\ clock \in Nat
      /\ Remembers(me, clock, abuse) /\ Agrees(me, clock)
  BY InHand
<1> HIDE DEF me
<1>4. /\ r \in WorkerStates /\ r.pc = "score" /\ r.pos = me.pos /\ r.batch = me.batch
      /\ r.first = me.first /\ r.second = me.second /\ r.judging = me.judging
  BY <1>3 DEF WorkerStates, Places
<1> HIDE DEF r
<1>5. Shape(r)
  BY <1>2, <1>3, <1>4 DEF Shape, Asking
<1>6. Remembers(r, clock, abuse) /\ Agrees(r, clock)
  BY <1>3, <1>4 DEF Remembers, Agrees
<1> QED BY <1>2, <1>4, <1>5, <1>6, QuietStep DEF me
(***************************************************************************)
(* The other steps.                                                        *)
(***************************************************************************)
\* Time passes: what was late is later.
LEMMA TickKeeps ==
  ASSUME IInv, Tick
  PROVE  IInv'
<1>0. /\ Types /\ Shapes /\ Turns /\ Clocked /\ GeoTrue /\ GeoFew /\ Spared
      /\ Remembered /\ Agreed
  BY DEF IInv
<1>1. /\ clock' = clock + 1 /\ clock < MaxTime /\ clock \in Nat /\ MaxTime \in Nat
      /\ UNCHANGED <<geo, abuse, holder, worker, faults, asked>>
  BY <1>0, RoomAssumption DEF Tick, Types
<1>2. Types'
  BY <1>0, <1>1 DEF Types
<1>3. Shapes' /\ Turns' /\ GeoTrue' /\ GeoFew'
  BY <1>0, <1>1 DEF Shapes, Turns, GeoTrue, GeoFew, Entries, Putting
<1>4. Clocked'
  <2>1. ASSUME NEW w \in Workers
        PROVE  (LET me == worker[w]
                IN  /\ me.pc \in {"lock", "query"} => me.now <= clock
                    /\ me.pc = "query" => ~Valid(abuse[IpOf(me)], me.now))'
    <3>1. worker[w].now \in Nat
      BY <1>0 DEF Types, WorkerStates
    <3> QED BY <1>0, <1>1, <3>1 DEF Clocked
  <2> QED BY <2>1 DEF Clocked
<1>5. ASSUME NEW w \in Workers
      PROVE  Remembers(worker[w], clock, abuse)' /\ Agrees(worker[w], clock)'
  <2>1. /\ worker[w].first \in Seq(Answers) /\ worker[w].second \in Seq(Answers)
        /\ Len(worker[w].second) <= Len(worker[w].first)
        /\ Len(worker[w].first) \in Nat /\ Len(worker[w].second) \in Nat
    <3>1. worker[w] \in WorkerStates /\ Shape(worker[w])
      BY <1>0 DEF Types, Shapes
    <3>2. /\ worker[w].first \in Seq(Answers) /\ worker[w].second \in Seq(Answers)
          /\ worker[w].batch \in Seq([ip : Public \cup Private, high : BOOLEAN])
          /\ worker[w].pc \in Places /\ worker[w].judging \in BOOLEAN
      BY <3>1 DEF WorkerStates
    <3>3. Len(worker[w].first) \in Nat /\ Len(worker[w].second) \in Nat
      BY <3>2, LenProperties
    <3>4. CASE worker[w].pc = "idle"
      <4>1. IdleWorker.first = <<>> /\ IdleWorker.second = <<>>
        BY DEF IdleWorker
      <4>2. worker[w] = IdleWorker
        BY <3>1, <3>4 DEF Shape
      <4>3. worker[w].first = <<>> /\ worker[w].second = <<>>
        BY <4>1, <4>2
      <4> QED BY <4>3
    <3>5. CASE worker[w].pc # "idle"
      <4>1. worker[w].pos \in 1 .. Len(worker[w].batch)
        BY <3>1, <3>5 DEF Shape
      <4>2. Len(worker[w].batch) \in Nat
        BY <3>2, LenProperties
      <4>3. worker[w].second = <<>> => Len(worker[w].second) = 0
        OBVIOUS
      <4> QED BY <3>1, <3>2, <3>3, <3>5, <4>1, <4>2, <4>3 DEF Shape, Places, Asking
    <3> QED BY <3>2, <3>3, <3>4, <3>5
  <2>2. \A i \in 1 .. Len(worker[w].first) :
          clock > worker[w].first[i].until => clock + 1 > worker[w].first[i].until
    <3>1. \A i \in 1 .. Len(worker[w].first) : worker[w].first[i] \in Answers
      BY <2>1, ElementOfSeq
    <3>2. \A i \in 1 .. Len(worker[w].first) : worker[w].first[i].until \in Int
      BY <3>1 DEF Answers
    <3> QED BY <1>1, <3>2
  <2>3. \A i \in 1 .. Len(worker[w].second) : i \in 1 .. Len(worker[w].first)
    BY <2>1
  <2>4. Remembers(worker[w], clock, abuse)'
    BY <1>0, <1>1, <2>2 DEF Remembered, Remembers
  <2>5. Agrees(worker[w], clock)'
    BY <1>0, <1>1, <2>2, <2>3 DEF Agreed, Agrees
  <2> QED BY <2>4, <2>5
<1>6. Remembered' /\ Agreed'
  BY <1>5 DEF Remembered, Agreed
<1>7. Spared'
  <2> SUFFICES ASSUME Shortest >= 0, NEW ip \in Cacheable PROVE SparedFor(ip, Surplus(ip))'
    BY DEF Spared, Shortest
  <2>1. Floor(Surplus(ip)) \in Int
    <3>1. Surplus(ip) \in Int
      BY <1>0, RoomAssumption DEF Types, Surplus
    <3> QED BY <3>1, FloorStep
  <2>2. \A a : Surplus(a)' = Surplus(a)
    BY <1>1 DEF Surplus
  <2>3. \A k : Floor(k)' = Floor(k)
    BY DEF Floor, Shortest
  <2>4. \A w, a : Querying(w, a)' <=> Querying(w, a)
    BY <1>1 DEF Querying
  <2>5. Floor(Surplus(ip)) <= clock + 1
    BY <1>0, <1>1, <2>1 DEF Spared, SparedFor
  <2>6. Shortest' = Shortest
    BY DEF Shortest
  <2> QED BY <1>0, <1>1, <2>2, <2>3, <2>4, <2>5, <2>6 DEF Spared, SparedFor
<1> QED BY <1>2, <1>3, <1>4, <1>6, <1>7 DEF IInv

\* The database is asked: no entry yet, and each worker can be about to insert one.
LEMMA GeoMissKeeps ==
  ASSUME IInv, NEW w \in Workers, GeoMiss(w)
  PROVE  IInv'
<1> DEFINE me == worker[w]
           r == [me EXCEPT !.pc = "geoPut", !.out = GeoDb[IpOf(me)]]
<1>0. /\ Types /\ Shapes /\ Turns /\ Clocked /\ GeoTrue /\ GeoFew /\ Spared
      /\ Remembered /\ Agreed
  BY DEF IInv
<1>1. /\ me.pc = "geo" /\ UNCHANGED <<clock, geo, abuse, holder, faults, asked>>
      /\ IpOf(me) \in Public /\ \A i \in DOMAIN geo : geo[i].ip # IpOf(me)
      /\ worker' = [worker EXCEPT ![w] = r]
  BY <1>0 DEF GeoMiss, Ip, Event, IpOf, Types
<1>2. /\ me \in WorkerStates /\ Shape(me) /\ clock \in Nat
      /\ Remembers(me, clock, abuse) /\ Agrees(me, clock)
  BY InHand
<1>3. /\ r \in WorkerStates /\ r.pc = "geoPut" /\ r.pos = me.pos /\ r.batch = me.batch
      /\ r.first = me.first /\ r.second = me.second /\ r.judging = me.judging
      /\ r.out = GeoDb[IpOf(me)] /\ IpOf(r) = IpOf(me)
  <2>1. "geoPut" \in Places /\ GeoDb[IpOf(me)] \in GeoAnswers
    BY <1>1, GeoAssumption DEF Places, GeoAnswers
  <2> HIDE DEF me
  <2> QED BY <1>2, <2>1 DEF WorkerStates, IpOf
<1> HIDE DEF r
<1>4. Shape(r)
  BY <1>1, <1>2, <1>3 DEF Shape, Asking
<1>5. Remembers(r, clock, abuse) /\ Agrees(r, clock)
  BY <1>2, <1>3 DEF Remembers, Agrees
<1>6. /\ worker' \in [Workers -> WorkerStates] /\ worker'[w] = r
      /\ \A v \in Workers : v # w => worker'[v] = worker[v]
  BY <1>0, <1>1, <1>3, OneMoves
<1>7. Types'
  BY <1>0, <1>1, <1>6 DEF Types
<1>8. Shapes' /\ Remembered' /\ Agreed'
  BY <1>0, <1>1, <1>4, <1>5, MemoriesKept
<1>9. Turns' /\ Clocked' /\ GeoTrue'
  <2>1. Turns'
    BY <1>0, <1>1, <1>3, <1>6 DEF Turns
  <2>2. Clocked'
    BY <1>0, <1>1, <1>3, <1>6 DEF Clocked
  <2>3. GeoTrue'
    BY <1>0, <1>1 DEF GeoTrue
  <2> QED BY <2>1, <2>2, <2>3
<1>10. GeoFew'
  <2>1. ASSUME NEW ip \in Public
        PROVE  Cardinality(Entries(ip)') + Cardinality(Putting(ip)') <= Cardinality(Workers)
    <3>1. CASE ip = IpOf(me)
      <4>1. Entries(ip)' = {}
        BY <1>1, <3>1 DEF Entries
      <4>2. Putting(ip)' \in SUBSET Workers
        BY DEF Putting
      <4>3. /\ Cardinality(Putting(ip)') <= Cardinality(Workers)
            /\ Cardinality(Putting(ip)') \in Nat /\ Cardinality({}) = 0
        BY <4>2, WorkersAssumption, FS_Subset, FS_CardinalityType, FS_EmptySet
      <4> QED BY <4>1, <4>3
    <3>2. CASE ip # IpOf(me)
      <4>1. Entries(ip)' = Entries(ip)
        BY <1>1 DEF Entries
      <4>2. \A v \in Workers : worker'[v].pc = "geoPut" /\ IpOf(worker'[v]) = ip
                                <=> worker[v].pc = "geoPut" /\ IpOf(worker[v]) = ip
        BY <1>1, <1>3, <1>6, <3>2
      <4>3. Putting(ip)' = Putting(ip)
        BY <4>2 DEF Putting
      <4> QED BY <1>0, <4>1, <4>3 DEF GeoFew
    <3> QED BY <3>1, <3>2
  <2> QED BY <2>1 DEF GeoFew
<1>11. Spared'
  BY <1>0, <1>1, <1>3, SparedKept
<1> QED BY <1>7, <1>8, <1>9, <1>10, <1>11 DEF IInv
\* Places that move by one, with a new first one, are one more.
LEMMA PlacesMoved ==
  ASSUME NEW n \in Nat, NEW O \in SUBSET (1 .. n), NEW N \in SUBSET (1 .. n + 1),
         \A i \in N : i = 1 \/ i - 1 \in O
  PROVE  /\ Cardinality(O) \in Nat /\ Cardinality(N) \in Nat
         /\ Cardinality(N) <= Cardinality(O) + 1
         /\ 1 \notin N => Cardinality(N) <= Cardinality(O)
<1> DEFINE T == {i + 1 : i \in O}
           f == [i \in O |-> i + 1]
<1>1. IsFiniteSet(O) /\ IsFiniteSet(N)
  <2>1. IsFiniteSet(1 .. n) /\ IsFiniteSet(1 .. n + 1)
    BY FS_Interval
  <2> QED BY <2>1, FS_Subset
<1>2. f \in Surjection(O, T)
  BY DEF Surjection
<1>3. ASSUME NEW i \in N, i # 1
      PROVE  i \in T
  <2>1. i - 1 \in O /\ i = (i - 1) + 1
    BY <1>3
  <2> QED BY <2>1
<1> HIDE DEF T, f
<1>4. IsFiniteSet(T) /\ Cardinality(T) <= Cardinality(O)
  BY <1>1, <1>2, FS_Surjection
<1>5. /\ IsFiniteSet(T \cup {1})
      /\ Cardinality(T \cup {1}) = IF 1 \in T THEN Cardinality(T) ELSE Cardinality(T) + 1
  BY <1>4, FS_AddElement
<1>6. /\ Cardinality(T) \in Nat /\ Cardinality(O) \in Nat /\ Cardinality(N) \in Nat
      /\ Cardinality(T \cup {1}) \in Nat
  BY <1>1, <1>4, <1>5, FS_CardinalityType
<1>7. Cardinality(N) <= Cardinality(T \cup {1})
  <2>1. N \in SUBSET (T \cup {1})
    BY <1>3
  <2> QED BY <1>5, <2>1, FS_Subset
<1>8. 1 \notin N => Cardinality(N) <= Cardinality(T)
  <2>1. 1 \notin N => N \in SUBSET T
    BY <1>3
  <2> QED BY <1>4, <2>1, FS_Subset
<1> QED BY <1>4, <1>5, <1>6, <1>7, <1>8

\* The answer of the database is inserted, unless memory is short: the worker gives
\* up its place to the entry.
LEMMA GeoPutKeeps ==
  ASSUME IInv, NEW w \in Workers, GeoPut(w)
  PROVE  IInv'
<1> DEFINE me == worker[w]
           r == GeoKnown(me, me.out)
           e == [ip |-> IpOf(me), res |-> me.out]
<1>0. /\ Types /\ Shapes /\ Turns /\ Clocked /\ GeoTrue /\ GeoFew /\ Spared
      /\ Remembered /\ Agreed
  BY DEF IInv
<1>1. /\ me.pc = "geoPut" /\ UNCHANGED <<clock, abuse, holder, asked>>
      /\ \/ geo' = <<e>> \o geo /\ UNCHANGED faults
         \/ faults < MaxFaults /\ faults' = faults + 1 /\ UNCHANGED geo
         \/ UNCHANGED <<geo, faults>>
      /\ worker' = [worker EXCEPT ![w] = r]
  BY DEF GeoPut, Ip, Event, IpOf
<1>2. /\ me \in WorkerStates /\ Shape(me) /\ clock \in Nat
      /\ Remembers(me, clock, abuse) /\ Agrees(me, clock)
  BY InHand
<1>3. IpOf(me) \in Public /\ me.out = GeoDb[IpOf(me)] /\ me.out \in GeoAnswers
  BY <1>1, <1>2 DEF Shape, WorkerStates
<1>4. /\ Shape(r) /\ Remembers(r, clock, abuse) /\ Agrees(r, clock)
      /\ r.pc \in {"geo", "post", "score"} /\ r \in WorkerStates
  <2>1. /\ Shape(r) /\ Remembers(r, clock, abuse) /\ Agrees(r, clock)
        /\ r.pc \in {"geo", "post", "score"}
    BY <1>1, <1>2, <1>3, GeoKnownKeeps
  <2> QED BY <2>1 DEF Shape
<1>5. e \in [ip : Public, res : GeoAnswers] /\ e.ip = IpOf(me) /\ e.res = GeoDb[IpOf(me)]
  BY <1>3
<1> HIDE DEF r, e
<1>6. /\ worker' \in [Workers -> WorkerStates] /\ worker'[w] = r
      /\ \A v \in Workers : v # w => worker'[v] = worker[v]
  BY <1>0, <1>1, <1>4, OneMoves
<1>7. /\ geo \in Seq([ip : Public, res : GeoAnswers])
      /\ geo' = <<e>> \o geo => /\ geo' \in Seq([ip : Public, res : GeoAnswers])
                                /\ DOMAIN geo' = 1 .. Len(geo) + 1 /\ DOMAIN geo = 1 .. Len(geo)
                                /\ geo'[1] = e /\ Len(geo) \in Nat
                                /\ \A i \in 1 .. Len(geo) : geo'[i + 1] = geo[i]
  <2>1. geo \in Seq([ip : Public, res : GeoAnswers])
    BY <1>0 DEF Types
  <2>2. <<e>> \in Seq([ip : Public, res : GeoAnswers]) /\ Len(<<e>>) = 1 /\ <<e>>[1] = e
    BY <1>5
  <2>3. Len(geo) \in Nat /\ DOMAIN geo = 1 .. Len(geo)
    BY <2>1, LenProperties
  <2>4. /\ <<e>> \o geo \in Seq([ip : Public, res : GeoAnswers])
        /\ Len(<<e>> \o geo) = 1 + Len(geo)
        /\ \A i \in 1 .. 1 + Len(geo) :
             (<<e>> \o geo)[i] = IF i <= 1 THEN <<e>>[i] ELSE geo[i - 1]
    BY <2>1, <2>2, ConcatProperties
  <2>5. DOMAIN (<<e>> \o geo) = 1 .. Len(geo) + 1
    BY <2>3, <2>4, LenProperties
  <2>6. (<<e>> \o geo)[1] = e
    BY <2>2, <2>3, <2>4
  <2>7. \A i \in 1 .. Len(geo) : (<<e>> \o geo)[i + 1] = geo[i]
    BY <2>3, <2>4
  <2> QED BY <2>1, <2>3, <2>4, <2>5, <2>6, <2>7
<1>8. Types'
  <2>1. geo' \in Seq([ip : Public, res : GeoAnswers])
    BY <1>1, <1>7
  <2>2. faults' \in 0 .. MaxFaults
    BY <1>0, <1>1, RoomAssumption DEF Types
  <2> QED BY <1>0, <1>1, <1>6, <2>1, <2>2 DEF Types
<1>9. Shapes' /\ Remembered' /\ Agreed'
  BY <1>0, <1>1, <1>4, MemoriesKept
<1>10. Turns' /\ Clocked'
  <2>1. Turns'
    BY <1>0, <1>1, <1>4, <1>6 DEF Turns
  <2>2. Clocked'
    BY <1>0, <1>1, <1>4, <1>6 DEF Clocked
  <2> QED BY <2>1, <2>2
<1>11. GeoTrue'
  <2>1. CASE geo' = geo
    BY <1>0, <2>1 DEF GeoTrue
  <2>2. CASE geo' = <<e>> \o geo
    <3>1. ASSUME NEW i \in DOMAIN geo' PROVE geo'[i].res = GeoDb[geo'[i].ip]
      <4>1. CASE i = 1
        BY <1>5, <1>7, <2>2, <4>1
      <4>2. CASE i # 1
        <5>1. i - 1 \in 1 .. Len(geo) /\ i = (i - 1) + 1
          BY <1>7, <2>2, <3>1, <4>2
        <5>2. geo'[i] = geo[i - 1]
          BY <1>7, <2>2, <5>1
        <5> QED BY <1>0, <1>7, <2>2, <5>1, <5>2 DEF GeoTrue
      <4> QED BY <4>1, <4>2
    <3> QED BY <3>1 DEF GeoTrue
  <2> QED BY <1>1, <2>1, <2>2
<1>12. GeoFew'
  <2> SUFFICES ASSUME NEW ip \in Public
               PROVE  Cardinality(Entries(ip)') + Cardinality(Putting(ip)')
                        <= Cardinality(Workers)
    BY DEF GeoFew
  <2>1. Cardinality(Entries(ip)) + Cardinality(Putting(ip)) <= Cardinality(Workers)
    BY <1>0 DEF GeoFew
  <2>2. /\ Cardinality(Entries(ip)) \in Nat /\ Cardinality(Entries(ip)') \in Nat
        /\ Cardinality(Entries(ip)')
             <= Cardinality(Entries(ip)) + (IF IpOf(me) = ip THEN 1 ELSE 0)
    <3>0. /\ Len(geo) \in Nat /\ DOMAIN geo = 1 .. Len(geo)
          /\ Entries(ip) \in SUBSET (1 .. Len(geo))
      BY <1>7, LenProperties DEF Entries
    <3>1. CASE geo' = geo
      <4>1. Entries(ip)' = Entries(ip)
        BY <3>1 DEF Entries
      <4>2. Cardinality(Entries(ip)) \in Nat
        <5>1. IsFiniteSet(1 .. Len(geo))
          BY <3>0, FS_Interval
        <5>2. IsFiniteSet(Entries(ip))
          BY <3>0, <5>1, FS_Subset
        <5> QED BY <5>2, FS_CardinalityType
      <4> QED BY <4>1, <4>2
    <3>2. CASE geo' = <<e>> \o geo
      <4>1. Entries(ip)' \in SUBSET (1 .. Len(geo) + 1)
        BY <1>7, <3>2 DEF Entries
      <4>2. ASSUME NEW i \in Entries(ip)', i # 1 PROVE i - 1 \in Entries(ip)
        <5>1. i - 1 \in 1 .. Len(geo) /\ i = (i - 1) + 1
          BY <3>0, <4>1, <4>2
        <5>2. geo'[i] = geo[i - 1]
          BY <1>7, <3>2, <5>1
        <5>3. geo'[i].ip = ip
          BY DEF Entries
        <5> QED BY <3>0, <5>1, <5>2, <5>3 DEF Entries
      <4>3. 1 \in Entries(ip)' => IpOf(me) = ip
        BY <1>5, <1>7, <3>2 DEF Entries
      <4> DEFINE O == Entries(ip)
                 N == Entries(ip)'
      <4>4. O \in SUBSET (1 .. Len(geo)) /\ N \in SUBSET (1 .. Len(geo) + 1)
        BY <3>0, <4>1
      <4>5. \A i \in N : i = 1 \/ i - 1 \in O
        BY <4>2
      <4>6. 1 \in N => IpOf(me) = ip
        BY <4>3
      <4> HIDE DEF O, N
      <4>7. /\ Cardinality(O) \in Nat /\ Cardinality(N) \in Nat
            /\ Cardinality(N) <= Cardinality(O) + 1
            /\ 1 \notin N => Cardinality(N) <= Cardinality(O)
        BY <3>0, <4>4, <4>5, PlacesMoved
      <4>8. Cardinality(N) <= Cardinality(O) + (IF IpOf(me) = ip THEN 1 ELSE 0)
        BY <4>6, <4>7
      <4> QED BY <4>7, <4>8 DEF O, N
    <3> QED BY <1>1, <3>1, <3>2
  <2>3. IsFiniteSet(Putting(ip)) /\ Cardinality(Putting(ip)) \in Nat
    <3>1. Putting(ip) \in SUBSET Workers
      BY DEF Putting
    <3> QED BY <3>1, WorkersAssumption, FS_Subset, FS_CardinalityType
  <2>4. Cardinality(Putting(ip)')
          = Cardinality(Putting(ip)) - (IF IpOf(me) = ip THEN 1 ELSE 0)
    <3>1. CASE IpOf(me) = ip
      <4>1. w \in Putting(ip)
        BY <1>1, <3>1 DEF Putting
      <4>2. Putting(ip)' = Putting(ip) \ {w}
        <5>1. \A v \in Workers : (v \in Putting(ip)') <=> (v \in Putting(ip) /\ v # w)
          BY <1>4, <1>6 DEF Putting
        <5>2. Putting(ip)' \subseteq Workers /\ Putting(ip) \subseteq Workers
          BY DEF Putting
        <5> QED BY <5>1, <5>2
      <4> QED BY <2>3, <3>1, <4>1, <4>2, FS_RemoveElement
    <3>2. CASE IpOf(me) # ip
      <4>1. \A v \in Workers : worker'[v].pc = "geoPut" /\ IpOf(worker'[v]) = ip
                                <=> worker[v].pc = "geoPut" /\ IpOf(worker[v]) = ip
        BY <1>4, <1>6, <3>2
      <4>2. Putting(ip)' = Putting(ip)
        BY <4>1 DEF Putting
      <4> QED BY <2>3, <3>2, <4>2
    <3> QED BY <3>1, <3>2
  <2>5. Cardinality(Workers) \in Nat
    BY WorkersAssumption, FS_CardinalityType
  <2> QED BY <2>1, <2>2, <2>3, <2>4, <2>5
<1>13. Spared'
  BY <1>0, <1>1, <1>4, SparedKept
<1> QED BY <1>8, <1>9, <1>10, <1>11, <1>12, <1>13 DEF IInv
\* The service is asked: the answer before it is Shortest + 1 seconds old.
LEMMA AbuseMissKeeps ==
  ASSUME IInv, NEW w \in Workers, AbuseMiss(w)
  PROVE  IInv'
<1> DEFINE me == worker[w]
           r == [me EXCEPT !.pc = "query"]
           a == IpOf(me)
<1>0. /\ Types /\ Shapes /\ Turns /\ Clocked /\ GeoTrue /\ GeoFew /\ Spared
      /\ Remembered /\ Agreed
  BY DEF IInv
<1>1. /\ me.pc = "lock" /\ holder = Nobody /\ holder' = w
      /\ ~Valid(abuse[a], me.now)
      /\ worker' = [worker EXCEPT ![w] = r]
      /\ asked' = [ip \in Cacheable |-> asked[ip] + (IF ip = a THEN 1 ELSE 0)]
      /\ UNCHANGED <<clock, geo, abuse, faults>>
  BY <1>0 DEF AbuseMiss, Counted, Ip, Event, IpOf, Types
<1>2. /\ me \in WorkerStates /\ Shape(me) /\ clock \in Nat
      /\ Remembers(me, clock, abuse) /\ Agrees(me, clock)
  BY InHand
<1>3. a \in Public /\ me.now <= clock
  BY <1>0, <1>1, <1>2 DEF Shape, Clocked
<1>4. /\ r \in WorkerStates /\ r.pc = "query" /\ r.pos = me.pos /\ r.batch = me.batch
      /\ r.first = me.first /\ r.second = me.second /\ r.judging = me.judging
      /\ r.now = me.now /\ IpOf(r) = a
  <2>1. "query" \in Places
    BY DEF Places
  <2> HIDE DEF me
  <2> QED BY <1>2, <2>1 DEF WorkerStates, IpOf
<1> HIDE DEF r
<1>5. Shape(r)
  BY <1>1, <1>2, <1>3, <1>4 DEF Shape, Asking
<1>6. Remembers(r, clock, abuse) /\ Agrees(r, clock)
  BY <1>2, <1>4 DEF Remembers, Agrees
<1>7. /\ worker' \in [Workers -> WorkerStates] /\ worker'[w] = r
      /\ \A v \in Workers : v # w => worker'[v] = worker[v]
  BY <1>0, <1>1, <1>4, OneMoves
<1>8. Types'
  <2>1. asked' \in [Cacheable -> Nat]
    <3>1. asked \in [Cacheable -> Nat]
      BY <1>0 DEF Types
    <3> HIDE DEF a
    <3> QED BY <1>1, <1>3, <3>1
  <2> QED BY <1>0, <1>1, <1>7, <2>1 DEF Types
<1>9. Shapes' /\ Remembered' /\ Agreed'
  BY <1>0, <1>1, <1>5, <1>6, MemoriesKept
<1>10. \A v \in Workers : worker[v].pc # "query"
  <2>1. \A v \in Workers : v # Nobody
    BY WorkersAssumption
  <2> QED BY <1>0, <1>1, <2>1 DEF Turns
<1>11. Turns'
  BY <1>1, <1>4, <1>7, <1>10 DEF Turns
<1>12. Clocked'
  <2>1. ASSUME NEW v \in Workers
        PROVE  /\ worker'[v].pc \in {"lock", "query"} => worker'[v].now <= clock
               /\ worker'[v].pc = "query" => ~Valid(abuse[IpOf(worker'[v])], worker'[v].now)
    <3>1. CASE v = w
      BY <1>1, <1>3, <1>4, <1>7, <3>1
    <3>2. CASE v # w
      BY <1>0, <1>7, <3>2 DEF Clocked
    <3> QED BY <3>1, <3>2
  <2>2. clock' = clock /\ abuse' = abuse
    BY <1>1
  <2> QED BY <2>1, <2>2 DEF Clocked
<1>13. GeoTrue'
  BY <1>0, <1>1 DEF GeoTrue
<1>14. GeoFew'
  <2>1. ASSUME NEW ip \in Public
        PROVE  Entries(ip)' = Entries(ip) /\ Putting(ip)' = Putting(ip)
    <3>1. Putting(ip)' = Putting(ip)
      BY <1>0, <1>1, <1>4, PuttingKept
    <3> QED BY <1>1, <3>1 DEF Entries
  <2> QED BY <1>0, <2>1 DEF GeoFew
<1>15. Spared'
  <2> SUFFICES ASSUME Shortest >= 0, NEW ip \in Cacheable
               PROVE  SparedFor(ip, Surplus(ip))'
    BY DEF Spared, Shortest
  <2>p. ip \in Public
    BY CacheableArePublic
  <2>1. /\ \A v \in Workers : ~Querying(v, ip)
        /\ \A v \in Workers : Querying(v, ip)' <=> (v = w /\ ip = a)
    BY <1>4, <1>7, <1>10 DEF Querying
  <2> DEFINE k == Surplus(ip)
  <2>2. k \in Int
    BY <1>0, RoomAssumption DEF Types, Surplus
  <2>3. /\ Floor(k) <= clock /\ abuse[ip].expires >= Floor(k) + Shortest
    BY <1>0, <2>1 DEF Spared, SparedFor
  <2>4. Shortest' = Shortest /\ \A j : Floor(j)' = Floor(j)
    BY DEF Floor, Shortest
  <2>5. CASE ip # a
    <3>1. Surplus(ip)' = k
      BY <1>0, <1>1, <2>5 DEF Types, Surplus
    <3> HIDE DEF k
    <3> QED BY <1>1, <2>1, <2>3, <2>4, <2>5, <3>1 DEF SparedFor
  <2>6. CASE ip = a
    <3>1. Surplus(ip)' = k + 1
      <4>1. asked'[ip] = asked[ip] + 1 /\ asked[ip] \in Nat /\ faults \in Int
        BY <1>0, <1>1, <2>6, RoomAssumption DEF Types
      <4> QED BY <1>1, <4>1 DEF Surplus
    <3> HIDE DEF k
    <3>2. /\ Floor(k) \in Int /\ k + 1 \in Int /\ Floor(k + 1) \in Int
          /\ Floor(k + 1) = Floor(k) + Shortest + 1
      <4>1. k + 1 \in Int /\ k + 1 - 1 = k
        BY <2>2
      <4> QED BY <2>2, <4>1, FloorStep
    <3>3. /\ me.now \in Nat /\ Shortest \in Nat /\ abuse[ip].expires \in Int
          /\ me.now > abuse[ip].expires
      <4>1. abuse[ip].expires \in Int
        BY <1>0, <2>p DEF Types
      <4>2. me.now \in Nat
        BY <1>2 DEF WorkerStates
      <4> QED BY <1>1, <2>6, <4>1, <4>2, ShortestIsShortest DEF Valid
    <3>4. me.now >= Floor(k + 1)
      BY <2>3, <3>2, <3>3
    <3>5. Floor(k + 1) <= clock
      BY <1>2, <1>3, <3>2, <3>3, <3>4
    <3>6. (k + 1) - 1 = k
      BY <2>2
    <3> QED BY <1>1, <1>4, <1>7, <2>1, <2>3, <2>4, <2>6, <3>1, <3>4, <3>5, <3>6 DEF SparedFor
  <2> QED BY <2>5, <2>6
<1> QED BY <1>8, <1>9, <1>11, <1>12, <1>13, <1>14, <1>15 DEF IInv
\* Scores are in range, whatever the service sends, and failures live the shortest.
LEMMA ScoreInRange ==
  ASSUME NEW score \in {Failed} \cup {Clamped(raw) : raw \in RawScores}
  PROVE  /\ score \in -1 .. 100
         /\ Lifetime(score) \in Int /\ Lifetime(score) >= Shortest
<1>1. score \in -1 .. 100
  <2>1. CASE score = Failed
    BY <2>1 DEF Failed
  <2>2. CASE \E raw \in RawScores : score = Clamped(raw)
    <3>1. PICK raw \in Int : score = Clamped(raw)
      BY <2>2, ScoreAssumption
    <3> QED BY <3>1 DEF Clamped
  <2> QED BY <2>1, <2>2
<1> QED BY <1>1, ShortestIsShortest DEF Lifetime

\* An entry that has expired can be overwritten: nobody counts on it.
LEMMA OverwriteExpired ==
  ASSUME NEW me, NEW now \in Nat, NEW a \in Public, NEW entry,
         NEW cache \in [Public -> [score : -1 .. 100, expires : Int]],
         me.first \in Seq(Answers),
         Remembers(me, now, cache), now > cache[a].expires
  PROVE  Remembers(me, now, [cache EXCEPT ![a] = entry])
<1> DEFINE new == [cache EXCEPT ![a] = entry]
<1>1. \A ip \in Public : ip # a => new[ip] = cache[ip]
  OBVIOUS
<1> HIDE DEF new
<1>2. ASSUME NEW i \in 1 .. Len(me.first), ~(now > me.first[i].until)
      PROVE  /\ me.batch[i].ip \in Public
             /\ new[me.batch[i].ip]
                  = [score |-> me.first[i].score, expires |-> me.first[i].until]
  <2>1. /\ me.batch[i].ip \in Public
        /\ cache[me.batch[i].ip]
             = [score |-> me.first[i].score, expires |-> me.first[i].until]
    BY <1>2 DEF Remembers
  <2>2. me.batch[i].ip # a
    BY <1>2, <2>1
  <2> QED BY <1>1, <2>1, <2>2
<1>3. Remembers(me, now, new)
  BY <1>2 DEF Remembers
<1> QED BY <1>3 DEF new

\* The answer has come: it is cached, or was paid for by a failed allocation.
LEMMA AbuseAnswerKeeps ==
  ASSUME IInv, NEW w \in Workers, AbuseAnswer(w)
  PROVE  IInv'
<1> DEFINE me == worker[w]
           a == IpOf(me)
<1>0. /\ Types /\ Shapes /\ Turns /\ Clocked /\ GeoTrue /\ GeoFew /\ Spared
      /\ Remembered /\ Agreed
  BY DEF IInv
<1>1. PICK score \in {Failed} \cup {Clamped(raw) : raw \in RawScores} :
        LET expires == me.now + Lifetime(score)
            until   == IF a \in Cacheable /\ faults' = faults THEN expires ELSE -1
        IN  /\ AbusePut(a, score, expires)
            /\ worker' = [worker EXCEPT ![w] = Scored(@, [score |-> score, until |-> until])]
  BY DEF AbuseAnswer, Ip, Event, IpOf
<1> DEFINE expires == me.now + Lifetime(score)
           until == IF a \in Cacheable /\ faults' = faults THEN expires ELSE -1
           answer == [score |-> score, until |-> until]
           entry == [score |-> score, expires |-> expires]
           r == Scored(me, answer)
<1>2. /\ me.pc = "query" /\ holder' = Nobody /\ UNCHANGED <<clock, geo, asked>>
      /\ worker' = [worker EXCEPT ![w] = r]
  BY <1>1 DEF AbuseAnswer
<1>3. \/ /\ abuse' = [abuse EXCEPT ![a] = entry] /\ faults' = faults
         /\ until = expires
      \/ /\ abuse' = abuse /\ faults' = faults + 1 /\ faults < MaxFaults
         /\ abuse[a] = NoScore /\ until = -1
      \/ /\ abuse' = abuse /\ faults' = faults /\ a \notin Cacheable /\ until = -1
  <2>1. AbusePut(a, score, expires)
    BY <1>1
  <2>2. faults \in Int
    BY <1>0, RoomAssumption DEF Types
  <2>3. faults + 1 # faults
    BY <2>2
  <2> QED BY <2>1, <2>3 DEF AbusePut, Cacheable
<1>4. /\ me \in WorkerStates /\ Shape(me) /\ clock \in Nat
      /\ Remembers(me, clock, abuse) /\ Agrees(me, clock)
  BY InHand
<1>5. /\ a \in Public /\ me.now <= clock /\ ~Valid(abuse[a], me.now)
  BY <1>0, <1>2, <1>4 DEF Shape, Clocked
<1>6. /\ score \in -1 .. 100 /\ Lifetime(score) \in Int /\ Lifetime(score) >= Shortest
      /\ me.now \in Nat /\ Shortest \in Int
  BY <1>4, ScoreInRange, ShortestIsShortest DEF WorkerStates
<1>7. /\ expires \in Int /\ expires >= me.now + Shortest
      /\ entry \in [score : -1 .. 100, expires : Int]
      /\ answer \in Answers
  <2>1. expires \in Int /\ expires >= me.now + Shortest /\ until \in Int
    BY <1>6
  <2> HIDE DEF expires, until, me
  <2> QED BY <1>6, <2>1 DEF Answers
<1>8. /\ abuse \in [Public -> [score : -1 .. 100, expires : Int]]
      /\ abuse[a].expires \in Int /\ clock > abuse[a].expires /\ me.now > abuse[a].expires
  <2>1. abuse \in [Public -> [score : -1 .. 100, expires : Int]]
    BY <1>0 DEF Types
  <2>2. abuse[a].expires \in Int
    BY <1>5, <2>1
  <2>3. me.now > abuse[a].expires
    BY <1>5, <1>6, <2>2 DEF Valid
  <2> QED BY <1>4, <1>5, <1>6, <2>1, <2>2, <2>3
<1> HIDE DEF r, entry, expires
<1>9. ASSUME NEW v \in Workers
      PROVE  Remembers(worker[v], clock, abuse')
  <2>1. worker[v].first \in Seq(Answers) /\ Remembers(worker[v], clock, abuse)
    BY <1>0 DEF Types, WorkerStates, Remembered
  <2>2. Remembers(worker[v], clock, [abuse EXCEPT ![a] = entry])
    BY <1>4, <1>5, <1>8, <2>1, OverwriteExpired
  <2> QED BY <1>3, <2>1, <2>2
<1>10. Answered(me, answer, clock, abuse')
  <2>1. \/ clock > answer.until
        \/ abuse'[a] = [score |-> answer.score, expires |-> answer.until]
    <3>1. CASE abuse' = [abuse EXCEPT ![a] = entry] /\ until = expires
      <4>1. abuse'[a] = entry
        BY <1>5, <1>8, <3>1
      <4> QED BY <3>1, <4>1 DEF entry
    <3>2. CASE until = -1
      BY <1>4, <3>2
    <3> QED BY <1>3, <3>1, <3>2
  <2>2. ASSUME me.judging
        PROVE  clock > me.first[me.pos].until
    <3>1. me.pos \in 1 .. Len(me.first)
      BY <1>2, <1>4, <2>2 DEF Shape, Asking
    <3>2. \/ clock > me.first[me.pos].until
          \/ abuse[a] = [score |-> me.first[me.pos].score, expires |-> me.first[me.pos].until]
      BY <1>4, <3>1 DEF Remembers, IpOf
    <3> QED BY <1>8, <3>2
  <2> HIDE DEF answer, until
  <2> QED BY <1>5, <2>1, <2>2 DEF Answered
<1> HIDE DEF answer, until
<1>11. /\ Shape(r) /\ Remembers(r, clock, abuse') /\ Agrees(r, clock)
       /\ r.pc \in {"geo", "post", "judge", "done"} /\ r \in WorkerStates
  <2>1. me.pc \in Asking
    BY <1>2 DEF Asking
  <2>2. Remembers(me, clock, abuse')
    BY <1>9
  <2>3. /\ Shape(r) /\ Remembers(r, clock, abuse') /\ Agrees(r, clock)
        /\ r.pc \in {"geo", "post", "judge", "done"}
    <3> HIDE DEF me
    <3> QED BY <1>4, <1>7, <1>10, <2>1, <2>2, ScoredKeeps DEF r
  <2> QED BY <2>3 DEF Shape
<1>12. /\ worker' \in [Workers -> WorkerStates] /\ worker'[w] = r
       /\ \A v \in Workers : v # w => worker'[v] = worker[v]
  BY <1>0, <1>2, <1>11, OneMoves
<1>13. Types'
  <2>1. abuse' \in [Public -> [score : -1 .. 100, expires : Int]]
    <3> HIDE DEF a
    <3> QED BY <1>3, <1>5, <1>7, <1>8
  <2>2. faults' \in 0 .. MaxFaults
    <3>1. faults \in 0 .. MaxFaults /\ MaxFaults \in Nat
      BY <1>0, RoomAssumption DEF Types
    <3> QED BY <1>3, <3>1
  <2> QED BY <1>0, <1>2, <1>12, <2>1, <2>2 DEF Types
<1>14. Shapes' /\ Remembered' /\ Agreed'
  <2>1. ASSUME NEW v \in Workers
        PROVE  /\ Shape(worker'[v]) /\ Remembers(worker'[v], clock, abuse')
               /\ Agrees(worker'[v], clock)
    <3>1. CASE v = w
      BY <1>11, <1>12, <3>1
    <3>2. CASE v # w
      BY <1>0, <1>9, <1>12, <3>2 DEF Shapes, Agreed
    <3> QED BY <3>1, <3>2
  <2>2. clock' = clock
    BY <1>2
  <2> QED BY <2>1, <2>2 DEF Shapes, Remembered, Agreed
<1>15. \A v \in Workers : v # w => worker[v].pc # "query" /\ worker'[v] = worker[v]
  BY <1>0, <1>2, <1>12 DEF Turns
<1>16. Turns' /\ Clocked'
  <2>1. \A v \in Workers : worker'[v].pc # "query" /\ v # Nobody
    BY <1>11, <1>12, <1>15, WorkersAssumption
  <2>2. Turns'
    BY <1>2, <2>1 DEF Turns
  <2>3. ASSUME NEW v \in Workers, worker'[v].pc = "lock"
        PROVE  worker'[v].now <= clock
    <3>1. v # w
      BY <1>11, <1>12, <2>3
    <3> QED BY <1>0, <1>15, <2>3, <3>1 DEF Clocked
  <2>4. clock' = clock
    BY <1>2
  <2> QED BY <2>1, <2>2, <2>3, <2>4 DEF Clocked
<1>17. GeoTrue'
  BY <1>0, <1>2 DEF GeoTrue
<1>18. GeoFew'
  <2>1. ASSUME NEW ip \in Public
        PROVE  Entries(ip)' = Entries(ip) /\ Putting(ip)' = Putting(ip)
    <3>1. Putting(ip)' = Putting(ip)
      BY <1>0, <1>2, <1>11, PuttingKept
    <3> QED BY <1>2, <3>1 DEF Entries
  <2> QED BY <1>0, <2>1 DEF GeoFew
<1>19. Spared'
  <2> SUFFICES ASSUME Shortest >= 0, NEW ip \in Cacheable
               PROVE  SparedFor(ip, Surplus(ip))'
    BY DEF Spared, Shortest
  <2>p. ip \in Public
    BY CacheableArePublic
  <2> DEFINE k == Surplus(ip)
  <2>1. \A v \in Workers : ~Querying(v, ip)'
    BY <1>11, <1>12, <1>15 DEF Querying
  <2>2. /\ k \in Int /\ Surplus(ip)' = k - (faults' - faults)
        /\ faults' - faults \in {0, 1}
    <3>1. faults \in Int /\ asked[ip] \in Int
      BY <1>0, RoomAssumption DEF Types
    <3> QED BY <1>2, <1>3, <3>1 DEF Surplus
  <2>3. SparedFor(ip, k)
    BY <1>0 DEF Spared
  <2>4. /\ k - 1 \in Int /\ Floor(k) \in Int /\ Floor(k - 1) \in Int
        /\ Floor(k) = Floor(k - 1) + Shortest + 1
    BY <2>2, FloorStep
  <2>5. SparedFor(ip, k - 1)
    BY <1>0, <2>2, <2>3, LessSurplus
  <2> HIDE DEF k
  <2>6. Shortest' = Shortest /\ \A j : Floor(j)' = Floor(j)
    BY DEF Floor, Shortest
  <2>7. CASE ip = a
    <3>1. Querying(w, ip)
      BY <1>2, <2>7 DEF Querying
    <3>2. /\ Floor(k) <= clock /\ me.now >= Floor(k)
          /\ abuse[ip].expires >= Floor(k - 1) + Shortest
      BY <2>3, <3>1 DEF SparedFor
    <3>3. CASE abuse' = [abuse EXCEPT ![a] = entry] /\ faults' = faults
      <4>1. Surplus(ip)' = k
        <5>1. faults \in Int
          BY <1>0, RoomAssumption DEF Types
        <5> QED BY <2>2, <3>3, <5>1
      <4>2. abuse'[ip].expires = expires
        <5>1. abuse'[ip] = entry
          BY <1>5, <1>8, <2>7, <3>3
        <5> QED BY <5>1 DEF entry
      <4>3. abuse'[ip].expires >= Floor(k) + Shortest
        BY <1>6, <1>7, <2>4, <3>2, <4>2
      <4> QED BY <1>2, <2>1, <2>6, <3>2, <4>1, <4>3 DEF SparedFor
    <3>4. CASE abuse' = abuse /\ faults' = faults + 1
      <4>1. Surplus(ip)' = k - 1
        <5>1. faults \in Int
          BY <1>0, RoomAssumption DEF Types
        <5> QED BY <2>2, <3>4, <5>1
      <4>2. Floor(k - 1) <= clock
        BY <2>5 DEF SparedFor
      <4> QED BY <1>2, <2>1, <2>6, <3>2, <3>4, <4>1, <4>2 DEF SparedFor
    <3> QED BY <1>3, <2>7, <3>3, <3>4
  <2>8. CASE ip # a
    <3>1. abuse'[ip] = abuse[ip]
      BY <1>3, <1>5, <1>8, <2>8, <2>p
    <3>2. \A v \in Workers : ~Querying(v, ip)
      BY <1>2, <1>15, <2>8 DEF Querying
    <3>3. ASSUME NEW j \in {k, k - 1}
          PROVE  Floor(j) <= clock /\ abuse[ip].expires >= Floor(j) + Shortest
      BY <2>3, <2>5, <3>2 DEF SparedFor
    <3>4. Surplus(ip)' \in {k, k - 1}
      BY <2>2
    <3> DEFINE j == Surplus(ip)'
    <3>5. Floor(j) <= clock /\ abuse[ip].expires >= Floor(j) + Shortest
      BY <3>3, <3>4
    <3>6. (Floor(Surplus(ip)))' = Floor(j)
      BY DEF Floor
    <3> HIDE DEF j
    <3> QED BY <1>2, <2>1, <3>1, <3>5, <3>6 DEF SparedFor
  <2> QED BY <2>7, <2>8
<1> QED BY <1>13, <1>14, <1>16, <1>17, <1>18, <1>19 DEF IInv
(***************************************************************************)
(* The theorems.                                                           *)
(***************************************************************************)
\* Both caches start empty and every worker idle.
LEMMA InitInvariant == Init => IInv
<1> SUFFICES ASSUME Init PROVE IInv
  OBVIOUS
<1>0. \A w \in Workers : worker[w] = IdleWorker
  BY DEF Init
<1>1. /\ IdleWorker.pc = "idle" /\ IdleWorker.first = <<>> /\ IdleWorker.second = <<>>
  BY DEF IdleWorker
<1>2. Types
  <2>1. worker \in [Workers -> WorkerStates]
    BY <1>0, IdleWorkerShape DEF Init
  <2>2. abuse \in [Public -> [score : -1 .. 100, expires : Int]] /\ asked \in [Cacheable -> Nat]
    BY DEF Init, NoScore
  <2>3. geo \in Seq([ip : Public, res : GeoAnswers])
    BY DEF Init
  <2>4. clock \in 0 .. MaxTime /\ faults \in 0 .. MaxFaults
    BY RoomAssumption DEF Init
  <2> QED BY <2>1, <2>2, <2>3, <2>4 DEF Types, Init
<1>3. Shapes /\ Remembered /\ Agreed
  BY <1>0, IdleWorkerShape DEF Shapes, Remembered, Agreed
<1>4. Turns
  BY <1>0, <1>1, WorkersAssumption DEF Turns, Init
<1>5. Clocked
  BY <1>0, <1>1 DEF Clocked
<1>6. GeoTrue
  BY DEF GeoTrue, Init
<1>7. GeoFew
  <2>1. ASSUME NEW ip \in Public
        PROVE  Entries(ip) = {} /\ Putting(ip) = {}
    BY <1>0, <1>1 DEF Entries, Putting, Init
  <2>2. Cardinality({}) = 0 /\ Cardinality(Workers) \in Nat
    BY WorkersAssumption, FS_EmptySet, FS_CardinalityType
  <2> QED BY <2>1, <2>2 DEF GeoFew
<1>8. Spared
  <2>1. ASSUME Shortest >= 0, NEW ip \in Cacheable PROVE SparedFor(ip, Surplus(ip))
    <3>1. Surplus(ip) = -1 /\ abuse[ip].expires = -1 /\ clock = 0
      BY CacheableArePublic DEF Surplus, Init, NoScore
    <3>2. Floor(-1) = -1 - Shortest
      BY ShortestIsShortest DEF Floor
    <3>3. \A w \in Workers : ~Querying(w, ip)
      BY <1>0, <1>1 DEF Querying
    <3>4. Floor(-1) <= 0 /\ -1 >= Floor(-1) + Shortest
      BY <2>1, <3>2, ShortestIsShortest
    <3> QED BY <3>1, <3>3, <3>4 DEF SparedFor
  <2> QED BY <2>1 DEF Spared
<1> QED BY <1>2, <1>3, <1>4, <1>5, <1>6, <1>7, <1>8 DEF IInv

\* Every step keeps it.
LEMMA NextKeeps == IInv /\ [Next]_vars => IInv'
<1> SUFFICES ASSUME IInv, [Next]_vars PROVE IInv'
  OBVIOUS
<1>1. CASE UNCHANGED vars
  BY <1>1 DEF vars, IInv, Types, Shapes, Turns, Clocked, GeoTrue, GeoFew, Entries, Putting,
              Spared, SparedFor, Surplus, Floor, Shortest, Querying, Remembered, Agreed, Valid
<1>2. ASSUME NEW w \in Workers,
             TakeMessage(w) \/ Proceeds(w) \/ AbuseHit(w) \/ AbuseMiss(w)
      PROVE  IInv'
  BY <1>2, TakeMessageKeeps, NoRoomKeeps, GeoHitKeeps, GeoMissKeeps, GeoPutKeeps,
     AbuseCallKeeps, AbuseHitKeeps, AbuseMissKeeps, AbuseAnswerKeeps, PostOkKeeps, EndKeeps,
     JudgeHighKeeps, JudgeLowKeeps DEF Proceeds
<1>3. CASE Tick
  BY <1>3, TickKeeps
<1> QED BY <1>1, <1>2, <1>3 DEF Next

\* The invariant that the others follow from.
THEOREM EnrichmentInvariant == Spec => []IInv
<1>1. Init => IInv
  BY InitInvariant
<1>2. IInv /\ [Next]_vars => IInv'
  BY NextKeeps
<1> QED BY <1>1, <1>2, PTL DEF Spec

\* Every variable keeps to its values; a score is a number from -1 to 100 whatever
\* the service sends.
THEOREM TypeCorrect == Spec => []TypeOK
<1>1. IInv => TypeOK
  <2> SUFFICES ASSUME IInv PROVE TypeOK
    OBVIOUS
  <2>1. Types
    BY DEF IInv
  <2>2. ASSUME NEW w \in Workers
        PROVE  /\ worker[w].pc \in Places
               /\ worker[w].first \in Seq(Answers) /\ worker[w].second \in Seq(Answers)
               /\ worker[w].used \in Nat /\ worker[w].pos \in Nat
    BY <2>1 DEF Types, WorkerStates
  <2>3. geo \in Seq([ip : Public, res : [geo : BOOLEAN, asn : BOOLEAN]])
    BY <2>1 DEF Types, GeoAnswers
  <2> QED BY <2>1, <2>2, <2>3 DEF Types, TypeOK, Places
<1> QED BY <1>1, EnrichmentInvariant, PTL

\* AbuseIPDB is asked about an address once in Shortest + 1 seconds at most, however
\* many workers meet it, plus once for every entry that found no memory.
THEOREM ApiHammeredNever == Spec => []ApiSpared
<1>1. IInv => ApiSpared
  <2> SUFFICES ASSUME IInv, Shortest >= 0, NEW ip \in Cacheable
               PROVE  asked[ip] <= 1 + clock \div (Shortest + 1) + faults
    BY DEF ApiSpared
  <2>1. asked[ip] \in Int /\ faults \in Int /\ clock \in Nat
    BY RoomAssumption DEF IInv, Types
  <2>2. Surplus(ip) \in Int
    BY <2>1 DEF Surplus
  <2>3. Floor(Surplus(ip)) <= clock
    BY DEF IInv, Spared, SparedFor
  <2>4. Surplus(ip) <= clock \div (Shortest + 1)
    BY <2>1, <2>2, <2>3, FloorBounds
  <2>5. clock \div (Shortest + 1) \in Int
    BY <2>1, ShortestIsShortest
  <2> QED BY <2>1, <2>4, <2>5 DEF Surplus
<1> QED BY <1>1, EnrichmentInvariant, PTL

\* Two lookups of one address at once leave duplicates in the GeoIP cache, each what
\* the database says, and no more than there are workers.
THEOREM GeoRaceHarmless == Spec => []GeoTellsDatabase
<1>1. IInv => GeoTellsDatabase
  <2> SUFFICES ASSUME IInv PROVE GeoTellsDatabase
    OBVIOUS
  <2>1. GeoTrue /\ GeoFew /\ geo \in Seq([ip : Public, res : GeoAnswers])
    BY DEF IInv, Types
  <2>2. ASSUME NEW ip \in Public
        PROVE  Cardinality({i \in DOMAIN geo : geo[i].ip = ip}) <= Cardinality(Workers)
    <3> DEFINE E == Entries(ip)
               P == Putting(ip)
    <3>1. E \in SUBSET (1 .. Len(geo)) /\ Len(geo) \in Nat /\ P \in SUBSET Workers
      BY <2>1, LenProperties DEF Entries, Putting
    <3>2. Cardinality(E) + Cardinality(P) <= Cardinality(Workers)
      BY <2>1 DEF GeoFew
    <3>3. Cardinality({i \in DOMAIN geo : geo[i].ip = ip}) = Cardinality(E)
      BY DEF Entries
    <3> HIDE DEF E, P
    <3>4. IsFiniteSet(E) /\ IsFiniteSet(P)
      <4>1. IsFiniteSet(1 .. Len(geo))
        BY <3>1, FS_Interval
      <4> QED BY <3>1, <4>1, WorkersAssumption, FS_Subset
    <3>5. /\ Cardinality(E) \in Nat /\ Cardinality(P) \in Nat /\ Cardinality(Workers) \in Nat
      BY <3>4, WorkersAssumption, FS_CardinalityType
    <3>6. Cardinality(E) <= Cardinality(Workers)
      BY <3>2, <3>5
    <3> QED BY <3>3, <3>6
  <2> QED BY <2>1, <2>2 DEF GeoTellsDatabase, GeoTrue
<1> QED BY <1>1, EnrichmentInvariant, PTL

\* An event is judged by the score its point was written with, unless that score has
\* expired in between or was never cached.
THEOREM JudgedAsWritten == Spec => []ScoresAgree
<1>1. IInv => ScoresAgree
  <2> SUFFICES ASSUME IInv, NEW w \in Workers, NEW i \in DOMAIN worker[w].second
               PROVE  LET me == worker[w] IN
                      \/ me.batch[i].high
                      \/ me.second[i].score = me.first[i].score
                      \/ clock > me.first[i].until
    BY DEF ScoresAgree
  <2>1. worker[w].second \in Seq(Answers) /\ Agrees(worker[w], clock)
    BY DEF IInv, Types, WorkerStates, Agreed
  <2>2. i \in 1 .. Len(worker[w].second)
    BY <2>1, LenProperties
  <2> QED BY <2>1, <2>2 DEF Agrees
<1> QED BY <1>1, EnrichmentInvariant, PTL
(***************************************************************************)
(* The text that is posted.  What follows rests on the invariant above: a  *)
(* worker in build_traffic_point knows of GeoIP what the database says.    *)
(***************************************************************************)
GeoOf(ip) == IF ip \in Private THEN NoGeo ELSE GeoDb[ip]

\* Until the points are posted, the text is whole for every event that first has an
\* answer for; a score is waited for with the answer of the database at hand.
Text(me) ==
  /\ me.pc \in {"geo", "geoPut", "post"} \/ (me.pc \in Asking /\ ~me.judging)
       => WholeText(me, Len(me.first))
  /\ me.pc \in Asking /\ ~me.judging => me.out = GeoOf(IpOf(me))

Texts == \A w \in Workers : Text(worker[w])

\* An event without a line: it did not fit behind the lines there are.
LEMMA TextSkips ==
  ASSUME NEW me \in WorkerStates, NEW n \in Nat, WholeText(me, n), Len(me.first) = n,
         NEW x \in WorkerStates, NEW answer \in Answers, x.first = Append(me.first, answer),
         x.batch = me.batch, x.used = me.used, x.points = me.points,
         me.used + LineSize(x, n + 1) >= LpCap
  PROVE  WholeText(x, n + 1)
<1> DEFINE p == me.points  L == Len(me.points)
<1>0. /\ L \in Nat /\ p \in Seq(Lines) /\ me.first \in Seq(Answers)
      /\ \A k \in 1 .. L : p[k] \in Lines
  BY LenProperties, ElementOfSeq DEF WorkerStates
<1>1. \A i \in 1 .. n : x.first[i] = me.first[i]
  BY <1>0, AppendProperties
<1>2. \A i \in 1 .. n : LineSize(x, i) = LineSize(me, i)
  BY <1>1 DEF LineSize
<1>3. \A k : LineStart(x, k) = LineStart(me, k)
  BY DEF LineStart
<1>4. /\ me.used = LineStart(me, L + 1) /\ me.used < LpCap
      /\ \A k \in 1 .. L : /\ p[k].pos \in 1 .. n
                           /\ p[k].end = LineStart(me, k) + LineSize(me, p[k].pos)
      /\ \A j, k \in 1 .. L : j < k => p[j].pos < p[k].pos
  BY DEF WholeText
<1>5. ASSUME NEW i \in 1 .. n + 1
      PROVE  \/ \E k \in 1 .. L : p[k].pos = i
             \/ \E k \in 1 .. L + 1 : /\ \A j \in 1 .. L : p[j].pos < i <=> j < k
                                      /\ LineStart(x, k) + LineSize(x, i) >= LpCap
  <2>1. CASE i = n + 1
    <3>1. L + 1 \in 1 .. L + 1 /\ \A j \in 1 .. L : p[j].pos < n + 1 /\ j < L + 1
      BY <1>0, <1>4
    <3>2. LineStart(x, L + 1) + LineSize(x, n + 1) >= LpCap
      BY <1>3, <1>4
    <3> QED BY <2>1, <3>1, <3>2
  <2>2. CASE i # n + 1
    <3>1. i \in 1 .. n
      BY <2>2
    <3>2. \/ \E k \in 1 .. L : p[k].pos = i
          \/ \E k \in 1 .. L + 1 : /\ \A j \in 1 .. L : p[j].pos < i <=> j < k
                                   /\ LineStart(me, k) + LineSize(me, i) >= LpCap
      BY <3>1 DEF WholeText
    <3> QED BY <1>2, <1>3, <3>1, <3>2
  <2> QED BY <2>1, <2>2
<1>6. \A k \in 1 .. L : /\ p[k].pos \in 1 .. n + 1
                        /\ p[k].end = LineStart(x, k) + LineSize(x, p[k].pos)
  BY <1>2, <1>3, <1>4
<1>7. x.used = LineStart(x, L + 1) /\ x.used < LpCap
  BY <1>3, <1>4
<1>8. x.points = p /\ Len(x.points) = L
  OBVIOUS
<1> HIDE DEF p, L
<1> QED BY <1>4, <1>5, <1>6, <1>7, <1>8 DEF WholeText

\* An event whose line fits.
LEMMA TextGrows ==
  ASSUME NEW me \in WorkerStates, NEW n \in Nat, WholeText(me, n), Len(me.first) = n,
         NEW x \in WorkerStates, NEW answer \in Answers, x.first = Append(me.first, answer),
         x.batch = me.batch, NEW size \in Nat, size = LineSize(x, n + 1),
         x.used = me.used + size, me.used + size < LpCap,
         x.points = Append(me.points, [pos |-> n + 1, end |-> me.used + size])
  PROVE  WholeText(x, n + 1)
<1> DEFINE p == me.points  L == Len(me.points)  q == x.points
           line == [pos |-> n + 1, end |-> me.used + size]
<1>0. /\ L \in Nat /\ p \in Seq(Lines) /\ me.first \in Seq(Answers)
      /\ \A k \in 1 .. L : p[k] \in Lines
      /\ me.used \in Nat
  BY LenProperties, ElementOfSeq DEF WorkerStates
<1>l. line \in Lines
  BY <1>0 DEF Lines
<1>q. /\ Len(q) = L + 1 /\ q[L + 1] = line
      /\ \A k \in 1 .. L : q[k] = p[k]
  BY <1>0, <1>l, AppendProperties
<1>e. line.pos = n + 1 /\ line.end = me.used + size
  OBVIOUS
<1>1. \A i \in 1 .. n : x.first[i] = me.first[i]
  BY <1>0, AppendProperties
<1>2. \A i \in 1 .. n : LineSize(x, i) = LineSize(me, i)
  BY <1>1 DEF LineSize
<1> HIDE DEF line
<1>3. \A k \in 1 .. L + 1 : LineStart(x, k) = LineStart(me, k)
  <2>1. \A k \in 1 .. L + 1 : k # 1 => k - 1 \in 1 .. L
    BY <1>0
  <2> HIDE DEF L
  <2> QED BY <1>q, <2>1 DEF LineStart
<1>4. /\ me.used = LineStart(me, L + 1) /\ me.used < LpCap
      /\ \A k \in 1 .. L : /\ p[k].pos \in 1 .. n
                           /\ p[k].end = LineStart(me, k) + LineSize(me, p[k].pos)
      /\ \A j, k \in 1 .. L : j < k => p[j].pos < p[k].pos
  BY DEF WholeText
<1>5. ASSUME NEW i \in 1 .. n + 1
      PROVE  \/ \E k \in 1 .. L + 1 : q[k].pos = i
             \/ \E k \in 1 .. L + 2 : /\ \A j \in 1 .. L + 1 : q[j].pos < i <=> j < k
                                      /\ LineStart(x, k) + LineSize(x, i) >= LpCap
  <2>1. CASE i = n + 1
    <3>1. L + 1 \in 1 .. L + 1 /\ q[L + 1].pos = i
      BY <1>0, <1>q, <1>e, <2>1
    <3> HIDE DEF L, q
    <3> QED BY <3>1
  <2>2. CASE i # n + 1
    <3>1. i \in 1 .. n
      BY <2>2
    <3>2. CASE \E k \in 1 .. L : p[k].pos = i
      <4>1. PICK k \in 1 .. L : p[k].pos = i
        BY <3>2
      <4>2. k \in 1 .. L + 1 /\ q[k].pos = i
        BY <1>0, <1>q, <4>1
      <4> QED BY <4>2
    <3>3. CASE \E k \in 1 .. L + 1 : /\ \A j \in 1 .. L : p[j].pos < i <=> j < k
                                     /\ LineStart(me, k) + LineSize(me, i) >= LpCap
      <4>1. PICK k \in 1 .. L + 1 : /\ \A j \in 1 .. L : p[j].pos < i <=> j < k
                                    /\ LineStart(me, k) + LineSize(me, i) >= LpCap
        BY <3>3
      <4>2. ASSUME NEW j \in 1 .. L + 1  PROVE  q[j].pos < i <=> j < k
        <5>1. CASE j \in 1 .. L
          BY <4>1, <5>1, <1>q
        <5>2. CASE j = L + 1
          <6>1. q[j].pos = n + 1
            BY <5>2, <1>q, <1>e
          <6>2. ~(n + 1 < i) /\ ~(j < k)
            BY <1>0, <3>1, <5>2, <4>1
          <6> QED BY <6>1, <6>2
        <5> QED BY <5>1, <5>2, <1>0
      <4>3. LineStart(x, k) + LineSize(x, i) >= LpCap
        BY <1>2, <1>3, <3>1, <4>1
      <4>4. k \in 1 .. L + 2
        BY <1>0, <4>1
      <4> QED BY <4>2, <4>3, <4>4
    <3> QED BY <3>1, <3>2, <3>3 DEF WholeText
  <2> QED BY <2>1, <2>2
<1>6. ASSUME NEW k \in 1 .. L + 1
      PROVE  q[k].pos \in 1 .. n + 1 /\ q[k].end = LineStart(x, k) + LineSize(x, q[k].pos)
  <2>1. CASE k \in 1 .. L
    <3>1. q[k] = p[k] /\ p[k].pos \in 1 .. n /\ p[k].pos \in 1 .. n + 1
      BY <2>1, <1>q, <1>4
    <3>2. p[k].end = LineStart(me, k) + LineSize(me, p[k].pos)
      BY <2>1, <1>4
    <3>3. LineStart(x, k) = LineStart(me, k) /\ LineSize(x, p[k].pos) = LineSize(me, p[k].pos)
      BY <3>1, <1>2, <1>3
    <3> QED BY <3>1, <3>2, <3>3
  <2>2. CASE k = L + 1
    <3>1. q[k] = line /\ n + 1 \in 1 .. n + 1
      BY <2>2, <1>q
    <3>2. LineStart(x, k) = me.used
      BY <2>2, <1>3, <1>4
    <3> QED BY <3>1, <3>2, <1>e
  <2> QED BY <2>1, <2>2, <1>0
<1>7. ASSUME NEW j \in 1 .. L + 1, NEW k \in 1 .. L + 1, j < k
      PROVE  q[j].pos < q[k].pos
  <2>1. j \in 1 .. L
    BY <1>0, <1>7
  <2>2. q[j] = p[j] /\ p[j].pos \in 1 .. n
    BY <2>1, <1>q, <1>4
  <2>3. CASE k = L + 1
    <3>1. q[k].pos = n + 1
      BY <2>3, <1>q, <1>e
    <3>2. q[j].pos \in 1 .. n
      BY <2>2
    <3> HIDE DEF q, L
    <3> QED BY <3>1, <3>2
  <2>4. CASE k # L + 1
    <3>1. k \in 1 .. L
      BY <1>0, <2>4
    <3> QED BY <1>7, <2>1, <2>2, <3>1, <1>q, <1>4
  <2> QED BY <2>3, <2>4
<1>8. x.used = LineStart(x, L + 2) /\ x.used < LpCap
  <2>1. L + 2 # 1 /\ (L + 2) - 1 = L + 1
    BY <1>0
  <2>2. LineStart(x, L + 2) = q[L + 1].end
    BY <2>1 DEF LineStart
  <2> QED BY <2>2, <1>q, <1>e
<1>9. Len(q) = L + 1 /\ (L + 1) + 1 = L + 2
  BY <1>0, <1>q
<1> HIDE DEF p, L
<1> QED BY <1>5, <1>6, <1>7, <1>8, <1>9 DEF WholeText

\* The text is in four fields of a worker's record.
LEMMA SameText ==
  ASSUME NEW me, NEW x, NEW n, WholeText(me, n),
         x.batch = me.batch, x.first = me.first, x.used = me.used, x.points = me.points
  PROVE  WholeText(x, n)
<1>1. \A i : LineSize(x, i) = LineSize(me, i) /\ LineStart(x, i) = LineStart(me, i)
  BY DEF LineSize, LineStart
<1> QED BY <1>1 DEF WholeText

\* On to the next point, or to the POST.
LEMMA NextPointText ==
  ASSUME NEW x \in WorkerStates, WholeText(x, Len(x.first))
  PROVE  Text(NextPoint(x))
<1> DEFINE r == NextPoint(x)
<1>1. /\ r.pc \in {"geo", "post"} /\ r.batch = x.batch /\ r.first = x.first
      /\ r.used = x.used /\ r.points = x.points
  BY DEF NextPoint, WorkerStates
<1> HIDE DEF r
<1>2. WholeText(r, Len(r.first))
  BY <1>1, SameText
<1> QED BY <1>1, <1>2 DEF Text, Asking, r

\* A line's size is that of what was known when it was built.
LEMMA LineOfAnswer ==
  ASSUME NEW me \in WorkerStates, Len(me.first) = me.pos - 1, NEW answer \in Answers,
         NEW x, x.batch = me.batch, x.first = Append(me.first, answer)
  PROVE  LineSize(x, me.pos) = PointSize(GeoOf(IpOf(me)), answer.score)
<1>1. me.first \in Seq(Answers) /\ me.pos \in Nat /\ Len(me.first) + 1 = me.pos
  BY DEF WorkerStates
<1>2. x.first[me.pos] = answer
  BY <1>1, AppendProperties
<1> QED BY <1>2 DEF LineSize, GeoOf, IpOf

\* AbuseIPDB has answered.
LEMMA ScoredText ==
  ASSUME NEW me, NEW answer \in Answers, Shape(me), me.pc \in Asking, Text(me)
  PROVE  Text(Scored(me, answer))
<1>0. /\ me \in WorkerStates /\ me.pos \in 1 .. Len(me.batch) /\ me.pos \in Nat
      /\ me.first \in Seq(Answers) /\ me.second \in Seq(Answers) /\ me.judging \in BOOLEAN
      /\ me.used \in Nat /\ me.points \in Seq(Lines) /\ 0 \in Nat
  BY DEF Shape, WorkerStates, Asking
<1>1. CASE me.judging
  <2> DEFINE x == [me EXCEPT !.second = Append(@, answer), !.now = 0]
             r == NextJudged(x)
  <2>1. Scored(me, answer) = r
    BY <1>1 DEF Scored
  <2>2. Append(me.second, answer) \in Seq(Answers)
    BY <1>0, AppendProperties
  <2>3. x \in WorkerStates
    BY <1>0, <2>2 DEF WorkerStates
  <2> HIDE DEF x
  <2>4. r.pc \in {"judge", "done"}
    BY <2>3 DEF NextJudged, WorkerStates
  <2> HIDE DEF r
  <2> QED BY <2>1, <2>4 DEF Text, Asking
<1>2. CASE ~me.judging
  <2> DEFINE size == PointSize(me.out, answer.score)
             line == [pos |-> me.pos, end |-> me.used + size]
             heard == [me EXCEPT !.first = Append(@, answer), !.now = 0]
             wrote == [heard EXCEPT !.points = Append(@, line), !.used = @ + size]
             n == me.pos - 1
  <2>1. Len(me.first) = n /\ n \in Nat /\ me.pos = n + 1
    BY <1>0, <1>2 DEF Shape, Asking
  <2>2. WholeText(me, n) /\ me.out = GeoOf(IpOf(me))
    BY <1>2, <2>1 DEF Text
  <2>3. /\ Append(me.first, answer) \in Seq(Answers)
        /\ Len(Append(me.first, answer)) = n + 1
    BY <1>0, <2>1, AppendProperties
  <2>4. /\ heard \in WorkerStates /\ heard.batch = me.batch
        /\ heard.first = Append(me.first, answer)
        /\ heard.points = me.points /\ heard.used = me.used
    BY <1>0, <2>3 DEF WorkerStates
  <2>5. size \in Nat /\ me.used + size \in Nat
    BY <1>0, SizesAreNat
  <2>6. Append(me.points, line) \in Seq(Lines)
    <3>1. line \in Lines
      BY <1>0, <2>5 DEF Lines
    <3> QED BY <1>0, <3>1, AppendProperties
  <2>7. Scored(me, answer) = IF Fits(me.used, size) THEN NextPoint(wrote) ELSE NextPoint(heard)
    BY <1>2 DEF Scored
  <2>8. size = PointSize(GeoOf(IpOf(me)), answer.score)
    BY <2>2
  <2>l. line = [pos |-> n + 1, end |-> me.used + size]
    BY <2>1
  <2> HIDE DEF heard, size, n, line
  <2>9. /\ wrote \in WorkerStates /\ wrote.batch = me.batch
        /\ wrote.first = Append(me.first, answer) /\ wrote.points = Append(me.points, line)
        /\ wrote.used = me.used + size
    BY <2>4, <2>5, <2>6 DEF WorkerStates
  <2> HIDE DEF wrote
  <2>10. LineSize(heard, n + 1) = size /\ LineSize(wrote, n + 1) = size
    BY <1>0, <2>1, <2>4, <2>8, <2>9, LineOfAnswer DEF n
  <2>11. CASE Fits(me.used, size)
    <3>1. me.used + size < LpCap
      BY <2>11 DEF Fits
    <3>2. WholeText(wrote, n + 1)
      BY <1>0, <2>1, <2>2, <2>5, <2>9, <2>10, <2>l, <3>1, TextGrows
    <3> QED BY <2>3, <2>7, <2>9, <2>11, <3>2, NextPointText
  <2>12. CASE ~Fits(me.used, size)
    <3>1. me.used + size >= LpCap
      BY <1>0, <2>5, <2>12, RoomAssumption DEF Fits
    <3>2. WholeText(heard, n + 1)
      BY <1>0, <2>1, <2>2, <2>4, <2>10, <3>1, TextSkips
    <3> QED BY <2>3, <2>4, <2>7, <2>12, <3>2, NextPointText
  <2> QED BY <2>11, <2>12
<1> QED BY <1>0, <1>1, <1>2

\* An event is given up before its score is known.
LEMMA GivenUpText ==
  ASSUME NEW me \in WorkerStates, me.pc \in {"geo", "geoPut"}, Shape(me), Text(me),
         me.used + PointSize(GeoOf(IpOf(me)), Failed) >= LpCap
  PROVE  Text(NextPoint([me EXCEPT !.first = Append(@, NoAnswer)]))
<1> DEFINE x == [me EXCEPT !.first = Append(@, NoAnswer)]  n == me.pos - 1
<1>1. /\ me.first \in Seq(Answers) /\ me.pos \in Nat /\ Len(me.first) = n /\ n \in Nat
      /\ me.pos = n + 1 /\ WholeText(me, n)
  BY DEF Shape, WorkerStates, Text
<1>2. Append(me.first, NoAnswer) \in Seq(Answers) /\ Len(Append(me.first, NoAnswer)) = n + 1
  BY <1>1, NoAnswerIsAnswer, AppendProperties
<1>3. /\ x \in WorkerStates /\ x.batch = me.batch /\ x.first = Append(me.first, NoAnswer)
      /\ x.points = me.points /\ x.used = me.used
  BY <1>2 DEF WorkerStates
<1> HIDE DEF x, n
<1>4. LineSize(x, n + 1) = PointSize(GeoOf(IpOf(me)), Failed)
  <2>1. NoAnswer.score = Failed
    BY DEF NoAnswer
  <2> QED BY <1>1, <1>3, <2>1, NoAnswerIsAnswer, LineOfAnswer DEF n
<1>5. WholeText(x, n + 1)
  BY <1>1, <1>3, <1>4, NoAnswerIsAnswer, TextSkips
<1> QED BY <1>2, <1>3, <1>5, NextPointText DEF x

\* GeoIP has answered.
LEMMA GeoKnownText ==
  ASSUME NEW me, Shape(me), me.pc \in {"geo", "geoPut"}, Text(me)
  PROVE  Text(GeoKnown(me, GeoOf(IpOf(me))))
<1> DEFINE out == GeoOf(IpOf(me))
<1>0. me \in WorkerStates /\ me.used \in Nat /\ ~me.judging
  BY DEF Shape, WorkerStates
<1>1. CASE Fits(me.used, HeadSize(out))
  <2> DEFINE r == [me EXCEPT !.pc = "score", !.out = out]
  <2>1. /\ r.pc = "score" /\ r.pos = me.pos /\ r.batch = me.batch /\ r.first = me.first
        /\ r.used = me.used /\ r.points = me.points /\ r.out = out
    BY <1>0 DEF WorkerStates
  <2>2. GeoKnown(me, out) = r
    BY <1>1 DEF GeoKnown
  <2> HIDE DEF r
  <2>3. WholeText(r, Len(r.first))
    BY <2>1, SameText DEF Text
  <2>4. r.out = GeoOf(IpOf(r))
    BY <2>1 DEF IpOf
  <2> QED BY <2>1, <2>2, <2>3, <2>4 DEF Text, Asking
<1>2. CASE ~Fits(me.used, HeadSize(out))
  <2>1. HeadSize(out) \in Nat /\ PointSize(out, Failed) = HeadSize(out) + 1
    BY SizesAreNat DEF PointSize, Failed
  <2>2. me.used + PointSize(out, Failed) >= LpCap
    <3> HIDE DEF out
    <3> QED BY <1>0, <1>2, <2>1, RoomAssumption DEF Fits
  <2>3. GeoKnown(me, out) = NextPoint([me EXCEPT !.first = Append(@, NoAnswer)])
    BY <1>2 DEF GeoKnown
  <2> QED BY <1>0, <2>2, <2>3, GivenUpText
<1> QED BY <1>1, <1>2

\* Where less than a line's room is left, a line does not fit.
LEMMA NoRoomText ==
  ASSUME NEW me, Shape(me), me.pc = "geo", Text(me), LpCap - me.used < MinRoom
  PROVE  Text(NextPoint([me EXCEPT !.first = Append(@, NoAnswer)]))
<1>1. me \in WorkerStates /\ me.used \in Nat
  BY DEF Shape, WorkerStates
<1>2. PointSize(NoGeo, Failed) = 3 /\ PointSize(GeoOf(IpOf(me)), Failed) >= 3
      /\ PointSize(GeoOf(IpOf(me)), Failed) \in Nat
  <2>1. ASSUME NEW out PROVE HeadSize(out) >= 2 /\ HeadSize(out) \in Nat
    BY DEF HeadSize
  <2>2. PointSize(GeoOf(IpOf(me)), Failed) = HeadSize(GeoOf(IpOf(me))) + 1
    BY <2>1 DEF PointSize, Failed
  <2>3. PointSize(NoGeo, Failed) = 3
    BY DEF PointSize, HeadSize, NoGeo, Failed
  <2>4. HeadSize(GeoOf(IpOf(me))) >= 2 /\ HeadSize(GeoOf(IpOf(me))) \in Nat
    BY <2>1
  <2> QED BY <2>2, <2>3, <2>4
<1>3. MinRoom \in Nat /\ LpCap \in Nat /\ MinRoom <= 3
  BY <1>2, RoomAssumption, LineAssumption
<1>4. me.used + PointSize(GeoOf(IpOf(me)), Failed) >= LpCap
  BY <1>1, <1>2, <1>3
<1> QED BY <1>1, <1>4, GivenUpText
LEMMA TextsKept ==
  ASSUME IInv, Texts, NEW w \in Workers, NEW r, worker' = [worker EXCEPT ![w] = r], Text(r)
  PROVE  Texts'
<1>1. worker \in [Workers -> WorkerStates]
  BY DEF IInv, Types
<1>2. worker'[w] = r /\ \A v \in Workers : v # w => worker'[v] = worker[v]
  BY <1>1
<1>3. ASSUME NEW v \in Workers  PROVE  Text(worker'[v])
  BY <1>2 DEF Texts
<1> QED BY <1>3 DEF Texts

\* GeoIP: what is said of an address is what the database says.
LEMMA GeoTexts ==
  ASSUME IInv, Texts, NEW w \in Workers, NoRoom(w) \/ GeoHit(w) \/ GeoMiss(w) \/ GeoPut(w)
  PROVE  Texts'
<1> DEFINE me == worker[w]
<1>0. Shape(me) /\ Text(me) /\ me \in WorkerStates
  BY InHand DEF Texts
<1>1. CASE NoRoom(w)
  <2> DEFINE r == NextPoint([me EXCEPT !.first = Append(@, NoAnswer)])
  <2>1. me.pc = "geo" /\ LpCap - me.used < MinRoom /\ worker' = [worker EXCEPT ![w] = r]
    BY <1>1 DEF NoRoom
  <2>2. Text(r)
    <3> HIDE DEF me
    <3> QED BY <1>0, <2>1, NoRoomText
  <2> HIDE DEF r
  <2> QED BY <2>1, <2>2, TextsKept
<1>2. CASE GeoHit(w)
  <2> DEFINE r == GeoKnown(me, GeoOf(IpOf(me)))
  <2>1. me.pc = "geo"
    BY <1>2 DEF GeoHit
  <2>2. worker' = [worker EXCEPT ![w] = r]
    <3>1. CASE Ip(w) \in Private /\ worker' = [worker EXCEPT ![w] = GeoKnown(@, NoGeo)]
      BY <3>1 DEF GeoOf, IpOf, Ip, Event
    <3>2. CASE \E i \in DOMAIN geo : /\ FoundAt(Ip(w), i)
                                     /\ worker' = [worker EXCEPT ![w] = GeoKnown(@, geo[i].res)]
      <4>1. PICK i \in DOMAIN geo : /\ FoundAt(Ip(w), i)
                                    /\ worker' = [worker EXCEPT ![w] = GeoKnown(@, geo[i].res)]
        BY <3>2
      <4>2. geo \in Seq([ip : Public, res : GeoAnswers]) /\ GeoTrue
        BY DEF IInv, Types
      <4>3. geo[i] \in [ip : Public, res : GeoAnswers]
        BY <4>2, LenProperties, ElementOfSeq
      <4>4. geo[i].ip = IpOf(me) /\ geo[i].ip \in Public
        BY <4>1, <4>3 DEF FoundAt, Ip, Event, IpOf
      <4>5. geo[i].res = GeoOf(IpOf(me))
        BY <4>2, <4>4, AddressAssumption DEF GeoTrue, GeoOf
      <4> QED BY <4>1, <4>5
    <3> QED BY <1>2, <3>1, <3>2 DEF GeoHit
  <2>3. Text(r)
    <3> HIDE DEF me
    <3> QED BY <1>0, <2>1, GeoKnownText
  <2> HIDE DEF r
  <2> QED BY <2>2, <2>3, TextsKept
<1>3. CASE GeoMiss(w)
  <2> DEFINE r == [me EXCEPT !.pc = "geoPut", !.out = GeoDb[Ip(w)]]
  <2>1. me.pc = "geo" /\ worker' = [worker EXCEPT ![w] = r]
    BY <1>3 DEF GeoMiss, IInv, Types
  <2>2. /\ r.pc = "geoPut" /\ r.batch = me.batch /\ r.first = me.first
        /\ r.used = me.used /\ r.points = me.points
    BY <1>0 DEF WorkerStates
  <2> HIDE DEF r
  <2>3. Text(r)
    <3> HIDE DEF me
    <3>1. WholeText(me, Len(me.first))
      BY <1>0, <2>1 DEF Text
    <3>2. WholeText(r, Len(r.first))
      BY <2>2, <3>1, SameText
    <3> QED BY <2>2, <3>2 DEF Text, Asking
  <2> QED BY <2>1, <2>3, TextsKept
<1>4. CASE GeoPut(w)
  <2> DEFINE r == GeoKnown(me, GeoOf(IpOf(me)))
  <2>1. me.pc = "geoPut"
    BY <1>4 DEF GeoPut
  <2>2. me.out = GeoOf(IpOf(me))
    BY <1>0, <2>1, AddressAssumption DEF Shape, GeoOf
  <2>3. worker' = [worker EXCEPT ![w] = r]
    BY <1>4, <2>2 DEF GeoPut
  <2>4. Text(r)
    <3> HIDE DEF me
    <3> QED BY <1>0, <2>1, GeoKnownText
  <2> HIDE DEF r
  <2> QED BY <2>3, <2>4, TextsKept
<1> QED BY <1>1, <1>2, <1>3, <1>4

\* AbuseIPDB: the line that is written is the one that was built.
LEMMA AbuseTexts ==
  ASSUME IInv, Texts, NEW w \in Workers,
         AbuseCall(w) \/ AbuseHit(w) \/ AbuseMiss(w) \/ AbuseAnswer(w)
  PROVE  Texts'
<1> DEFINE me == worker[w]
<1>0. /\ Shape(me) /\ Text(me) /\ me \in WorkerStates /\ clock \in Nat
      /\ worker \in [Workers -> WorkerStates]
  BY InHand DEF Texts, IInv, Types
<1>s. ASSUME NEW answer \in Answers, me.pc \in Asking,
             worker' = [worker EXCEPT ![w] = Scored(me, answer)]
      PROVE  Texts'
  <2> DEFINE r == Scored(me, answer)
  <2>1. Text(r)
    <3> HIDE DEF me
    <3> QED BY <1>0, <1>s, ScoredText
  <2>2. worker' = [worker EXCEPT ![w] = r]
    BY <1>s
  <2> HIDE DEF r
  <2> QED BY <2>1, <2>2, TextsKept
<1>w. ASSUME NEW r, worker' = [worker EXCEPT ![w] = r], me.pc \in Asking, r.pc \in Asking,
             r.judging = me.judging, r.pos = me.pos, r.batch = me.batch, r.first = me.first,
             r.used = me.used, r.points = me.points, r.out = me.out
      PROVE  Texts'
  <2>1. Text(r)
    <3> HIDE DEF me
    <3>1. ASSUME ~me.judging PROVE WholeText(r, Len(r.first)) /\ r.out = GeoOf(IpOf(r))
      <4>1. WholeText(me, Len(me.first)) /\ me.out = GeoOf(IpOf(me))
        BY <1>0, <1>w, <3>1 DEF Text
      <4> QED BY <1>w, <4>1, SameText DEF IpOf
    <3> QED BY <1>w, <3>1 DEF Text, Asking
  <2> QED BY <1>w, <2>1, TextsKept
<1>1. CASE AbuseCall(w)
  <2>1. me.pc = "score" /\ me.pc \in Asking
    BY <1>1 DEF AbuseCall, Asking
  <2>2. CASE Ip(w) \in Private
    <3>1. worker' = [worker EXCEPT ![w] = Scored(me, NoAnswer)]
      BY <1>1, <2>2 DEF AbuseCall
    <3> QED BY <1>s, <2>1, <3>1, NoAnswerIsAnswer
  <2>3. CASE Ip(w) \notin Private
    <3> DEFINE r == [me EXCEPT !.pc = "lock", !.now = clock]
    <3>1. worker' = [worker EXCEPT ![w] = r]
      BY <1>1, <2>3 DEF AbuseCall
    <3>2. /\ r.pc \in Asking /\ r.judging = me.judging /\ r.pos = me.pos /\ r.batch = me.batch
          /\ r.first = me.first /\ r.used = me.used /\ r.points = me.points /\ r.out = me.out
      BY <1>0 DEF WorkerStates, Asking
    <3> HIDE DEF r
    <3> QED BY <1>w, <2>1, <3>1, <3>2
  <2> QED BY <2>2, <2>3
<1>2. CASE AbuseHit(w)
  <2> DEFINE answer == [score |-> abuse[Ip(w)].score, until |-> abuse[Ip(w)].expires]
  <2>1. me.pc = "lock" /\ me.pc \in Asking
    BY <1>2 DEF AbuseHit, Asking
  <2>2. Ip(w) \in Public
    BY <1>0, <2>1 DEF Shape, IpOf, Ip, Event
  <2>3. answer \in Answers
    BY <2>2 DEF IInv, Types, Answers
  <2>4. worker' = [worker EXCEPT ![w] = Scored(me, answer)]
    BY <1>2 DEF AbuseHit
  <2> HIDE DEF answer
  <2> QED BY <1>s, <2>1, <2>3, <2>4
<1>3. CASE AbuseMiss(w)
  <2> DEFINE r == [me EXCEPT !.pc = "query"]
  <2>1. me.pc = "lock" /\ me.pc \in Asking
    BY <1>3 DEF AbuseMiss, Asking
  <2>2. worker' = [worker EXCEPT ![w] = r]
    BY <1>0, <1>3 DEF AbuseMiss
  <2>3. /\ r.pc \in Asking /\ r.judging = me.judging /\ r.pos = me.pos /\ r.batch = me.batch
        /\ r.first = me.first /\ r.used = me.used /\ r.points = me.points /\ r.out = me.out
    BY <1>0 DEF WorkerStates, Asking
  <2> HIDE DEF r
  <2> QED BY <1>w, <2>1, <2>2, <2>3
<1>4. CASE AbuseAnswer(w)
  <2>1. me.pc = "query" /\ me.pc \in Asking /\ me.now \in Nat
    BY <1>0, <1>4 DEF AbuseAnswer, Asking, WorkerStates
  <2>2. PICK score \in {Failed} \cup {Clamped(raw) : raw \in RawScores} :
          LET expires == me.now + Lifetime(score)
              until   == IF Ip(w) \in Cacheable /\ faults' = faults THEN expires ELSE -1
          IN  worker' = [worker EXCEPT ![w] = Scored(me, [score |-> score, until |-> until])]
    BY <1>4 DEF AbuseAnswer
  <2> DEFINE until == IF Ip(w) \in Cacheable /\ faults' = faults
                        THEN me.now + Lifetime(score) ELSE -1
  <2> DEFINE answer == [score |-> score, until |-> until]
  <2>3. answer \in Answers
    <3>1. score \in -1 .. 100
      BY ScoreInRange
    <3>2. until \in Int
      BY <2>1, ScoreInRange
    <3> QED BY <3>1, <3>2 DEF Answers
  <2>4. worker' = [worker EXCEPT ![w] = Scored(me, answer)]
    BY <2>2
  <2> HIDE DEF answer
  <2> QED BY <1>s, <2>1, <2>3, <2>4
<1> QED BY <1>1, <1>2, <1>3, <1>4

\* Before the first event and after the POST.
LEMMA OtherTexts ==
  ASSUME IInv, Texts, NEW w \in Workers,
         \/ TakeMessage(w) \/ PostOk(w) \/ PostFails(w) \/ JudgeHigh(w) \/ JudgeLow(w)
         \/ MessageDone(w)
  PROVE  Texts'
<1> DEFINE me == worker[w]
<1>0. /\ Shape(me) /\ me \in WorkerStates /\ worker \in [Workers -> WorkerStates]
  BY InHand DEF IInv, Types
<1>1. CASE TakeMessage(w)
  <2>1. PICK batch \in Batches :
          worker' = [worker EXCEPT ![w].pc = "geo", ![w].batch = batch]
    BY <1>1 DEF TakeMessage
  <2> DEFINE r == [IdleWorker EXCEPT !.pc = "geo", !.batch = batch]
  <2>2. worker' = [worker EXCEPT ![w] = r]
    <3>1. me = IdleWorker
      BY <1>0, <1>1 DEF TakeMessage, Shape
    <3> QED BY <1>0, <2>1, <3>1
  <2>3. r.pc = "geo" /\ r.first = <<>> /\ r.used = 0 /\ r.points = <<>>
    BY DEF IdleWorker
  <2> HIDE DEF r
  <2>4. WholeText(r, 0)
    BY <2>3, LineAssumption DEF WholeText, LineStart
  <2>5. Text(r)
    BY <2>3, <2>4 DEF Text, Asking
  <2> QED BY <2>2, <2>5, TextsKept
<1>2. CASE PostOk(w)
  <2> DEFINE r == [me EXCEPT !.pc = "judge", !.judging = TRUE, !.pos = 1]
  <2>1. worker' = [worker EXCEPT ![w] = r]
    BY <1>0, <1>2 DEF PostOk
  <2>2. r.pc = "judge"
    BY <1>0 DEF WorkerStates
  <2> HIDE DEF r
  <2> QED BY <2>1, <2>2, TextsKept DEF Text, Asking
<1>3. CASE PostFails(w) \/ MessageDone(w)
  <2>1. worker' = [worker EXCEPT ![w] = IdleWorker]
    BY <1>3 DEF PostFails, MessageDone
  <2>2. IdleWorker.pc = "idle"
    BY DEF IdleWorker
  <2> QED BY <2>1, <2>2, TextsKept DEF Text, Asking
<1>4. CASE JudgeHigh(w)
  <2> DEFINE x == [me EXCEPT !.second = Append(@, NoAnswer)]
             r == NextJudged(x)
  <2>1. worker' = [worker EXCEPT ![w] = r]
    BY <1>4 DEF JudgeHigh
  <2>2. x \in WorkerStates
    BY <1>0, NoAnswerIsAnswer, AppendProperties DEF WorkerStates
  <2> HIDE DEF x
  <2>3. r.pc \in {"judge", "done"}
    BY <2>2 DEF NextJudged, WorkerStates
  <2> HIDE DEF r
  <2> QED BY <2>1, <2>3, TextsKept DEF Text, Asking
<1>5. CASE JudgeLow(w)
  <2> DEFINE r == [me EXCEPT !.pc = "score"]
  <2>1. worker' = [worker EXCEPT ![w] = r]
    BY <1>0, <1>5 DEF JudgeLow
  <2>2. me.judging
    BY <1>0, <1>5 DEF JudgeLow, Shape
  <2>3. r.pc = "score" /\ r.judging
    BY <1>0, <2>2 DEF WorkerStates
  <2> HIDE DEF r
  <2> QED BY <2>1, <2>3, TextsKept DEF Text, Asking
<1> QED BY <1>1, <1>2, <1>3, <1>4, <1>5

\* What is posted consists of the whole lines of the events of the message, each
\* once and in order, and leaves out only what did not fit behind those before it.
THEOREM PostedWhole == Spec => []PostWhole
<1>1. Init => Texts
  <2> SUFFICES ASSUME Init PROVE Texts
    OBVIOUS
  <2>1. \A w \in Workers : worker[w].pc = "idle"
    BY DEF Init, IdleWorker
  <2> QED BY <2>1 DEF Texts, Text, Asking
<1>2. IInv /\ Texts /\ [Next]_vars => Texts'
  <2> SUFFICES ASSUME IInv, Texts, [Next]_vars PROVE Texts'
    OBVIOUS
  <2>1. CASE UNCHANGED worker
    BY <2>1 DEF Texts
  <2>2. ASSUME NEW w \in Workers, TakeMessage(w) \/ Proceeds(w) \/ AbuseHit(w) \/ AbuseMiss(w)
        PROVE  Texts'
    BY <2>2, GeoTexts, AbuseTexts, OtherTexts DEF Proceeds
  <2> QED BY <2>1, <2>2 DEF Next, Tick, vars
<1>3. IInv /\ Texts => PostWhole
  <2> SUFFICES ASSUME IInv, Texts, NEW w \in Workers, worker[w].pc = "post"
               PROVE  WholeText(worker[w], Len(worker[w].batch))
    BY DEF PostWhole
  <2> DEFINE me == worker[w]
  <2>1. Shape(me) /\ Text(me) /\ me.pc = "post"
    BY InHand DEF Texts
  <2> HIDE DEF me
  <2>2. WholeText(me, Len(me.first)) /\ Len(me.first) = Len(me.batch)
    BY <2>1 DEF Shape, Text
  <2> QED BY <2>2 DEF me
<1> QED BY <1>1, <1>2, <1>3, EnrichmentInvariant, PTL DEF Spec
=============================================================================
