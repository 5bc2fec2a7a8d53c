-------------------------- MODULE SideEffectsProofs --------------------------
(***************************************************************************)
(* What holds of WebFetch, of the file tools, of the requests to a         *)
(* provider, of children and of a run's variables for every pipeline,      *)
(* policy, disk and server: each is proved of its own actions and carried  *)
(* over to the composition, where a step of one leaves the variables of    *)
(* the others alone.                                                       *)
(***************************************************************************)
EXTENDS SideEffects, FiniteSetTheorems, WellFoundedInduction, TLAPS

-----------------------------------------------------------------------------
(* WebFetch.  A host that is about to be asked has been judged, and one    *)
(* that waits for part of its judgement has passed the parts before.       *)

\* What is required of a host before the GET after so many redirects.
Judged(first, h) ==
  /\ h \notin Private
  /\ h \in HostNames => h \in resolved \/ (first /\ Matches(policy.agent.allowed, h))
  /\ InLists(IF first THEN policy.agent ELSE policy.handler, h)

FetchTypes ==
  /\ url \in [scheme : {"http", "other", "bad"}, host : Hosts]
  /\ hops \in Nat
  /\ at \in {"gate", "gate_dns", "send", "wait", "hop_dns", "lists", "body", "text", "over"}

AskedJudged == \A get \in asked : Judged(get[1] = 0, get[2])

NextJudged ==
  /\ at \in {"gate", "gate_dns"} => hops = 0
  /\ at = "gate_dns" => url.host \notin Private /\ InLists(policy.agent, url.host)
  /\ at = "send" /\ url.scheme = "http" => Judged(hops = 0, url.host)
  /\ at \in {"hop_dns", "lists"} => url.host \notin Private
  /\ at = "lists" => (url.host \in HostNames => url.host \in resolved)

FetchInv == FetchTypes /\ AskedJudged /\ NextJudged

LEMMA FetchStarts == FetchInit => FetchInv
BY DEF FetchInit, FetchInv, FetchTypes, AskedJudged, NextJudged

\* What was judged stays judged: names that resolved are never forgotten.
LEMMA JudgedStays ==
  ASSUME NEW first, NEW h, Judged(first, h), resolved \subseteq resolved', policy' = policy
  PROVE  Judged(first, h)'
BY DEF Judged, Matches, InLists

LEMMA AskedStays ==
  ASSUME AskedJudged, resolved \subseteq resolved', policy' = policy, asked' = asked
  PROVE  AskedJudged'
<1> SUFFICES ASSUME NEW get \in asked PROVE Judged(get[1] = 0, get[2])'
  BY DEF AskedJudged
<1> QED
  BY JudgedStays DEF AskedJudged

\* The call ends, whatever for.
LEMMA FetchEnds == ASSUME FetchInv, NEW r, Finish(r) PROVE FetchInv'
<1>1. AskedJudged'
  BY AskedStays DEF FetchInv, Finish
<1> QED
  BY <1>1 DEF FetchInv, FetchTypes, NextJudged, Finish

LEMMA GateKeeps == FetchInv /\ Gate => FetchInv'
<1> SUFFICES ASSUME FetchInv, Gate PROVE FetchInv'
  OBVIOUS
<1>1. CASE Finish("denied")
  BY <1>1, FetchEnds
<1>2. CASE url.scheme = "bad" /\ Move("send")
  <2>1. AskedJudged'
    BY <1>2, AskedStays DEF FetchInv, Move
  <2> QED
    BY <1>2, <2>1 DEF FetchInv, FetchTypes, NextJudged, Move
<1>3. CASE /\ url.host \notin Private /\ InLists(policy.agent, url.host)
           /\ Move(IF url.host \in Literals THEN "send" ELSE "gate_dns")
  <2>1. AskedJudged'
    BY <1>3, AskedStays DEF FetchInv, Move
  <2>2. hops = 0 /\ Literals \cap HostNames = {}
    BY FetchAssumption DEF Gate, FetchInv, NextJudged
  <2>3. url.host \in Literals => Judged(hops = 0, url.host)'
    BY <1>3, <2>2 DEF Judged, Move, Matches, InLists
  <2> QED
    BY <1>3, <2>1, <2>2, <2>3 DEF FetchInv, FetchTypes, NextJudged, Move, InLists, Matches
<1> QED
  BY <1>1, <1>2, <1>3 DEF Gate

LEMMA GateResolvesKeeps == ASSUME NEW answer, FetchInv, GateResolves(answer) PROVE FetchInv'
<1>1. CASE Finish("denied")
  BY <1>1, FetchEnds
<1>2. ASSUME at' = "send", resolved \subseteq resolved',
             url.host \in resolved' \/ Matches(policy.agent.allowed, url.host),
             UNCHANGED <<policy, url, hops, asked>>
      PROVE  FetchInv'
  <2>1. AskedJudged'
    BY <1>2, AskedStays DEF FetchInv
  <2>2. Judged(hops = 0, url.host)'
    BY <1>2 DEF GateResolves, FetchInv, NextJudged, Judged, Matches, InLists
  <2> QED
    BY <1>2, <2>1, <2>2 DEF FetchInv, FetchTypes, NextJudged
<1> QED
  BY <1>1, <1>2 DEF GateResolves, Move

LEMMA SendKeeps == FetchInv /\ Send => FetchInv'
<1> SUFFICES ASSUME FetchInv, Send PROVE FetchInv'
  OBVIOUS
<1>1. CASE url.scheme # "http"
  BY <1>1, FetchEnds DEF Send
<1>2. CASE url.scheme = "http"
  <2>1. /\ at = "send" /\ at' = "wait" /\ asked' = asked \cup {<<hops, url.host>>}
        /\ UNCHANGED <<policy, url, hops, resolved, body, result>>
    BY <1>2 DEF Send
  <2>2. Judged(hops = 0, url.host)
    BY <1>2, <2>1 DEF FetchInv, NextJudged
  <2>3. ASSUME NEW get \in asked' PROVE Judged(get[1] = 0, get[2])'
    <3>1. Judged(get[1] = 0, get[2])
      BY <2>1, <2>2 DEF FetchInv, AskedJudged
    <3> QED
      BY <2>1, <3>1, JudgedStays
  <2> QED
    BY <2>1, <2>3 DEF FetchInv, FetchTypes, AskedJudged, NextJudged
<1> QED
  BY <1>1, <1>2

LEMMA RedirectKeeps ==
  ASSUME NEW next \in [scheme : {"http", "other", "bad"}, host : Hosts], FetchInv, Redirect(next)
  PROVE  FetchInv'
<1>1. CASE Finish("error")
  BY <1>1, FetchEnds
<1>2. CASE /\ next.host \notin Private /\ url' = next
           /\ at' = IF next.host \in Literals THEN "lists" ELSE "hop_dns"
           /\ UNCHANGED <<policy, hops, asked, resolved, body, result>>
  <2>1. AskedJudged'
    BY <1>2, AskedStays DEF FetchInv
  <2>2. next.host \in Literals => next.host \notin HostNames
    BY FetchAssumption
  <2> QED
    BY <1>2, <2>1, <2>2 DEF FetchInv, FetchTypes, NextJudged
<1> QED
  BY <1>1, <1>2 DEF Redirect

LEMMA HopResolvesKeeps == ASSUME NEW answer, FetchInv, HopResolves(answer) PROVE FetchInv'
<1>1. CASE Finish("error")
  BY <1>1, FetchEnds
<1>2. CASE /\ at' = "lists" /\ resolved' = resolved \cup {url.host}
           /\ UNCHANGED <<policy, url, hops, asked, body, result>>
  <2>1. AskedJudged'
    BY <1>2, AskedStays DEF FetchInv
  <2> QED
    BY <1>2, <2>1 DEF HopResolves, FetchInv, FetchTypes, NextJudged
<1> QED
  BY <1>1, <1>2 DEF HopResolves

LEMMA FollowKeeps == FetchInv /\ Follow => FetchInv'
<1> SUFFICES ASSUME FetchInv, Follow PROVE FetchInv'
  OBVIOUS
<1>1. CASE Finish("error")
  BY <1>1, FetchEnds
<1>2. CASE /\ InLists(policy.handler, url.host) /\ at' = "send" /\ hops' = hops + 1
           /\ UNCHANGED <<policy, url, asked, resolved, body, result>>
  <2>1. AskedJudged'
    BY <1>2, AskedStays DEF FetchInv
  <2>2. hops' \in Nat /\ hops' # 0
    BY <1>2 DEF FetchInv, FetchTypes
  <2>3. Judged(hops = 0, url.host)'
    BY <1>2, <2>2 DEF Follow, FetchInv, NextJudged, Judged, Matches, InLists
  <2> QED
    BY <1>2, <2>1, <2>2, <2>3 DEF FetchInv, FetchTypes, NextJudged
<1> QED
  BY <1>1, <1>2 DEF Follow

\* The rest of a call asks no host.
LEMMA BodyKeeps ==
  FetchInv /\ (Respond \/ Text \/ NoAnswer \/ LastChunk \/ (\E n \in 1 .. MaxSent : Chunk(n)) \/ UNCHANGED fetchVars)
    => FetchInv'
<1> SUFFICES ASSUME FetchInv,
                    Respond \/ Text \/ NoAnswer \/ LastChunk \/ (\E n \in 1 .. MaxSent : Chunk(n)) \/ UNCHANGED fetchVars
             PROVE  FetchInv'
  OBVIOUS
<1>1. CASE Text \/ NoAnswer
  BY <1>1, FetchEnds DEF Text, NoAnswer
<1>2. CASE Respond \/ LastChunk \/ (\E n \in 1 .. MaxSent : Chunk(n)) \/ UNCHANGED fetchVars
  <2>1. UNCHANGED <<policy, url, hops, asked, resolved>> /\ (at' \in {"body", "text"} \/ at' = at)
    BY <1>2 DEF Respond, LastChunk, Chunk, fetchVars, Move
  <2>2. AskedJudged'
    BY <2>1, AskedStays DEF FetchInv
  <2> QED
    BY <2>1, <2>2 DEF FetchInv, FetchTypes, NextJudged, Judged, InLists, Matches
<1> QED
  BY <1>1, <1>2

LEMMA FetchKeeps == FetchInv /\ [FetchNext]_fetchVars => FetchInv'
BY GateKeeps, GateResolvesKeeps, SendKeeps, RedirectKeeps, HopResolvesKeeps, FollowKeeps, BodyKeeps
   DEF FetchNext, FetchStep

-----------------------------------------------------------------------------
(* Requests.  While a request is under way all its attempts so far failed  *)
(* transiently and there is room for one more; once it is answered it      *)
(* never changes.                                                          *)

Answers ==
  {AnswerOf(r) : r \in Replies} \cup {ErrorOf(f) : f \in Failures}
    \cup {Err("pending"), Err("dropped"), Err("transport")}

Request == [provider : UNION Required, outcomes : Seq(Failures \cup Replies),
            answer : Answers, taped : BOOLEAN]

\* The attempts before the last one.
Repeated(r) == \A k \in 1 .. Len(r.outcomes) - 1 : r.outcomes[k] \in Failures /\ Transient(r.outcomes[k])

\* The body of RetriesAreSpent.
Spent(r) ==
  LET tried == Len(r.outcomes)
  IN  /\ tried <= Retries + 1
      /\ Repeated(r)
      /\ r.taped => /\ tried > 0
                    /\ r.outcomes[tried] \in Replies => r.answer = AnswerOf(r.outcomes[tried])
                    /\ r.outcomes[tried] \in Failures =>
                         /\ r.answer = ErrorOf(r.outcomes[tried])
                         /\ Transient(r.outcomes[tried]) => tried = Retries + 1

\* A request that may still be sent again.
Open(r) ==
  /\ ~ r.taped
  /\ Len(r.outcomes) <= Retries
  /\ \A k \in 1 .. Len(r.outcomes) : r.outcomes[k] \in Failures /\ Transient(r.outcomes[k])

TransportTypes ==
  /\ providers \in Required
  /\ requests \in Seq(Request)
  /\ stage \in {"build", "refused", "idle", "sending", "backoff", "replay"}

AllSpent == \A i \in DOMAIN requests : Spent(requests[i])

InFlight == stage \in {"sending", "backoff"} => requests # <<>> /\ Open(now)

TransportInv == TransportTypes /\ AllSpent /\ InFlight

LEMMA TransportStarts == TransportInit => TransportInv
BY DEF TransportInit, TransportInv, TransportTypes, AllSpent, InFlight

\* The latest request, while there is one.
LEMMA NowIsRequest ==
  ASSUME TransportTypes, requests # <<>>
  PROVE  /\ Len(requests) \in Nat \ {0} /\ DOMAIN requests = 1 .. Len(requests)
         /\ now \in Request
BY DEF TransportTypes, Last, now

\* Replacing the latest request by one that is in order.
LEMMA NowReplaced ==
  ASSUME TransportInv, requests # <<>>, NEW r \in Request, Spent(r),
         WithNow(r), providers' = providers,
         stage' \in {"idle"} \/ (stage' = "backoff" /\ Open(r))
  PROVE  TransportInv'
<1>1. /\ Len(requests) \in Nat \ {0} /\ DOMAIN requests = 1 .. Len(requests)
      /\ requests' = [requests EXCEPT ![Len(requests)] = r]
  BY NowIsRequest DEF WithNow, TransportInv
<1>2. /\ requests' \in Seq(Request) /\ Len(requests') = Len(requests) /\ now' = r /\ requests' # <<>>
      /\ DOMAIN requests' = DOMAIN requests
  BY <1>1 DEF TransportInv, TransportTypes, Last, now
<1>3. AllSpent'
  <2> SUFFICES ASSUME NEW i \in DOMAIN requests PROVE Spent(requests'[i])
    BY <1>2 DEF AllSpent, Spent, Repeated
  <2> QED
    BY <1>1 DEF TransportInv, AllSpent
<1>4. InFlight'
  BY <1>2 DEF InFlight, Open
<1> QED
  BY <1>2, <1>3, <1>4 DEF TransportInv, TransportTypes

\* A request that may be sent again is in order with one outcome more, if it
\* is answered by it as Tell does.
LEMMA OneMore ==
  ASSUME NEW r \in Request, Open(r), NEW o \in Failures \cup Replies,
         NEW a \in Answers, NEW t \in BOOLEAN,
         t => /\ o \in Replies => a = AnswerOf(o)
              /\ o \in Failures => a = ErrorOf(o) /\ (Transient(o) => Len(r.outcomes) >= Retries)
  PROVE  /\ [r EXCEPT !.outcomes = Append(@, o), !.answer = a, !.taped = t] \in Request
         /\ Spent([r EXCEPT !.outcomes = Append(@, o), !.answer = a, !.taped = t])
<1> DEFINE s == [r EXCEPT !.outcomes = Append(@, o), !.answer = a, !.taped = t]
<1>0. r.outcomes \in Seq(Failures \cup Replies) /\ Append(r.outcomes, o) \in Seq(Failures \cup Replies)
  BY DEF Request
<1>1. s \in Request /\ s.outcomes = Append(r.outcomes, o) /\ s.answer = a /\ s.taped = t
  BY <1>0 DEF Request
<1> HIDE DEF s
<1>2. /\ Len(s.outcomes) = Len(r.outcomes) + 1 /\ Len(r.outcomes) \in Nat
      /\ s.outcomes[Len(s.outcomes)] = o
      /\ \A k \in 1 .. Len(r.outcomes) : s.outcomes[k] = r.outcomes[k]
  BY <1>0, <1>1
<1>3. Retries \in Nat
  BY TransportAssumption
<1>4. Len(s.outcomes) <= Retries + 1 /\ Len(s.outcomes) > 0 /\ Repeated(s)
  BY <1>2, <1>3 DEF Open, Repeated
<1>5. t /\ o \in Failures /\ Transient(o) => Len(s.outcomes) = Retries + 1
  BY <1>2, <1>3 DEF Open
<1>6. Spent(s)
  BY <1>1, <1>2, <1>4, <1>5 DEF Spent
<1> QED
  BY <1>1, <1>6 DEF s

LEMMA AskKeeps == ASSUME NEW p, TransportInv, Ask(p) PROVE TransportInv'
<1> DEFINE r == [provider |-> p, outcomes |-> <<>>, answer |-> Err("pending"), taped |-> FALSE]
<1>1. /\ r \in Request /\ r.outcomes = <<>> /\ ~ r.taped
  BY DEF Ask, TransportInv, TransportTypes, Request, Answers
<1>2. requests' = Append(requests, r) /\ providers' = providers /\ stage' = "sending"
  BY DEF Ask
<1> HIDE DEF r
<1>3. Retries \in Nat
  BY TransportAssumption
<1>4. Spent(r) /\ Open(r)
  BY <1>1, <1>3 DEF Spent, Open, Repeated
<1>5. /\ requests' \in Seq(Request) /\ requests' # <<>> /\ now' = r
      /\ DOMAIN requests' = 1 .. Len(requests) + 1 /\ DOMAIN requests = 1 .. Len(requests)
      /\ Len(requests) \in Nat
      /\ \A i \in DOMAIN requests : requests'[i] = requests[i]
      /\ requests'[Len(requests) + 1] = r
  BY <1>1, <1>2 DEF TransportInv, TransportTypes, Last, now
<1>6. AllSpent'
  <2> SUFFICES ASSUME NEW i \in DOMAIN requests' PROVE Spent(requests'[i])
    BY DEF AllSpent, Spent, Repeated
  <2>1. i \in DOMAIN requests \/ i = Len(requests) + 1
    BY <1>5
  <2> QED
    BY <1>4, <1>5, <2>1 DEF TransportInv, AllSpent
<1>7. InFlight'
  BY <1>4, <1>5 DEF InFlight, Open
<1> QED
  BY <1>2, <1>5, <1>6, <1>7 DEF TransportInv, TransportTypes

\* The attempt that is the last one: an answer, or an error that is not
\* repeated; what could not be recorded is answered with another error.
LEMMA ToldKeeps ==
  ASSUME NEW o \in Failures \cup Replies, NEW a \in Answers, NEW written \in BOOLEAN,
         TransportInv, stage = "sending", Tell(a, o, written), providers' = providers,
         /\ o \in Replies => a = AnswerOf(o)
         /\ o \in Failures => a = ErrorOf(o) /\ (Transient(o) => Len(now.outcomes) >= Retries)
  PROVE  TransportInv'
<1> DEFINE b == IF written THEN a ELSE Err("transport")
<1>1. requests # <<>> /\ Open(now)
  BY DEF TransportInv, InFlight
<1>2. now \in Request
  BY <1>1, NowIsRequest DEF TransportInv
<1>3. b \in Answers
  BY DEF Answers
<1>4. WithNow([now EXCEPT !.outcomes = Append(@, o), !.answer = b, !.taped = written]) /\ stage' = "idle"
  BY DEF Tell
<1>5. written => b = a
  OBVIOUS
<1> HIDE DEF b
<1>6. /\ [now EXCEPT !.outcomes = Append(@, o), !.answer = b, !.taped = written] \in Request
      /\ Spent([now EXCEPT !.outcomes = Append(@, o), !.answer = b, !.taped = written])
  BY <1>1, <1>2, <1>3, <1>5, OneMore
<1> QED
  BY <1>1, <1>4, <1>6, NowReplaced

LEMMA RepliedKeeps ==
  ASSUME NEW r \in Replies, NEW written \in BOOLEAN, TransportInv, Replied(r, written)
  PROVE  TransportInv'
<1>1. AnswerOf(r) \in Answers /\ r \notin Failures
  BY TransportAssumption DEF Answers
<1>2. stage = "sending" /\ Tell(AnswerOf(r), r, written) /\ providers' = providers
  BY DEF Replied
<1> QED
  BY <1>1, <1>2, ToldKeeps

LEMMA FailsForGoodKeeps ==
  ASSUME NEW f \in Failures, NEW written \in BOOLEAN, TransportInv, FailsForGood(f, written)
  PROVE  TransportInv'
<1>1. ErrorOf(f) \in Answers /\ f \notin Replies
  BY TransportAssumption DEF Answers
<1>2. stage = "sending" /\ Tell(ErrorOf(f), f, written) /\ providers' = providers /\ ~ RetryAfter(f)
  BY DEF FailsForGood
<1>3. now \in Request
  BY <1>2, NowIsRequest DEF TransportInv, InFlight
<1>4. Len(now.outcomes) \in Nat /\ Retries \in Nat
  BY <1>3, TransportAssumption DEF Request
<1>5. Transient(f) => Len(now.outcomes) >= Retries
  BY <1>2, <1>4 DEF RetryAfter
<1> QED
  BY <1>1, <1>2, <1>5, ToldKeeps

LEMMA FailsTransientlyKeeps ==
  ASSUME NEW f \in Failures, TransportInv, FailsTransiently(f)
  PROVE  TransportInv'
<1> DEFINE r == [now EXCEPT !.outcomes = Append(@, f)]
<1>1. /\ requests # <<>> /\ Open(now) /\ Len(now.outcomes) < Retries /\ Transient(f)
      /\ WithNow(r) /\ stage' = "backoff" /\ providers' = providers
  BY DEF TransportInv, InFlight, FailsTransiently, RetryAfter
<1>2. now \in Request
  BY <1>1, NowIsRequest DEF TransportInv
<1>3. /\ r \in Request /\ r.outcomes = Append(now.outcomes, f) /\ r.taped = now.taped
      /\ now.outcomes \in Seq(Failures \cup Replies)
  BY <1>2 DEF Request
<1> HIDE DEF r
<1>4. /\ Len(r.outcomes) = Len(now.outcomes) + 1 /\ Len(now.outcomes) \in Nat /\ Retries \in Nat
      /\ r.outcomes[Len(now.outcomes) + 1] = f
      /\ \A k \in 1 .. Len(now.outcomes) : r.outcomes[k] = now.outcomes[k]
  BY <1>3, TransportAssumption
<1>5. Open(r)
  BY <1>1, <1>3, <1>4 DEF Open
<1>6. Spent(r)
  BY <1>4, <1>5 DEF Open, Spent, Repeated
<1> QED
  BY <1>1, <1>3, <1>5, <1>6, NowReplaced

LEMMA DropRequestKeeps == TransportInv /\ DropRequest => TransportInv'
<1> SUFFICES ASSUME TransportInv, DropRequest PROVE TransportInv'
  OBVIOUS
<1> DEFINE r == [now EXCEPT !.answer = Err("dropped")]
<1>1. requests # <<>> /\ Open(now) /\ WithNow(r) /\ stage' = "idle" /\ providers' = providers
  BY DEF TransportInv, InFlight, DropRequest
<1>2. now \in Request
  BY <1>1, NowIsRequest DEF TransportInv
<1>3. /\ r \in Request /\ r.outcomes = now.outcomes /\ r.taped = now.taped
      /\ Len(now.outcomes) \in Nat /\ Retries \in Nat
  BY <1>2, TransportAssumption DEF Request, Answers
<1> HIDE DEF r
<1>4. Spent(r)
  BY <1>1, <1>3 DEF Open, Spent, Repeated
<1> QED
  BY <1>1, <1>3, <1>4, NowReplaced

\* The steps that leave the requests alone.
LEMMA OtherRequestSteps ==
  ASSUME TransportInv,
         Build \/ Resend \/ Rewind \/ (\E p \in providers : Reask(p)) \/ UNCHANGED transport
  PROVE  TransportInv'
<1>1. /\ UNCHANGED <<providers, requests>>
      /\ stage' \in {"refused", "idle", "replay"} \/ stage' = stage \/ (stage = "backoff" /\ stage' = "sending")
  BY DEF Build, Resend, Rewind, Reask, transport
<1>2. AllSpent'
  BY <1>1 DEF TransportInv, AllSpent, Spent, Repeated
<1>3. InFlight'
  BY <1>1 DEF TransportInv, InFlight, Open, Last, now
<1> QED
  BY <1>1, <1>2, <1>3 DEF TransportInv, TransportTypes

LEMMA TransportKeeps == TransportInv /\ [TransportNext]_transport => TransportInv'
BY AskKeeps, RepliedKeeps, FailsForGoodKeeps, FailsTransientlyKeeps, DropRequestKeeps, OtherRequestSteps
   DEF TransportNext

LEMMA TransportInvSuffices == TransportInv => RetriesAreSpent
BY DEF TransportInv, AllSpent, Spent, Repeated, RetriesAreSpent

\* The tape holds the answer of each recorded request in its place, and a
\* replay has popped the first answers of each provider.
TapeTypes ==
  /\ tape \in [providers -> Seq(Answers)]
  /\ again \in [providers -> Seq(Answers \cup {Err("miss")})]
  /\ \A i \in DOMAIN requests : requests[i].provider \in providers

TapeTells ==
  \A p \in providers :
    /\ Len(tape[p]) = Told(p, Len(requests))
    /\ \A i \in DOMAIN requests :
         ForTape(p, i) => Told(p, i) \in 1 .. Len(tape[p]) /\ tape[p][Told(p, i)] = requests[i].answer

ReplayPops ==
  \A p \in providers : \A k \in 1 .. Len(again[p]) : stage = "replay" /\ again[p][k] = Popped(p, k)

TapeInv == TransportInv /\ TapeTypes /\ TapeTells /\ ReplayPops

\* What the loops see survives the tape: an excerpt is long enough for every
\* body they were given, and no error of theirs is one the tape cannot name.
LEMMA KeptWhole == ASSUME NEW a \in Answers PROVE Recorded(a) = a /\ Reraised(a) = a
<1>1. /\ BodyCap \in Nat /\ Suffix \in Nat /\ ExcerptCap \in Nat /\ BodyCap + Suffix <= ExcerptCap
      /\ \A f \in Failures : f.kind = "http" => f.body \in Nat
  BY TransportAssumption
<1>2. CASE \E r \in Replies : a = AnswerOf(r)
  BY <1>2 DEF AnswerOf, Err, Recorded, Reraised
<1>3. CASE \E class \in {"pending", "dropped", "transport", "auth", "model", "rate", "parse"} : a = Err(class)
  BY <1>3 DEF Err, Recorded, Reraised
<1>4. ASSUME NEW f \in Failures, f.kind = "http", a = [class |-> "api", status |-> f.status, body |-> Truncated(f.body)]
      PROVE  Recorded(a) = a /\ Reraised(a) = a
  <2>1. PICK b, s : b = Truncated(f.body) /\ s = f.status
    OBVIOUS
  <2>2. a = [class |-> "api", status |-> s, body |-> b]
    BY <1>4, <2>1
  <2>3. b <= ExcerptCap
    BY <1>1, <1>4, <2>1 DEF Truncated
  <2>4. Recorded(a) = [a EXCEPT !.body = b]
    BY <2>2, <2>3 DEF Recorded
  <2>5. [a EXCEPT !.body = b] = a
    BY <2>2
  <2> QED
    BY <2>2, <2>4, <2>5 DEF Reraised
<1>5. ASSUME NEW f \in Failures, a = ErrorOf(f)
      PROVE  \/ \E class \in {"pending", "dropped", "transport", "auth", "model", "rate", "parse"} : a = Err(class)
             \/ f.kind = "http" /\ a = [class |-> "api", status |-> f.status, body |-> Truncated(f.body)]
  BY <1>5 DEF ErrorOf, StatusToError
<1> QED
  BY <1>2, <1>3, <1>4, <1>5 DEF Answers

\* How the count of recorded answers moves with the latest request.
LEMMA ToldMoves ==
  ASSUME TransportInv, requests # <<>>, ~ now.taped, NEW r, WithNow(r), r.provider = now.provider, r.taped \in BOOLEAN
  PROVE  LET n == Len(requests)
         IN  /\ n \in Nat \ {0} /\ DOMAIN requests = 1 .. n /\ Len(requests') = n /\ DOMAIN requests' = 1 .. n
             /\ requests'[n] = r
             /\ \A i \in 1 .. n - 1 : requests'[i] = requests[i]
             /\ \A p : \A i \in 1 .. n - 1 : Told(p, i)' = Told(p, i) /\ (ForTape(p, i)' <=> ForTape(p, i))
             /\ \A p : Told(p, n) \in Nat
             /\ \A p : Told(p, n)' = IF r.taped /\ r.provider = p THEN Told(p, n) + 1 ELSE Told(p, n)
<1>1. PICK n : n = Len(requests)
  OBVIOUS
<1>2. /\ n \in Nat \ {0} /\ DOMAIN requests = 1 .. n /\ Len(requests') = n /\ DOMAIN requests' = 1 .. n
      /\ requests'[n] = r /\ now = requests[n]
      /\ \A i \in 1 .. n - 1 : requests'[i] = requests[i]
  BY <1>1 DEF TransportInv, TransportTypes, WithNow, Last, now
<1>3. ASSUME NEW p, NEW i \in 1 .. n - 1
      PROVE  Told(p, i)' = Told(p, i) /\ (ForTape(p, i)' <=> ForTape(p, i))
  <2>1. \A j \in 1 .. i : j \in 1 .. n - 1
    BY <1>2
  <2>2. \A j \in 1 .. i : ForTape(p, j)' <=> ForTape(p, j)
    BY <1>2, <2>1 DEF ForTape
  <2>3. i \in 1 .. i
    BY <1>2
  <2> QED
    BY <2>2, <2>3 DEF Told
<1>4. ASSUME NEW p
      PROVE  /\ Told(p, n) \in Nat
             /\ Told(p, n)' = IF r.taped /\ r.provider = p THEN Told(p, n) + 1 ELSE Told(p, n)
  <2> DEFINE S == {j \in 1 .. n : ForTape(p, j)}
             T == {j \in 1 .. n : ForTape(p, j)'}
  <2>1. IsFiniteSet(S) /\ Cardinality(S) \in Nat
    <3>1. IsFiniteSet(1 .. n) /\ S \in SUBSET (1 .. n)
      BY <1>2, FS_Interval
    <3> HIDE DEF S
    <3> QED
      BY <3>1, FS_Subset, FS_CardinalityType
  <2>2. n \notin S
    BY <1>2 DEF ForTape
  <2>3. \A j \in 1 .. n : j = n \/ j \in 1 .. n - 1
    BY <1>2
  <2>4. n \in 1 .. n /\ (ForTape(p, n)' <=> r.provider = p /\ r.taped)
    BY <1>2 DEF ForTape
  <2>5. T = IF r.taped /\ r.provider = p THEN S \cup {n} ELSE S
    BY <1>3, <2>2, <2>3, <2>4
  <2>6. Told(p, n) = Cardinality(S) /\ Told(p, n)' = Cardinality(T)
    BY DEF Told
  <2> HIDE DEF S, T
  <2> QED
    BY <2>1, <2>2, <2>5, <2>6, FS_AddElement
<1> QED
  BY <1>1, <1>2, <1>3, <1>4

\* The latest request changes and nothing is recorded of it.
LEMMA UntoldKeeps ==
  ASSUME TapeInv, TransportInv', requests # <<>>, ~ now.taped, NEW r, WithNow(r), r.provider = now.provider, r.taped = FALSE,
         stage # "replay", UNCHANGED <<providers, tape, again>>
  PROVE  TapeInv'
<1>1. PICK n : n = Len(requests)
  OBVIOUS
<1>2. /\ n \in Nat \ {0} /\ DOMAIN requests = 1 .. n /\ Len(requests') = n /\ DOMAIN requests' = 1 .. n
      /\ requests'[n] = r
      /\ \A i \in 1 .. n - 1 : requests'[i] = requests[i]
      /\ \A p : \A i \in 1 .. n - 1 : Told(p, i)' = Told(p, i) /\ (ForTape(p, i)' <=> ForTape(p, i))
      /\ \A p : Told(p, n)' = Told(p, n)
  BY <1>1, ToldMoves DEF TapeInv
<1>3. \A i \in 1 .. n : i = n \/ i \in 1 .. n - 1
  BY <1>2
<1>4. now = requests[n]
  BY <1>1 DEF Last, now
<1>5. TapeTypes'
  BY <1>2, <1>3, <1>4 DEF TapeInv, TapeTypes
<1>6. TapeTells'
  <2> SUFFICES ASSUME NEW p \in providers
               PROVE  /\ Len(tape[p]) = Told(p, n)'
                      /\ \A i \in 1 .. n : ForTape(p, i)' =>
                           Told(p, i)' \in 1 .. Len(tape[p]) /\ tape[p][Told(p, i)'] = requests'[i].answer
    BY <1>2 DEF TapeTells
  <2>1. Len(tape[p]) = Told(p, n)'
    BY <1>1, <1>2 DEF TapeInv, TapeTells
  <2>2. ASSUME NEW i \in 1 .. n, ForTape(p, i)'
        PROVE  Told(p, i)' \in 1 .. Len(tape[p]) /\ tape[p][Told(p, i)'] = requests'[i].answer
    <3>1. i \in 1 .. n - 1
      BY <1>2, <1>3, <2>2 DEF ForTape
    <3> QED
      BY <1>2, <2>2, <3>1 DEF TapeInv, TapeTells
  <2> QED
    BY <2>1, <2>2
<1>7. ReplayPops'
  BY DEF TapeInv, ReplayPops
<1> QED
  BY <1>5, <1>6, <1>7 DEF TapeInv

LEMMA AskUntold == ASSUME NEW p, TapeInv, TransportInv', Ask(p) PROVE TapeInv'
<1> DEFINE r == [provider |-> p, outcomes |-> <<>>, answer |-> Err("pending"), taped |-> FALSE]
<1>1. PICK n : n = Len(requests)
  OBVIOUS
<1>2. /\ requests' = Append(requests, r) /\ UNCHANGED <<providers, tape, again>> /\ stage = "idle" /\ p \in providers
  BY DEF Ask
<1>3. r.provider = p /\ ~ r.taped
  OBVIOUS
<1> HIDE DEF r
<1>4. /\ n \in Nat /\ DOMAIN requests = 1 .. n /\ DOMAIN requests' = 1 .. n + 1 /\ Len(requests') = n + 1
      /\ requests'[n + 1] = r /\ \A i \in 1 .. n : requests'[i] = requests[i]
  BY <1>1, <1>2 DEF TapeInv, TransportInv, TransportTypes
<1>5. \A i \in 1 .. n + 1 : i = n + 1 \/ i \in 1 .. n
  BY <1>4
<1>6. TapeTypes'
  BY <1>2, <1>3, <1>4, <1>5 DEF TapeInv, TapeTypes
<1>7. TapeTells'
  <2> SUFFICES ASSUME NEW q \in providers
               PROVE  /\ Len(tape[q]) = Told(q, n + 1)'
                      /\ \A i \in 1 .. n + 1 : ForTape(q, i)' =>
                           Told(q, i)' \in 1 .. Len(tape[q]) /\ tape[q][Told(q, i)'] = requests'[i].answer
    BY <1>2, <1>4 DEF TapeTells
  <2>1. \A i \in 1 .. n : ForTape(q, i)' <=> ForTape(q, i)
    BY <1>4 DEF ForTape
  <2>2. ~ ForTape(q, n + 1)'
    BY <1>3, <1>4 DEF ForTape
  <2>3. ASSUME NEW i \in 1 .. n PROVE Told(q, i)' = Told(q, i)
    <3>1. \A j \in 1 .. i : j \in 1 .. n
      BY <1>4
    <3> QED
      BY <2>1, <3>1 DEF Told
  <2>4. {j \in 1 .. n + 1 : ForTape(q, j)'} = {j \in 1 .. n : ForTape(q, j)}
    <3>1. \A j \in 1 .. n : j \in 1 .. n + 1
      BY <1>4
    <3> QED
      BY <1>5, <2>1, <2>2, <3>1
  <2>5. Told(q, n + 1)' = Told(q, n)
    BY <2>4 DEF Told
  <2>6. Len(tape[q]) = Told(q, n)
    BY <1>1 DEF TapeInv, TapeTells
  <2> QED
    BY <1>4, <1>5, <2>1, <2>2, <2>3, <2>5, <2>6 DEF TapeInv, TapeTells
<1>8. ReplayPops'
  BY <1>2 DEF TapeInv, ReplayPops
<1> QED
  BY <1>6, <1>7, <1>8 DEF TapeInv

\* The answer is told, and written first if it can be.
LEMMA TellRecords ==
  ASSUME TapeInv, TransportInv', NEW a \in Answers, NEW o, NEW written \in BOOLEAN,
         stage = "sending", Tell(a, o, written), UNCHANGED <<providers, again>>
  PROVE  TapeInv'
<1> DEFINE r == [now EXCEPT !.outcomes = Append(@, o), !.answer = IF written THEN a ELSE Err("transport"),
                            !.taped = written]
<1>1. requests # <<>> /\ ~ now.taped /\ now \in Request
  BY NowIsRequest DEF TapeInv, TransportInv, InFlight, Open
<1>2. WithNow(r) /\ r.provider = now.provider /\ r.taped = written /\ (written => r.answer = a)
  BY <1>1 DEF Tell, Request
<1> HIDE DEF r
<1>3. CASE ~ written
  <2>1. tape' = tape
    BY <1>3 DEF Tell
  <2> QED
    BY <1>1, <1>2, <1>3, <2>1, UntoldKeeps
<1>4. CASE written
  <2>1. PICK n, here : n = Len(requests) /\ here = now.provider
    OBVIOUS
  <2>2. /\ n \in Nat \ {0} /\ DOMAIN requests = 1 .. n /\ Len(requests') = n /\ DOMAIN requests' = 1 .. n
        /\ requests'[n] = r
        /\ \A i \in 1 .. n - 1 : requests'[i] = requests[i]
        /\ \A p : \A i \in 1 .. n - 1 : Told(p, i)' = Told(p, i) /\ (ForTape(p, i)' <=> ForTape(p, i))
        /\ \A p : Told(p, n) \in Nat
        /\ \A p : Told(p, n)' = IF r.taped /\ r.provider = p THEN Told(p, n) + 1 ELSE Told(p, n)
    BY <1>1, <1>2, <2>1, ToldMoves DEF TapeInv
  <2>3. \A i \in 1 .. n : i = n \/ i \in 1 .. n - 1
    BY <2>2
  <2>4. now = requests[n] /\ here \in providers
    BY <2>1, <2>2 DEF Last, now, TapeInv, TapeTypes
  <2>5. tape' = [tape EXCEPT ![here] = Append(@, a)]
    BY <1>4, <2>1, KeptWhole DEF Tell
  <2>6. /\ tape[here] \in Seq(Answers) /\ tape'[here] = Append(tape[here], a)
        /\ \A p \in providers \ {here} : tape'[p] = tape[p]
    BY <2>4, <2>5 DEF TapeInv, TapeTypes
  <2>7. /\ Len(tape[here]) \in Nat /\ Len(tape'[here]) = Len(tape[here]) + 1 /\ tape'[here] \in Seq(Answers)
        /\ tape'[here][Len(tape[here]) + 1] = a
        /\ \A k \in 1 .. Len(tape[here]) : tape'[here][k] = tape[here][k]
    BY <2>6
  <2>8. TapeTypes'
    <3>1. tape' \in [providers -> Seq(Answers)]
      BY <2>5, <2>6, <2>7 DEF TapeInv, TapeTypes
    <3>2. \A i \in 1 .. n : requests'[i].provider = requests[i].provider
      BY <1>2, <2>2, <2>3, <2>4
    <3> QED
      BY <2>2, <3>1, <3>2 DEF TapeInv, TapeTypes
  <2>9. TapeTells'
    <3> SUFFICES ASSUME NEW p \in providers
                 PROVE  /\ Len(tape'[p]) = Told(p, n)'
                        /\ \A i \in 1 .. n : ForTape(p, i)' =>
                             Told(p, i)' \in 1 .. Len(tape'[p]) /\ tape'[p][Told(p, i)'] = requests'[i].answer
      BY <2>2 DEF TapeTells
    <3>1. Len(tape[p]) = Told(p, n)
      BY <2>1 DEF TapeInv, TapeTells
    <3>2. \A i \in 1 .. n - 1 : ForTape(p, i)' =>
            Told(p, i)' \in 1 .. Len(tape[p]) /\ tape[p][Told(p, i)'] = requests'[i].answer
      BY <2>2 DEF TapeInv, TapeTells
    <3>3. CASE p = here
      <4>1. Told(p, n)' = Len(tape[p]) + 1
        BY <1>2, <1>4, <2>1, <2>2, <3>1, <3>3
      <4>2. requests'[n].answer = a
        BY <1>2, <1>4, <2>2
      <4>3. \A i \in 1 .. n - 1 : ForTape(p, i)' =>
              Told(p, i)' \in 1 .. Len(tape'[p]) /\ tape'[p][Told(p, i)'] = requests'[i].answer
        BY <2>7, <3>2, <3>3
      <4> QED
        BY <2>3, <2>7, <3>3, <4>1, <4>2, <4>3
    <3>4. CASE p # here
      <4>1. Told(p, n)' = Len(tape'[p]) /\ tape'[p] = tape[p] /\ ~ ForTape(p, n)'
        BY <1>2, <2>1, <2>2, <2>6, <3>1, <3>4 DEF ForTape
      <4> QED
        BY <2>3, <3>2, <4>1
    <3> QED
      BY <3>3, <3>4
  <2>10. ReplayPops'
    BY DEF TapeInv, ReplayPops
  <2> QED
    BY <2>8, <2>9, <2>10 DEF TapeInv
<1> QED
  BY <1>3, <1>4

LEMMA ReaskPops == ASSUME NEW q, TapeInv, TransportInv', Reask(q) PROVE TapeInv'
<1>1. /\ q \in providers /\ stage = "replay" /\ UNCHANGED <<providers, stage, requests, tape>>
      /\ again' = [again EXCEPT ![q] = Append(@, Popped(q, Len(@) + 1))]
  BY DEF Reask
<1>2. Len(again[q]) \in Nat /\ Len(tape[q]) \in Nat /\ again[q] \in Seq(Answers \cup {Err("miss")})
  BY <1>1 DEF TapeInv, TapeTypes
<1>3. Popped(q, Len(again[q]) + 1) \in Answers \cup {Err("miss")}
  <2>1. CASE Len(again[q]) + 1 <= Len(tape[q])
    <3>1. tape[q][Len(again[q]) + 1] \in Answers
      BY <1>1, <1>2, <2>1 DEF TapeInv, TapeTypes
    <3> QED
      BY <2>1, <3>1, KeptWhole DEF Popped
  <2> QED
    BY <2>1 DEF Popped
<1>4. PICK x : x = Popped(q, Len(again[q]) + 1)
  OBVIOUS
<1>5. /\ again'[q] = Append(again[q], x) /\ again' \in [providers -> Seq(Answers \cup {Err("miss")})]
      /\ \A p \in providers \ {q} : again'[p] = again[p]
  BY <1>1, <1>2, <1>3, <1>4 DEF TapeInv, TapeTypes
<1>6. TapeTypes' /\ TapeTells'
  <2>1. \A p, i : (ForTape(p, i)' <=> ForTape(p, i)) /\ Told(p, i)' = Told(p, i)
    BY <1>1 DEF ForTape, Told
  <2> QED
    BY <1>1, <1>5, <2>1 DEF TapeInv, TapeTypes, TapeTells
<1>7. ReplayPops'
  <2> SUFFICES ASSUME NEW p \in providers, NEW k \in 1 .. Len(again'[p]) PROVE again'[p][k] = Popped(p, k)
    BY <1>1 DEF ReplayPops, Popped
  <2>1. CASE p = q
    <3>1. k \in 1 .. Len(again[q]) \/ k = Len(again[q]) + 1
      BY <1>2, <1>5, <2>1
    <3>2. \A i \in 1 .. Len(again[q]) : again'[q][i] = again[q][i]
      BY <1>2, <1>5
    <3>3. again'[q][Len(again[q]) + 1] = x
      BY <1>2, <1>5
    <3> QED
      BY <1>1, <1>4, <2>1, <3>1, <3>2, <3>3 DEF TapeInv, ReplayPops
  <2>2. CASE p # q
    BY <1>5, <2>2 DEF TapeInv, ReplayPops
  <2> QED
    BY <2>1, <2>2
<1> QED
  BY <1>6, <1>7 DEF TapeInv

LEMMA TapeStays ==
  ASSUME TapeInv, TransportInv', Build \/ Resend \/ Rewind \/ UNCHANGED transport
  PROVE  TapeInv'
<1>1. UNCHANGED <<providers, requests, tape, again>> /\ (stage = "replay" => stage' = "replay")
  BY DEF Build, Resend, Rewind, transport
<1>2. \A p, i : (ForTape(p, i)' <=> ForTape(p, i)) /\ Told(p, i)' = Told(p, i) /\ Popped(p, i)' = Popped(p, i)
  BY <1>1 DEF ForTape, Told, Popped
<1>3. TapeTypes' /\ TapeTells'
  BY <1>1, <1>2 DEF TapeInv, TapeTypes, TapeTells
<1>4. ReplayPops'
  BY <1>1, <1>2 DEF TapeInv, ReplayPops
<1> QED
  BY <1>3, <1>4 DEF TapeInv

LEMMA TapeStarts == TransportInit => TapeInv
<1> SUFFICES ASSUME TransportInit PROVE TapeInv
  OBVIOUS
<1>1. requests = <<>> /\ tape = [p \in providers |-> <<>>] /\ again = [p \in providers |-> <<>>]
  BY DEF TransportInit
<1>2. \A p : Told(p, 0) = 0
  <2>1. \A p : {j \in 1 .. 0 : ForTape(p, j)} = {}
    OBVIOUS
  <2> QED
    BY <2>1, FS_EmptySet DEF Told
<1>3. TapeTypes
  BY <1>1 DEF TapeTypes
<1>4. TapeTells
  BY <1>1, <1>2 DEF TapeTells
<1> QED
  BY <1>1, <1>3, <1>4, TransportStarts DEF TapeInv, ReplayPops

LEMMA TapeKeeps == TapeInv /\ [TransportNext]_transport => TapeInv'
<1> SUFFICES ASSUME TapeInv, [TransportNext]_transport PROVE TapeInv'
  OBVIOUS
<1>1. TransportInv'
  BY TransportKeeps DEF TapeInv
<1>2. stage \in {"sending", "backoff"} => requests # <<>> /\ now.taped = FALSE /\ now \in Request
  BY NowIsRequest DEF TapeInv, TransportInv, InFlight, Open, Request
<1>3. ASSUME NEW f \in Failures, FailsTransiently(f) PROVE TapeInv'
  <2> DEFINE r == [now EXCEPT !.outcomes = Append(@, f)]
  <2>1. /\ WithNow(r) /\ r.provider = now.provider /\ r.taped = FALSE
        /\ stage = "sending" /\ UNCHANGED <<providers, tape, again>>
    BY <1>2, <1>3 DEF FailsTransiently, Request
  <2> HIDE DEF r
  <2> QED
    BY <1>1, <1>2, <2>1, UntoldKeeps
<1>4. ASSUME DropRequest PROVE TapeInv'
  <2> DEFINE r == [now EXCEPT !.answer = Err("dropped")]
  <2>1. /\ WithNow(r) /\ r.provider = now.provider /\ r.taped = FALSE
        /\ stage \in {"sending", "backoff"} /\ UNCHANGED <<providers, tape, again>>
    BY <1>2, <1>4 DEF DropRequest, Request
  <2> HIDE DEF r
  <2> QED
    BY <1>1, <1>2, <2>1, UntoldKeeps
<1>5. ASSUME NEW r \in Replies, NEW written \in BOOLEAN, Replied(r, written) PROVE TapeInv'
  BY <1>1, <1>5, TellRecords DEF Replied, Answers
<1>6. ASSUME NEW f \in Failures, NEW written \in BOOLEAN, FailsForGood(f, written) PROVE TapeInv'
  BY <1>1, <1>6, TellRecords DEF FailsForGood, Answers
<1> QED
  BY <1>1, <1>3, <1>4, <1>5, <1>6, AskUntold, ReaskPops, TapeStays DEF TransportNext

LEMMA TapeInvSuffices == TapeInv => ReplayedAsAnswered
<1> SUFFICES ASSUME TapeInv, NEW p \in providers
             PROVE  /\ \A i \in DOMAIN requests :
                         ForTape(p, i) /\ Told(p, i) <= Len(again[p]) => again[p][Told(p, i)] = requests[i].answer
                    /\ \A k \in Told(p, Len(requests)) + 1 .. Len(again[p]) : again[p][k] = Err("miss")
  BY DEF ReplayedAsAnswered
<1>1. /\ tape[p] \in Seq(Answers) /\ Len(tape[p]) \in Nat /\ Len(again[p]) \in Nat
      /\ Len(tape[p]) = Told(p, Len(requests))
  BY DEF TapeInv, TapeTypes, TapeTells
<1>2. ASSUME NEW i \in DOMAIN requests, ForTape(p, i), Told(p, i) <= Len(again[p])
      PROVE  again[p][Told(p, i)] = requests[i].answer
  <2>1. PICK k : k = Told(p, i)
    OBVIOUS
  <2>2. k \in 1 .. Len(tape[p]) /\ tape[p][k] = requests[i].answer
    BY <1>2, <2>1 DEF TapeInv, TapeTells
  <2>3. again[p][k] = Reraised(tape[p][k]) /\ tape[p][k] \in Answers
    BY <1>1, <1>2, <2>1, <2>2 DEF TapeInv, ReplayPops, Popped
  <2> QED
    BY <2>1, <2>2, <2>3, KeptWhole
<1>3. ASSUME NEW k \in Told(p, Len(requests)) + 1 .. Len(again[p]) PROVE again[p][k] = Err("miss")
  BY <1>1 DEF TapeInv, ReplayPops, Popped
<1> QED
  BY <1>2, <1>3

LEMMA FetchInvSuffices == FetchInv => EveryHopJudged
BY DEF FetchInv, AskedJudged, Judged, EveryHopJudged

-----------------------------------------------------------------------------
(* File tools.  A call that has passed the jail works on a place of the    *)
(* root, or on a new one under a link of it; what it puts in place is      *)
(* synced; only a call that was answered ok has changed a file.            *)

\* The jail lets the call work at this place.
MayWork(c, p) == p[1] # Root => scene.calls[c].req.dir \in Inside /\ p \notin DOMAIN scene.files

InOrder(c, d) ==
  /\ DOMAIN d = {"pc", "place", "base", "temp", "size", "answer"}
  /\ DOMAIN d.temp = {"text", "synced", "there"}
  /\ d.pc \notin {"jail", "over"} => MayWork(c, d.place)
  /\ d.pc \in {"parent", "stage", "write", "sync", "rename"} => Tool(c) # "Read"
  /\ d.pc \in {"write", "sync", "rename"} => d.temp.there = TRUE
  /\ d.pc = "rename" => d.temp.synced = TRUE

FileTypes == scene \in Scenes /\ doing = [c \in Calls |-> doing[c]] /\ disk = [p \in Places |-> disk[p]]

CallsInOrder == \A c \in Calls : InOrder(c, doing[c])

DiskSynced == \A p \in Places : disk[p].synced = TRUE

ParentsOfCalls ==
  \A q \in parents : q \in scene.parents \/ \E c \in Calls : doing[c].pc # "jail" /\ LetAt(c, q)

FilesStay == \A p \in Places : p \in DOMAIN scene.files => disk[p].there

ChangedByOk ==
  \A p \in Places : Differs(p) =>
    \E c \in Calls : LetAt(c, p) /\ Tool(c) # "Read" /\ doing[c].answer = "ok" /\ doing[c].pc = "over"

FilesInv ==
  FileTypes /\ CallsInOrder /\ DiskSynced /\ ParentsOfCalls /\ FilesStay /\ ChangedByOk

LEMMA FilesStart == FilesInit => FilesInv
<1> SUFFICES ASSUME FilesInit PROVE FilesInv
  OBVIOUS
<1>1. FileTypes /\ CallsInOrder
  BY DEF FilesInit, FileTypes, CallsInOrder, InOrder, Fresh, NoFile
<1>2. ASSUME NEW p \in Places
      PROVE  /\ disk[p].synced = TRUE /\ (disk[p].there <=> p \in DOMAIN scene.files)
             /\ p \in DOMAIN scene.files => disk[p].text = scene.files[p]
  <2>1. CASE p \in DOMAIN scene.files
    <3>1. disk[p] = [text |-> scene.files[p], synced |-> TRUE, there |-> TRUE]
      BY <2>1 DEF FilesInit, File
    <3> QED
      BY <2>1, <3>1
  <2>2. CASE p \notin DOMAIN scene.files
    <3>1. disk[p] = [text |-> <<>>, synced |-> TRUE, there |-> FALSE]
      BY <2>2 DEF FilesInit, NoFile
    <3> QED
      BY <2>2, <3>1
  <2> QED
    BY <2>1, <2>2
<1> QED
  BY <1>1, <1>2 DEF FilesInit, FilesInv, DiskSynced, ParentsOfCalls, FilesStay, ChangedByOk, Differs, FileTypes

\* A call goes on, and the files stay as they are.
LEMMA CallMoves ==
  ASSUME FilesInv, NEW c \in Calls, NEW d, Step(c, d), InOrder(c, d), d.pc # "jail",
         doing[c].pc # "over", doing[c].pc = "jail" \/ d.place = doing[c].place,
         disk' = disk, \A q \in parents' : q \in parents \/ (q = d.place /\ MayWork(c, q))
  PROVE  FilesInv'
<1>1. /\ scene' = scene /\ doing' = [doing EXCEPT ![c] = d] /\ doing = [e \in Calls |-> doing[e]]
  BY DEF Step, FilesInv, FileTypes
<1>2. Calls' = Calls /\ \A e \in Calls : Tool(e)' = Tool(e)
  BY <1>1 DEF Calls, Tool
<1>3. doing'[c] = d /\ \A e \in Calls \ {c} : doing'[e] = doing[e]
  BY <1>1
<1>4. FileTypes'
  BY <1>1, <1>2 DEF FilesInv, FileTypes
<1>5. CallsInOrder'
  <2> SUFFICES ASSUME NEW e \in Calls PROVE InOrder(e, doing[e])'
    BY <1>2 DEF CallsInOrder
  <2>1. InOrder(e, doing'[e]) /\ Tool(e)' = Tool(e)
    BY <1>2, <1>3 DEF FilesInv, CallsInOrder
  <2> QED
    BY <1>1, <2>1 DEF InOrder, MayWork
<1>6. DiskSynced' /\ FilesStay'
  BY <1>1 DEF FilesInv, DiskSynced, FilesStay
<1>7. ParentsOfCalls'
  <2> SUFFICES ASSUME NEW q \in parents', q \notin scene.parents
               PROVE  \E e \in Calls : doing'[e].pc # "jail" /\ LetAt(e, q)'
    BY <1>1, <1>2 DEF ParentsOfCalls
  <2>1. CASE q = d.place /\ MayWork(c, q)
    BY <1>1, <1>3, <2>1 DEF LetAt, MayWork
  <2>2. CASE q \in parents /\ ~ (q = d.place /\ MayWork(c, q))
    <3>1. PICK e \in Calls : doing[e].pc # "jail" /\ LetAt(e, q)
      BY <2>2 DEF FilesInv, ParentsOfCalls
    <3>2. e # c
      BY <2>2, <3>1 DEF LetAt, MayWork
    <3> QED
      BY <1>1, <1>3, <3>1, <3>2 DEF LetAt
  <2> QED
    BY <2>1, <2>2
<1>8. ChangedByOk'
  <2> SUFFICES ASSUME NEW p \in Places, Differs(p)'
               PROVE  \E e \in Calls : /\ LetAt(e, p)' /\ Tool(e) # "Read"
                                       /\ doing'[e].answer = "ok" /\ doing'[e].pc = "over"
    BY <1>1, <1>2 DEF ChangedByOk
  <2>1. Differs(p)
    BY <1>1 DEF Differs
  <2>2. PICK e \in Calls : LetAt(e, p) /\ Tool(e) # "Read" /\ doing[e].answer = "ok" /\ doing[e].pc = "over"
    BY <2>1 DEF FilesInv, ChangedByOk
  <2> QED
    BY <1>1, <1>3, <2>2 DEF LetAt
<1> QED
  BY <1>4, <1>5, <1>6, <1>7, <1>8 DEF FilesInv

LEMMA CallAnswers ==
  ASSUME FilesInv, NEW c \in Calls, NEW a, Answer(c, a), doing[c].pc # "over", UNCHANGED <<disk, parents>>
  PROVE  FilesInv'
<1> DEFINE d == [doing[c] EXCEPT !.pc = "over", !.answer = a, !.temp = NoFile]
<1>1. Step(c, d)
  BY DEF Answer
<1>2. InOrder(c, d) /\ d.pc = "over" /\ d.place = doing[c].place
  BY DEF FilesInv, CallsInOrder, InOrder, NoFile
<1> HIDE DEF d
<1> QED
  BY <1>1, <1>2, CallMoves

\* A path that exists leads to the root; one that does not, and is not taken
\* from there, is under a link of the root.
LEMMA AdmittedTo ==
  ASSUME FilesInv, NEW c \in Calls, Admitted(scene.calls[c])
  PROVE  MayWork(c, Resolved(scene.calls[c].req)) /\ Resolved(scene.calls[c].req) \in Places
<1> DEFINE req == scene.calls[c].req
           p == Resolved(req)
<1>1. /\ scene \in Scenes /\ req.dir \in Dirs \cup DOMAIN Links \cup {"relative"} /\ req.name \in FileNames
      /\ scene.cwd \in Dirs /\ Root \in Dirs /\ Links \in [DOMAIN Links -> Dirs] /\ Root \notin DOMAIN Links
      /\ "relative" \notin Dirs \cup DOMAIN Links
  BY FilesAssumption DEF FilesInv, FileTypes, Calls
<1>2. UnderRoot(req)
  BY DEF Admitted
<1>3. Looked(req) \in Places
  BY <1>1 DEF Looked, Real, Places
<1>4. p \in Places
  BY <1>1, <1>3 DEF Resolved, Places
<1>5. ASSUME p[1] # Root PROVE req.dir \in Inside /\ p \notin DOMAIN scene.files
  <2>1. req.dir # "relative" \/ Exists(req)
    BY <1>5 DEF Resolved
  <2>2. p = Looked(req) /\ ~ Exists(req)
    BY <1>2, <1>5, <2>1 DEF Resolved, UnderRoot
  <2>3. req.dir # Root
    BY <1>1, <1>5, <2>2 DEF Looked, Real
  <2>4. p \notin DOMAIN scene.files
    BY <1>3, <2>2 DEF Exists, FilesInv, FilesStay
  <2> QED
    BY <1>2, <2>1, <2>2, <2>3, <2>4 DEF UnderRoot
<1> QED
  BY <1>4, <1>5 DEF MayWork

LEMMA JailKeeps == ASSUME FilesInv, NEW c \in Calls, Jail(c) PROVE FilesInv'
<1> DEFINE call == scene.calls[c]
           d == [doing[c] EXCEPT !.place = Resolved(call.req),
                                 !.pc = IF Tool(c) = "Write" THEN "parent" ELSE "file"]
<1>1. doing[c].pc = "jail" /\ UNCHANGED <<disk, parents>>
  BY DEF Jail, At
<1>2. CASE Answer(c, "denied")
  BY <1>1, <1>2, CallAnswers
<1>3. CASE Admitted(call) /\ Step(c, d)
  <2>1. MayWork(c, Resolved(call.req))
    BY <1>3, AdmittedTo DEF FilesInv, Calls
  <2>2. InOrder(c, d) /\ d.pc # "jail"
    BY <2>1 DEF FilesInv, CallsInOrder, InOrder
  <2> HIDE DEF d
  <2> QED
    BY <1>1, <1>3, <2>2, CallMoves
<1> QED
  BY <1>2, <1>3 DEF Jail

\* A step within the file tools' work that leaves the disk alone.
LEMMA WorkKeeps ==
  ASSUME FilesInv, NEW c \in Calls,
         MakeParent(c) \/ ReadOriginal(c) \/ Stage(c) \/ WriteTemp(c) \/ Sync(c)
           \/ Stat(c) \/ ReadFile(c) \/ Fails(c)
  PROVE  FilesInv'
<1>0. InOrder(c, doing[c])
  BY DEF FilesInv, CallsInOrder
<1>1. CASE Fails(c)
  BY <1>1, CallAnswers DEF Fails, At
<1>2. CASE MakeParent(c)
  <2> DEFINE d == [doing[c] EXCEPT !.pc = "stage", !.base = scene.calls[c].text]
  <2>1. doing[c].pc = "parent" /\ Step(c, d) /\ disk' = disk /\ parents' = parents \cup {doing[c].place}
    BY <1>2 DEF MakeParent, At
  <2>2. InOrder(c, d) /\ d.pc = "stage" /\ d.place = doing[c].place
    BY <1>0, <2>1 DEF InOrder
  <2> HIDE DEF d
  <2>3. MayWork(c, doing[c].place)
    BY <1>0, <2>1 DEF InOrder
  <2> QED
    BY <2>1, <2>2, <2>3, CallMoves
<1>3. CASE ReadOriginal(c)
  <2> DEFINE d == [doing[c] EXCEPT !.pc = "stage", !.base = Edited(disk[doing[c].place].text, scene.calls[c])]
  <2>1. doing[c].pc = "file" /\ Tool(c) = "Edit" /\ UNCHANGED <<disk, parents>>
    BY <1>3 DEF ReadOriginal, At
  <2>2. Answer(c, "error") \/ Answer(c, "invalid") \/ Step(c, d)
    BY <1>3 DEF ReadOriginal
  <2>3. InOrder(c, d) /\ d.pc = "stage" /\ d.place = doing[c].place
    BY <1>0, <2>1 DEF InOrder
  <2> HIDE DEF d
  <2> QED
    BY <2>1, <2>2, <2>3, CallMoves, CallAnswers
<1>4. CASE Stage(c)
  <2> DEFINE d == [doing[c] EXCEPT !.pc = "write", !.temp = File(<<>>, FALSE)]
  <2>1. doing[c].pc = "stage" /\ Step(c, d) /\ UNCHANGED <<disk, parents>>
    BY <1>4 DEF Stage, At
  <2>2. InOrder(c, d) /\ d.pc = "write" /\ d.place = doing[c].place
    BY <1>0, <2>1 DEF InOrder, File
  <2> HIDE DEF d
  <2> QED
    BY <2>1, <2>2, CallMoves
<1>5. CASE WriteTemp(c)
  <2> DEFINE d == [doing[c] EXCEPT !.pc = "sync"]
             e == [doing[c] EXCEPT !.temp.text = Append(@, doing[c].base[Len(doing[c].temp.text) + 1])]
  <2>1. doing[c].pc = "write" /\ UNCHANGED <<disk, parents>> /\ (Step(c, d) \/ Step(c, e))
    BY <1>5 DEF WriteTemp, At
  <2>2. InOrder(c, d) /\ d.pc = "sync" /\ d.place = doing[c].place
    BY <1>0, <2>1 DEF InOrder
  <2>3. InOrder(c, e) /\ e.pc = "write" /\ e.place = doing[c].place
    BY <1>0, <2>1 DEF InOrder
  <2> HIDE DEF d, e
  <2> QED
    BY <2>1, <2>2, <2>3, CallMoves
<1>6. CASE Sync(c)
  <2> DEFINE d == [doing[c] EXCEPT !.pc = "rename", !.temp.synced = TRUE]
  <2>1. doing[c].pc = "sync" /\ Step(c, d) /\ UNCHANGED <<disk, parents>>
    BY <1>6 DEF Sync, At
  <2>2. InOrder(c, d) /\ d.pc = "rename" /\ d.place = doing[c].place
    BY <1>0, <2>1 DEF InOrder
  <2> HIDE DEF d
  <2> QED
    BY <2>1, <2>2, CallMoves
<1>7. CASE Stat(c)
  <2> DEFINE size == Len(disk[doing[c].place].text)
             d == [doing[c] EXCEPT !.size = size, !.pc = IF size > MaxRead THEN "cut" ELSE "whole"]
  <2>1. doing[c].pc = "file" /\ UNCHANGED <<disk, parents>> /\ (Answer(c, "error") \/ Step(c, d))
    BY <1>7 DEF Stat, At
  <2>2. InOrder(c, d) /\ d.pc # "jail" /\ d.place = doing[c].place
    BY <1>0, <2>1 DEF InOrder
  <2> HIDE DEF d
  <2> QED
    BY <2>1, <2>2, CallMoves, CallAnswers
<1>8. CASE ReadFile(c)
  <2>1. PICK b, a : Step(c, [doing[c] EXCEPT !.pc = "over", !.base = b, !.answer = a])
    BY <1>8 DEF ReadFile
  <2> DEFINE d == [doing[c] EXCEPT !.pc = "over", !.base = b, !.answer = a]
  <2>2. doing[c].pc \in {"cut", "whole"} /\ UNCHANGED <<disk, parents>> /\ Step(c, d)
    BY <1>8, <2>1 DEF ReadFile
  <2>3. InOrder(c, d) /\ d.pc = "over" /\ d.place = doing[c].place
    BY <1>0 DEF InOrder
  <2> HIDE DEF d
  <2> QED
    BY <2>2, <2>3, CallMoves
<1> QED
  BY <1>1, <1>2, <1>3, <1>4, <1>5, <1>6, <1>7, <1>8

LEMMA PersistKeeps == ASSUME FilesInv, NEW c \in Calls, Persist(c) PROVE FilesInv'
<1> DEFINE d == [doing[c] EXCEPT !.pc = "over", !.answer = "ok", !.temp = NoFile]
           here == doing[c].place
<1>1. /\ doing[c].pc = "rename" /\ Step(c, d) /\ parents' = parents
      /\ disk' = [disk EXCEPT ![here] = doing[c].temp] /\ disk = [p \in Places |-> disk[p]]
  BY DEF Persist, At, Answer, FilesInv, FileTypes
<1>2. /\ InOrder(c, doing[c]) /\ MayWork(c, here) /\ Tool(c) # "Read"
      /\ doing[c].temp.there = TRUE /\ doing[c].temp.synced = TRUE
  BY <1>1 DEF FilesInv, CallsInOrder, InOrder
<1>3. InOrder(c, d) /\ d.pc = "over" /\ d.answer = "ok" /\ d.place = here
  BY <1>2 DEF InOrder, NoFile
<1> HIDE DEF d
<1>4. /\ scene' = scene /\ doing' = [doing EXCEPT ![c] = d] /\ doing = [e \in Calls |-> doing[e]]
  BY <1>1 DEF Step, FilesInv, FileTypes
<1>5. Calls' = Calls /\ \A e \in Calls : Tool(e)' = Tool(e)
  BY <1>4 DEF Calls, Tool
<1>6. doing'[c] = d /\ \A e \in Calls \ {c} : doing'[e] = doing[e]
  BY <1>4
<1>7. \A p \in Places : disk'[p] = IF p = here THEN doing[c].temp ELSE disk[p]
  BY <1>1
<1>8. FileTypes'
  BY <1>1, <1>4, <1>5 DEF FilesInv, FileTypes
<1>9. CallsInOrder'
  <2> SUFFICES ASSUME NEW e \in Calls PROVE InOrder(e, doing[e])'
    BY <1>5 DEF CallsInOrder
  <2>1. InOrder(e, doing'[e]) /\ Tool(e)' = Tool(e)
    BY <1>3, <1>5, <1>6 DEF FilesInv, CallsInOrder
  <2> QED
    BY <1>4, <2>1 DEF InOrder, MayWork
<1>10. DiskSynced'
  BY <1>2, <1>7 DEF FilesInv, DiskSynced
<1>11. FilesStay'
  BY <1>2, <1>4, <1>7 DEF FilesInv, FilesStay
<1>12. ParentsOfCalls'
  <2> SUFFICES ASSUME NEW q \in parents, q \notin scene.parents
               PROVE  \E e \in Calls : doing'[e].pc # "jail" /\ LetAt(e, q)'
    BY <1>1, <1>4, <1>5 DEF ParentsOfCalls
  <2>1. PICK e \in Calls : doing[e].pc # "jail" /\ LetAt(e, q)
    BY DEF FilesInv, ParentsOfCalls
  <2> QED
    BY <1>3, <1>4, <1>6, <2>1 DEF LetAt
<1>13. ChangedByOk'
  <2> SUFFICES ASSUME NEW p \in Places, Differs(p)'
               PROVE  \E e \in Calls : /\ LetAt(e, p)' /\ Tool(e) # "Read"
                                       /\ doing'[e].answer = "ok" /\ doing'[e].pc = "over"
    BY <1>4, <1>5 DEF ChangedByOk
  <2>1. CASE p = here
    BY <1>2, <1>3, <1>4, <1>6, <2>1 DEF LetAt, MayWork
  <2>2. CASE p # here
    <3>1. Differs(p)
      BY <1>4, <1>7, <2>2 DEF Differs
    <3>2. PICK e \in Calls : LetAt(e, p) /\ Tool(e) # "Read" /\ doing[e].answer = "ok" /\ doing[e].pc = "over"
      BY <3>1 DEF FilesInv, ChangedByOk
    <3> QED
      BY <1>1, <1>4, <1>6, <3>2 DEF LetAt
  <2> QED
    BY <2>1, <2>2
<1> QED
  BY <1>8, <1>9, <1>10, <1>11, <1>12, <1>13 DEF FilesInv

\* What a crash may cut is what was not synced, which is nothing.
LEMMA CrashLeavesDisk == ASSUME FilesInv, Crash PROVE disk' = disk
<1>1. PICK keep \in 0 .. MaxRead :
        disk' = [p \in Places |->
                   IF disk[p].synced \/ keep >= Len(disk[p].text) THEN disk[p]
                   ELSE File(SubSeq(disk[p].text, 1, keep), TRUE)]
  BY DEF Crash
<1>2. \A p \in Places : disk[p].synced
  BY DEF FilesInv, DiskSynced
<1>3. disk' = [p \in Places |-> disk[p]]
  BY <1>1, <1>2
<1> QED
  BY <1>3 DEF FilesInv, FileTypes

\* A crash ends the calls.
LEMMA CrashKeeps == FilesInv /\ Crash => FilesInv'
<1> SUFFICES ASSUME FilesInv, Crash PROVE FilesInv'
  OBVIOUS
<1>1. /\ UNCHANGED <<scene, parents>>
      /\ doing' = [c \in Calls |-> IF doing[c].pc = "over" THEN doing[c]
                                   ELSE [doing[c] EXCEPT !.pc = "over", !.answer = "killed"]]
  BY DEF Crash, At
<1>2. disk' = disk
  BY CrashLeavesDisk
<1>3. Calls' = Calls /\ \A e \in Calls : Tool(e)' = Tool(e)
  BY <1>1 DEF Calls, Tool
<1>4. ASSUME NEW c \in Calls
      PROVE  /\ InOrder(c, doing'[c]) /\ doing'[c].pc = "over" /\ doing'[c].place = doing[c].place
             /\ doing[c].pc = "over" => doing'[c] = doing[c]
  <2>1. InOrder(c, doing[c])
    BY DEF FilesInv, CallsInOrder
  <2>2. CASE doing[c].pc = "over"
    BY <1>1, <2>1, <2>2
  <2>3. CASE doing[c].pc # "over"
    <3>1. doing'[c] = [doing[c] EXCEPT !.pc = "over", !.answer = "killed"]
      BY <1>1, <2>3
    <3> QED
      BY <2>1, <2>3, <3>1 DEF InOrder
  <2> QED
    BY <2>2, <2>3
<1>5. FileTypes'
  <2>1. disk' = [p \in Places |-> disk'[p]]
    BY <1>2 DEF FilesInv, FileTypes
  <2> QED
    BY <1>1, <1>3, <2>1 DEF FilesInv, FileTypes
<1>6. CallsInOrder'
  <2> SUFFICES ASSUME NEW e \in Calls PROVE InOrder(e, doing[e])'
    BY <1>3 DEF CallsInOrder
  <2>1. InOrder(e, doing'[e]) /\ Tool(e)' = Tool(e)
    BY <1>3, <1>4
  <2> QED
    BY <1>1, <2>1 DEF InOrder, MayWork
<1>7. DiskSynced' /\ FilesStay'
  BY <1>1, <1>2 DEF FilesInv, DiskSynced, FilesStay
<1>8. ParentsOfCalls'
  <2> SUFFICES ASSUME NEW q \in parents, q \notin scene.parents
               PROVE  \E e \in Calls : doing'[e].pc # "jail" /\ LetAt(e, q)'
    BY <1>1, <1>3 DEF ParentsOfCalls
  <2>1. PICK e \in Calls : LetAt(e, q)
    BY DEF FilesInv, ParentsOfCalls
  <2> QED
    BY <1>1, <1>4, <2>1 DEF LetAt
<1>9. ChangedByOk'
  <2> SUFFICES ASSUME NEW p \in Places, Differs(p)'
               PROVE  \E e \in Calls : /\ LetAt(e, p)' /\ Tool(e) # "Read"
                                       /\ doing'[e].answer = "ok" /\ doing'[e].pc = "over"
    BY <1>1, <1>3 DEF ChangedByOk
  <2>1. Differs(p)
    BY <1>1, <1>2 DEF Differs
  <2>2. PICK e \in Calls : LetAt(e, p) /\ Tool(e) # "Read" /\ doing[e].answer = "ok" /\ doing[e].pc = "over"
    BY <2>1 DEF FilesInv, ChangedByOk
  <2> QED
    BY <1>1, <1>4, <2>2 DEF LetAt
<1> QED
  BY <1>5, <1>6, <1>7, <1>8, <1>9 DEF FilesInv

LEMMA FilesUnchanged == FilesInv /\ UNCHANGED fileVars => FilesInv'
<1> SUFFICES ASSUME FilesInv, UNCHANGED fileVars PROVE FilesInv'
  OBVIOUS
<1>1. UNCHANGED <<scene, disk, parents, doing>>
  BY DEF fileVars
<1>2. FileTypes' /\ DiskSynced' /\ FilesStay'
  BY <1>1 DEF FilesInv, FileTypes, DiskSynced, FilesStay, Calls
<1>3. CallsInOrder'
  BY <1>1 DEF FilesInv, CallsInOrder, InOrder, MayWork, Calls, Tool
<1>4. ParentsOfCalls' /\ ChangedByOk'
  BY <1>1 DEF FilesInv, ParentsOfCalls, ChangedByOk, Calls, Tool, LetAt, Differs
<1> QED
  BY <1>2, <1>3, <1>4 DEF FilesInv

LEMMA FilesKeep == FilesInv /\ [FilesNext]_fileVars => FilesInv'
<1> SUFFICES ASSUME FilesInv, FilesNext PROVE FilesInv'
  BY FilesUnchanged
<1> QED
  BY JailKeeps, WorkKeeps, PersistKeeps, CrashKeeps DEF FilesNext, FileStep

LEMMA FilesInvSuffices == FilesInv => RefusedLeavesNothing
BY DEF FilesInv, ParentsOfCalls, ChangedByOk, RefusedLeavesNothing

-----------------------------------------------------------------------------
(* Texts.  What a call stages is meant for its place, what it has written  *)
(* so far is the beginning of that, and all of it when it is put in place. *)

Staged == {"stage", "write", "sync", "rename"}

WholeText(c, d) ==
  /\ d.pc = "jail" => d.place = <<>> /\ d.base = <<>>
  /\ d.pc \notin {"jail", "over"} => d.place \in Places
  /\ d.pc = "parent" => Tool(c) = "Write"
  /\ d.pc = "file" => d.base = <<>>
  /\ d.pc \in {"cut", "whole"} => Tool(c) = "Read"
  /\ d.pc \in Staged => d.base \in Seq(Words)
  /\ d.pc = "write" => /\ d.temp.text \in Seq(Words) /\ Len(d.temp.text) <= Len(d.base)
                       /\ \A i \in 1 .. Len(d.temp.text) : d.temp.text[i] = d.base[i]
  /\ d.pc \in {"sync", "rename"} => d.temp.text = d.base

CallsWhole == \A c \in Calls : WholeText(c, doing[c])

StagedMeant == \A c \in Calls : doing[c].pc \in Staged => Meant(doing[c].place, doing[c].base)

DiskMeant ==
  \A p \in Places : disk[p].there => disk[p].text \in Seq(Words) /\ Meant(p, disk[p].text)

TextsInv == FilesInv /\ scene \in Scenes /\ CallsWhole /\ StagedMeant /\ DiskMeant

LEMMA TextsStart == FilesInit => TextsInv
<1> SUFFICES ASSUME FilesInit PROVE TextsInv
  OBVIOUS
<1>1. FilesInv /\ scene \in Scenes
  BY FilesStart DEF FilesInit
<1>2. CallsWhole /\ StagedMeant
  BY DEF FilesInit, CallsWhole, StagedMeant, WholeText, Staged, Fresh
<1>3. ASSUME NEW p \in Places, disk[p].there
      PROVE  disk[p].text \in Seq(Words) /\ Meant(p, disk[p].text)
  <2>1. p \in DOMAIN scene.files
    BY <1>3 DEF FilesInit, NoFile
  <2>2. disk[p].text = scene.files[p]
    BY <2>1 DEF FilesInit, File
  <2>3. scene.files[p] \in Seq(Words)
    BY <1>1, <2>1, FilesAssumption
  <2>4. Meant(p, scene.files[p])
    BY <2>1 DEF Meant, Given
  <2> QED
    BY <2>2, <2>3, <2>4
<1> QED
  BY <1>1, <1>2, <1>3 DEF TextsInv, DiskMeant

\* What is meant stays meant when calls are admitted and edits get their text.
LEMMA MeantGrows ==
  ASSUME NEW p \in Places, NEW text, Meant(p, text), scene' = scene,
         \A c \in Calls : /\ doing'[c].place = doing[c].place \/ doing[c].place = <<>>
                          /\ doing'[c].base = doing[c].base \/ doing[c].base = <<>> \/ Tool(c) # "Edit"
  PROVE  Meant(p, text)'
<1>1. Calls' = Calls /\ (\A c : Tool(c)' = Tool(c)) /\ p # <<>>
  BY DEF Calls, Tool, Places
<1>2. \A tool : Working(tool, p) \subseteq Working(tool, p)'
  BY <1>1 DEF Working
<1>3. Given(p) \subseteq Given(p)'
  BY <1>2 DEF Given
<1>4. Candidates(p) \subseteq Candidates(p)'
  <2> SUFFICES ASSUME NEW c \in Working("Edit", p)
               PROVE  doing[c].base \in {<<>>} \cup {doing'[e].base : e \in Working("Edit", p)'}
    BY <1>3 DEF Candidates
  <2> QED
    BY <1>2 DEF Working
<1> SUFFICES ASSUME NEW texts \in SUBSET Candidates(p)', Given(p)' \subseteq texts, HoldsEdits(p, texts)'
             PROVE  text \in texts
  BY DEF Meant
<1> DEFINE known == texts \cap Candidates(p)
<1>5. known \in SUBSET Candidates(p) /\ Given(p) \subseteq known
  BY <1>3 DEF Candidates
<1>6. HoldsEdits(p, known)
  <2> SUFFICES ASSUME NEW t \in known, NEW c \in Working("Edit", p),
                      Cardinality(Occurrences(t, scene.calls[c].old)) = 1,
                      Edited(t, scene.calls[c]) \in Candidates(p)
               PROVE  Edited(t, scene.calls[c]) \in texts
    BY DEF HoldsEdits
  <2>1. t \in texts /\ c \in Working("Edit", p)' /\ Edited(t, scene.calls[c]) \in Candidates(p)'
    BY <1>2, <1>4
  <2> QED
    BY <2>1 DEF HoldsEdits
<1> QED
  BY <1>5, <1>6 DEF Meant

\* One call goes on; a text it now has staged is meant.
LEMMA TextsMove ==
  ASSUME TextsInv, FilesInv', NEW c \in Calls, NEW d, Step(c, d), WholeText(c, d),
         d.place = doing[c].place \/ doing[c].place = <<>>,
         d.base = doing[c].base \/ doing[c].base = <<>> \/ Tool(c) # "Edit",
         d.pc \in Staged => Meant(d.place, d.base)' \/ (doing[c].pc \in Staged /\ d.base = doing[c].base
                                                          /\ d.place = doing[c].place),
         disk' = disk
  PROVE  TextsInv'
<1>1. /\ scene' = scene /\ Calls' = Calls /\ \A e : Tool(e)' = Tool(e)
      /\ doing'[c] = d /\ \A e \in Calls \ {c} : doing'[e] = doing[e]
  BY DEF Step, TextsInv, FilesInv, FileTypes, Calls, Tool
<1>2. ASSUME NEW p \in Places, NEW text, Meant(p, text) PROVE Meant(p, text)'
  BY <1>1, <1>2, MeantGrows
<1>3. CallsWhole'
  <2> SUFFICES ASSUME NEW e \in Calls PROVE WholeText(e, doing[e])'
    BY <1>1 DEF CallsWhole
  <2>1. WholeText(e, doing'[e])
    BY <1>1 DEF TextsInv, CallsWhole
  <2> QED
    BY <1>1, <2>1 DEF WholeText
<1>4. StagedMeant'
  <2> SUFFICES ASSUME NEW e \in Calls, doing'[e].pc \in Staged
               PROVE  Meant(doing[e].place, doing[e].base)'
    BY <1>1 DEF StagedMeant
  <2>1. CASE e = c /\ Meant(d.place, d.base)'
    BY <1>1, <2>1
  <2>2. CASE doing[e].pc \in Staged /\ doing'[e].base = doing[e].base /\ doing'[e].place = doing[e].place
    <3>1. Meant(doing[e].place, doing[e].base) /\ doing[e].place \in Places
      BY <2>2 DEF TextsInv, CallsWhole, WholeText, StagedMeant, Staged
    <3> QED
      BY <1>2, <2>2, <3>1
  <2> QED
    BY <1>1, <2>1, <2>2
<1>5. DiskMeant'
  <2> SUFFICES ASSUME NEW p \in Places, disk[p].there
               PROVE  disk[p].text \in Seq(Words) /\ Meant(p, disk[p].text)'
    BY DEF DiskMeant
  <2> QED
    BY <1>2 DEF TextsInv, DiskMeant
<1> QED
  BY <1>1, <1>3, <1>4, <1>5 DEF TextsInv


LEMMA TextsAnswer ==
  ASSUME TextsInv, FilesInv', NEW c \in Calls, NEW a, Answer(c, a), disk' = disk
  PROVE  TextsInv'
<1> DEFINE d == [doing[c] EXCEPT !.pc = "over", !.answer = a, !.temp = NoFile]
<1>1. Step(c, d)
  BY DEF Answer
<1>2. /\ WholeText(c, d) /\ d.place = doing[c].place /\ d.base = doing[c].base /\ d.pc \notin Staged
  BY DEF TextsInv, FilesInv, CallsInOrder, InOrder, WholeText, Staged
<1> HIDE DEF d
<1> QED
  BY <1>1, <1>2, TextsMove

LEMMA TextsJail == ASSUME TextsInv, FilesInv', NEW c \in Calls, Jail(c) PROVE TextsInv'
<1> DEFINE call == scene.calls[c]
           d == [doing[c] EXCEPT !.place = Resolved(call.req),
                                 !.pc = IF Tool(c) = "Write" THEN "parent" ELSE "file"]
<1>1. doing[c].pc = "jail" /\ disk' = disk
  BY DEF Jail, At
<1>2. CASE Answer(c, "denied")
  BY <1>1, <1>2, TextsAnswer
<1>3. CASE Admitted(call) /\ Step(c, d)
  <2>1. Resolved(call.req) \in Places
    BY <1>3, AdmittedTo DEF TextsInv
  <2>2. /\ doing[c].place = <<>> /\ doing[c].base = <<>>
        /\ DOMAIN doing[c] = {"pc", "place", "base", "temp", "size", "answer"}
    BY <1>1 DEF TextsInv, CallsWhole, WholeText, FilesInv, CallsInOrder, InOrder
  <2>3. WholeText(c, d) /\ d.base = doing[c].base /\ d.pc \notin Staged
    BY <2>1, <2>2 DEF WholeText, Staged
  <2> HIDE DEF d
  <2> QED
    BY <1>1, <1>3, <2>2, <2>3, TextsMove
<1> QED
  BY <1>2, <1>3 DEF Jail

\* A beginning of a text, with the next word.
LEMMA OneWordMore ==
  ASSUME NEW S, NEW done \in Seq(S), NEW text \in Seq(S), Len(done) <= Len(text), Len(done) # Len(text),
         \A i \in 1 .. Len(done) : done[i] = text[i]
  PROVE  LET longer == Append(done, text[Len(done) + 1])
         IN  /\ longer \in Seq(S) /\ Len(longer) <= Len(text)
             /\ \A i \in 1 .. Len(longer) : longer[i] = text[i]
<1>1. Len(done) \in Nat /\ Len(text) \in Nat /\ text[Len(done) + 1] \in S
  OBVIOUS
<1> QED
  BY <1>1

LEMMA TextsGoOn ==
  ASSUME TextsInv, FilesInv', NEW c \in Calls,
         MakeParent(c) \/ ReadOriginal(c) \/ Stage(c) \/ WriteTemp(c) \/ Sync(c)
           \/ Stat(c) \/ ReadFile(c) \/ Fails(c)
  PROVE  TextsInv'
<1>0. /\ WholeText(c, doing[c]) /\ InOrder(c, doing[c]) /\ scene \in Scenes
  BY DEF TextsInv, CallsWhole, FilesInv, CallsInOrder
<1>1. CASE Fails(c)
  BY <1>1, TextsAnswer DEF Fails
<1>2. CASE MakeParent(c)
  <2> DEFINE d == [doing[c] EXCEPT !.pc = "stage", !.base = scene.calls[c].text]
  <2>1. doing[c].pc = "parent" /\ Step(c, d) /\ disk' = disk
    BY <1>2 DEF MakeParent, At
  <2>2. Tool(c) = "Write" /\ doing[c].place \in Places /\ scene.calls[c].text \in Seq(Words)
    BY <1>0, <2>1, FilesAssumption DEF WholeText, Calls
  <2>3. /\ WholeText(c, d) /\ d.pc = "stage" /\ d.place = doing[c].place /\ d.base = scene.calls[c].text
    BY <1>0, <2>1, <2>2 DEF WholeText, InOrder, Staged
  <2> HIDE DEF d
  <2>4. /\ scene' = scene /\ doing' = [doing EXCEPT ![c] = d] /\ doing = [e \in Calls |-> doing[e]]
    BY <2>1 DEF Step, TextsInv, FilesInv, FileTypes
  <2>5. PICK e : e = d
    OBVIOUS
  <2>6. c \in Working("Write", e.place)' /\ scene'.calls[c].text = e.base
    BY <2>2, <2>3, <2>4, <2>5 DEF Working, Tool, Calls
  <2>7. Meant(e.place, e.base)'
    BY <2>6 DEF Meant, Given
  <2> QED
    BY <2>1, <2>2, <2>3, <2>5, <2>7, TextsMove
<1>3. CASE ReadOriginal(c)
  <2> DEFINE f == disk[doing[c].place]
             call == scene.calls[c]
             d == [doing[c] EXCEPT !.pc = "stage", !.base = Edited(f.text, call)]
  <2>1. /\ doing[c].pc = "file" /\ Tool(c) = "Edit" /\ disk' = disk
        /\ \/ Answer(c, "error") \/ Answer(c, "invalid")
           \/ f.there /\ Cardinality(Occurrences(f.text, call.old)) = 1 /\ Step(c, d)
    BY <1>3 DEF ReadOriginal, At
  <2>2. CASE Answer(c, "error") \/ Answer(c, "invalid")
    BY <2>1, <2>2, TextsAnswer
  <2>3. CASE f.there /\ Cardinality(Occurrences(f.text, call.old)) = 1 /\ Step(c, d)
    <3>1. doing[c].place \in Places /\ doing[c].base = <<>> /\ call.new \in Words
      BY <1>0, <2>1, FilesAssumption DEF WholeText, Calls
    <3>2. f.text \in Seq(Words) /\ Meant(doing[c].place, f.text)
      BY <2>3, <3>1 DEF TextsInv, DiskMeant
    <3>3. Edited(f.text, call) \in Seq(Words)
      BY <3>1, <3>2 DEF Edited, ReplaceAll
    <3>4. WholeText(c, d) /\ d.pc = "stage" /\ d.place = doing[c].place /\ d.base = Edited(f.text, call)
      BY <1>0, <2>1, <3>1, <3>3 DEF WholeText, InOrder, Staged
    <3> HIDE DEF d
    <3>5. /\ scene' = scene /\ doing' = [doing EXCEPT ![c] = d] /\ doing = [e \in Calls |-> doing[e]]
      BY <2>3 DEF Step, TextsInv, FilesInv, FileTypes
    <3>6. PICK e, whole : e = d /\ whole = f.text
      OBVIOUS
    <3>7. /\ c \in Working("Edit", e.place)' /\ doing'[c].base = e.base /\ scene' = scene
          /\ e.base = Edited(whole, call) /\ e.place \in Places
      BY <2>1, <3>1, <3>4, <3>5, <3>6 DEF Working, Tool, Calls
    <3>8. Meant(e.place, whole)'
      <4>1. \A x \in Calls : /\ doing'[x].place = doing[x].place \/ doing[x].place = <<>>
                             /\ \/ doing'[x].base = doing[x].base \/ doing[x].base = <<>>
                                \/ Tool(x) # "Edit"
        BY <3>1, <3>4, <3>5
      <4> QED
        BY <3>2, <3>4, <3>6, <3>7, <4>1, MeantGrows
    <3>9. Meant(e.place, e.base)'
      <4> SUFFICES ASSUME NEW texts \in SUBSET Candidates(e.place)', Given(e.place)' \subseteq texts,
                          HoldsEdits(e.place, texts)'
                   PROVE  e.base \in texts
        BY DEF Meant
      <4>1. whole \in texts
        BY <3>8 DEF Meant
      <4>2. e.base \in Candidates(e.place)'
        BY <3>7 DEF Candidates
      <4> QED
        BY <2>3, <3>6, <3>7, <4>1, <4>2 DEF HoldsEdits
    <3> QED
      BY <2>1, <2>3, <3>1, <3>4, <3>6, <3>9, TextsMove
  <2> QED
    BY <2>1, <2>2, <2>3
<1>4. CASE Stage(c)
  <2> DEFINE d == [doing[c] EXCEPT !.pc = "write", !.temp = File(<<>>, FALSE)]
  <2>1. doing[c].pc = "stage" /\ Step(c, d) /\ disk' = disk
    BY <1>4 DEF Stage, At
  <2>2. /\ d.pc = "write" /\ d.place = doing[c].place /\ d.base = doing[c].base
        /\ d.temp.text = <<>> /\ doing[c].pc \in Staged
    BY <1>0, <2>1 DEF InOrder, Staged, File
  <2> HIDE DEF d
  <2>3. <<>> \in Seq(Words) /\ Len(<<>>) = 0 /\ \A s \in Seq(Words) : 0 <= Len(s)
    OBVIOUS
  <2>4. WholeText(c, d)
    BY <1>0, <2>1, <2>2, <2>3 DEF WholeText, Staged
  <2> QED
    BY <2>1, <2>2, <2>4, TextsMove
<1>5. CASE WriteTemp(c)
  <2> DEFINE n == Len(doing[c].temp.text)
             d == [doing[c] EXCEPT !.pc = "sync"]
             e == [doing[c] EXCEPT !.temp.text = Append(@, doing[c].base[n + 1])]
  <2>1. /\ doing[c].pc = "write" /\ disk' = disk
        /\ IF n = Len(doing[c].base) THEN Step(c, d) ELSE Step(c, e)
    BY <1>5 DEF WriteTemp, At
  <2>2. /\ doing[c].base \in Seq(Words) /\ doing[c].temp.text \in Seq(Words) /\ n <= Len(doing[c].base)
        /\ \A i \in 1 .. n : doing[c].temp.text[i] = doing[c].base[i]
    BY <1>0, <2>1 DEF WholeText, Staged
  <2>3. CASE n = Len(doing[c].base)
    <3>1. doing[c].temp.text = doing[c].base
      BY <2>2, <2>3
    <3>2. WholeText(c, d) /\ d.place = doing[c].place /\ d.base = doing[c].base /\ doing[c].pc \in Staged
      BY <1>0, <2>1, <3>1 DEF WholeText, InOrder, Staged
    <3> HIDE DEF d, e
    <3> QED
      BY <2>1, <2>3, <3>2, TextsMove
  <2>4. CASE n # Len(doing[c].base)
    <3> DEFINE longer == Append(doing[c].temp.text, doing[c].base[n + 1])
    <3>1. /\ longer \in Seq(Words) /\ Len(longer) <= Len(doing[c].base)
          /\ \A i \in 1 .. Len(longer) : longer[i] = doing[c].base[i]
      <4>1. PICK done, text : done = doing[c].temp.text /\ text = doing[c].base
        OBVIOUS
      <4>2. /\ done \in Seq(Words) /\ text \in Seq(Words) /\ Len(done) <= Len(text) /\ Len(done) # Len(text)
            /\ \A i \in 1 .. Len(done) : done[i] = text[i]
        BY <2>2, <2>4, <4>1
      <4>3. LET next == Append(done, text[Len(done) + 1])
            IN  /\ next \in Seq(Words) /\ Len(next) <= Len(text)
                /\ \A i \in 1 .. Len(next) : next[i] = text[i]
        BY <4>2, OneWordMore
      <4> QED
        BY <4>1, <4>3
    <3>2. /\ e.pc = doing[c].pc /\ e.place = doing[c].place /\ e.base = doing[c].base
          /\ e.temp.text = longer /\ doing[c].pc \in Staged
      BY <1>0, <2>1 DEF InOrder, Staged
    <3> HIDE DEF d, e, longer
    <3>3. WholeText(c, e)
      BY <1>0, <2>1, <3>1, <3>2 DEF WholeText, Staged
    <3> QED
      BY <2>1, <2>4, <3>2, <3>3, TextsMove
  <2> QED
    BY <2>3, <2>4
<1>6. CASE Sync(c)
  <2> DEFINE d == [doing[c] EXCEPT !.pc = "rename", !.temp.synced = TRUE]
  <2>1. doing[c].pc = "sync" /\ Step(c, d) /\ disk' = disk
    BY <1>6 DEF Sync, At
  <2>2. WholeText(c, d) /\ d.place = doing[c].place /\ d.base = doing[c].base /\ doing[c].pc \in Staged
    BY <1>0, <2>1 DEF WholeText, InOrder, Staged
  <2> HIDE DEF d
  <2> QED
    BY <2>1, <2>2, TextsMove
<1>7. CASE Stat(c)
  <2> DEFINE size == Len(disk[doing[c].place].text)
             d == [doing[c] EXCEPT !.size = size, !.pc = IF size > MaxRead THEN "cut" ELSE "whole"]
  <2>1. doing[c].pc = "file" /\ Tool(c) = "Read" /\ disk' = disk /\ (Answer(c, "error") \/ Step(c, d))
    BY <1>7 DEF Stat, At
  <2>2. WholeText(c, d) /\ d.pc \notin Staged /\ d.place = doing[c].place /\ d.base = doing[c].base
    BY <1>0, <2>1 DEF WholeText, InOrder, Staged
  <2> HIDE DEF d
  <2> QED
    BY <2>1, <2>2, TextsMove, TextsAnswer
<1>8. CASE ReadFile(c)
  <2>1. PICK b, a : Step(c, [doing[c] EXCEPT !.pc = "over", !.base = b, !.answer = a])
    BY <1>8 DEF ReadFile
  <2> DEFINE d == [doing[c] EXCEPT !.pc = "over", !.base = b, !.answer = a]
  <2>2. doing[c].pc \in {"cut", "whole"} /\ disk' = disk /\ Step(c, d)
    BY <1>8, <2>1 DEF ReadFile
  <2>3. WholeText(c, d) /\ d.pc \notin Staged /\ d.place = doing[c].place
    BY <1>0 DEF WholeText, InOrder, Staged
  <2>4. Tool(c) = "Read"
    BY <1>0, <2>2 DEF WholeText
  <2> HIDE DEF d
  <2> QED
    BY <2>2, <2>3, <2>4, TextsMove
<1> QED
  BY <1>1, <1>2, <1>3, <1>4, <1>5, <1>6, <1>7, <1>8

\* The rename puts a whole text in place.
LEMMA TextsPersist == ASSUME TextsInv, FilesInv', NEW c \in Calls, Persist(c) PROVE TextsInv'
<1> DEFINE d == [doing[c] EXCEPT !.pc = "over", !.answer = "ok", !.temp = NoFile]
           here == doing[c].place
<1>1. /\ doing[c].pc = "rename" /\ Step(c, d)
      /\ disk' = [disk EXCEPT ![here] = doing[c].temp] /\ disk = [p \in Places |-> disk[p]]
  BY DEF Persist, At, Answer, TextsInv, FilesInv, FileTypes
<1>2. /\ here \in Places /\ doing[c].temp.text = doing[c].base /\ doing[c].base \in Seq(Words)
      /\ Meant(here, doing[c].base)
  BY <1>1 DEF TextsInv, CallsWhole, WholeText, StagedMeant, Staged
<1>3. WholeText(c, d) /\ d.place = here /\ d.base = doing[c].base /\ d.pc \notin Staged
  BY DEF TextsInv, FilesInv, CallsInOrder, InOrder, WholeText, Staged
<1> HIDE DEF d
<1>4. /\ scene' = scene /\ Calls' = Calls /\ (\A e : Tool(e)' = Tool(e))
      /\ doing'[c] = d /\ \A e \in Calls \ {c} : doing'[e] = doing[e]
  BY <1>1 DEF Step, TextsInv, FilesInv, FileTypes, Calls, Tool
<1>5. ASSUME NEW p \in Places, NEW text, Meant(p, text) PROVE Meant(p, text)'
  BY <1>3, <1>4, <1>5, MeantGrows
<1>6. CallsWhole'
  <2> SUFFICES ASSUME NEW e \in Calls PROVE WholeText(e, doing[e])'
    BY <1>4 DEF CallsWhole
  <2>1. WholeText(e, doing'[e])
    BY <1>3, <1>4 DEF TextsInv, CallsWhole
  <2> QED
    BY <1>4, <2>1 DEF WholeText
<1>7. StagedMeant'
  <2> SUFFICES ASSUME NEW e \in Calls, doing'[e].pc \in Staged
               PROVE  Meant(doing[e].place, doing[e].base)'
    BY <1>4 DEF StagedMeant
  <2>1. e # c /\ doing'[e] = doing[e]
    BY <1>3, <1>4
  <2>2. Meant(doing[e].place, doing[e].base) /\ doing[e].place \in Places
    BY <2>1 DEF TextsInv, CallsWhole, WholeText, StagedMeant, Staged
  <2> QED
    BY <1>5, <2>1, <2>2
<1>8. DiskMeant'
  <2> SUFFICES ASSUME NEW p \in Places, disk'[p].there
               PROVE  disk'[p].text \in Seq(Words) /\ Meant(p, disk[p].text)'
    BY DEF DiskMeant
  <2>1. CASE p = here
    BY <1>1, <1>2, <1>5, <2>1
  <2>2. CASE p # here
    BY <1>1, <1>5, <2>2 DEF TextsInv, DiskMeant
  <2> QED
    BY <2>1, <2>2
<1> QED
  BY <1>4, <1>6, <1>7, <1>8 DEF TextsInv

\* A crash leaves a synced disk as it is, and no call to write to it.
LEMMA TextsCrash == TextsInv /\ FilesInv' /\ Crash => TextsInv'
<1> SUFFICES ASSUME TextsInv, FilesInv', Crash PROVE TextsInv'
  OBVIOUS
<1>1. scene' = scene /\ disk' = disk
  BY CrashLeavesDisk DEF TextsInv, Crash
<1>2. Calls' = Calls /\ \A e : Tool(e)' = Tool(e)
  BY <1>1 DEF Calls, Tool
<1>3. ASSUME NEW c \in Calls
      PROVE  doing'[c].pc = "over" /\ doing'[c].place = doing[c].place /\ doing'[c].base = doing[c].base
  BY ZenonT(60) DEF Crash, At, TextsInv, FilesInv, CallsInOrder, InOrder
<1>4. CallsWhole' /\ StagedMeant'
  BY <1>2, <1>3 DEF CallsWhole, StagedMeant, WholeText, Staged
<1>5. DiskMeant'
  <2> SUFFICES ASSUME NEW p \in Places, disk[p].there
               PROVE  disk[p].text \in Seq(Words) /\ Meant(p, disk[p].text)'
    BY <1>1 DEF DiskMeant
  <2>1. Meant(p, disk[p].text) /\ disk[p].text \in Seq(Words)
    BY DEF TextsInv, DiskMeant
  <2>2. Meant(p, disk[p].text)'
    BY <1>1, <1>3, <2>1, MeantGrows
  <2> QED
    BY <2>1, <2>2
<1> QED
  BY <1>1, <1>4, <1>5 DEF TextsInv

LEMMA TextsUnchanged == TextsInv /\ UNCHANGED fileVars => TextsInv'
<1> SUFFICES ASSUME TextsInv, UNCHANGED fileVars PROVE TextsInv'
  OBVIOUS
<1>1. UNCHANGED <<scene, disk, parents, doing>> /\ FilesInv'
  BY FilesUnchanged DEF TextsInv, fileVars
<1>2. CallsWhole'
  BY <1>1 DEF TextsInv, CallsWhole, WholeText, Calls, Tool
<1>3. ASSUME NEW p, NEW text, Meant(p, text) PROVE Meant(p, text)'
  BY <1>1, <1>3 DEF Meant, Given, HoldsEdits, Candidates, Working, Calls, Tool
<1>4. StagedMeant' /\ DiskMeant'
  BY <1>1, <1>3 DEF TextsInv, StagedMeant, DiskMeant, Calls
<1> QED
  BY <1>1, <1>2, <1>4 DEF TextsInv

LEMMA TextsKeep == TextsInv /\ [FilesNext]_fileVars => TextsInv'
<1> SUFFICES ASSUME TextsInv, FilesNext PROVE TextsInv'
  BY TextsUnchanged
<1>1. FilesInv'
  BY FilesKeep DEF TextsInv
<1> QED
  BY <1>1, TextsJail, TextsGoOn, TextsPersist, TextsCrash DEF FilesNext, FileStep

LEMMA TextsInvSuffices == TextsInv => NeverTorn
BY DEF TextsInv, DiskMeant, NeverTorn

-----------------------------------------------------------------------------
(* Children.  What a child wrote is what its reader counted, then what is  *)
(* in the pipe; a reader that is done has an empty pipe that nobody will   *)
(* write to any more.                                                      *)

\* The bytes the child at hand may write.
Bytes == {job.text[i] : i \in Nat} \cup {1}

Lesser(m, n) == IF m < n THEN m ELSE n

\* w was written, q is in the pipe, n bytes were counted, g of them are kept.
Flows(w, q, n) ==
  Len(w) = n + Len(q) /\ \A i \in 1 .. Len(q) : q[i] = w[n + i]

Keeps(w, g, n) ==
  Len(g) = Lesser(n, Cap) /\ \A i \in 1 .. Len(g) : g[i] = w[i]

StreamTypes ==
  /\ put \in [Streams -> Seq(Bytes)] /\ pipe \in [Streams -> Seq(Bytes)]
  /\ got \in [Streams -> Seq(Bytes)] /\ total \in [Streams -> Nat]
  /\ reader \in [Streams -> {"reading", "done"}]

StreamsFlow == \A s \in Streams : Flows(put[s], pipe[s], total[s])

ReadersKeep == \A s \in Streams : reader[s] = "reading" => Keeps(put[s], got[s], total[s])

DoneCaptures ==
  \A s \in Streams : reader[s] = "done" => /\ pipe[s] = <<>> /\ ~ Held
                                           /\ Captures(put[s], got[s], total[s])

\* Where the executor has to be for a reader to be at work.
PlaceTells ==
  /\ job.kind # "shell" /\ pc \in {"wait", "done"} => \A s \in Streams : reader[s] = "done"
  /\ pc = "done" => \A s \in Streams : reader[s] = "done"
  /\ pc = "join" => job.kind = "shell"

ChildInv == StreamTypes /\ StreamsFlow /\ ReadersKeep /\ DoneCaptures /\ PlaceTells

LEMMA ChildStarts == Init => ChildInv
<1> SUFFICES ASSUME Init PROVE ChildInv
  OBVIOUS
<1>1. StreamTypes
  BY DEF Init, StreamTypes, Each
<1>2. Cap \in Nat \ {0}
  BY CapPositive
<1>3. \A s \in Streams : put[s] = <<>> /\ pipe[s] = <<>> /\ got[s] = <<>> /\ total[s] = 0 /\ reader[s] = "reading"
  BY DEF Init, Each
<1>4. StreamsFlow /\ ReadersKeep
  BY <1>2, <1>3 DEF StreamsFlow, ReadersKeep, Flows, Keeps, Lesser
<1>5. DoneCaptures /\ PlaceTells
  BY <1>3 DEF Init, DoneCaptures, PlaceTells
<1> QED
  BY <1>1, <1>4, <1>5 DEF ChildInv

\* A byte goes into the pipe.
LEMMA FlowsIn ==
  ASSUME NEW S, NEW w \in Seq(S), NEW q \in Seq(S), NEW g \in Seq(S), NEW n \in Nat, NEW b \in S,
         Flows(w, q, n), Keeps(w, g, n)
  PROVE  Flows(Append(w, b), Append(q, b), n) /\ Keeps(Append(w, b), g, n)
<1>1. Cap \in Nat \ {0} /\ Len(w) \in Nat /\ Len(q) \in Nat /\ Len(g) \in Nat
  BY CapPositive
<1>2. Len(g) <= Len(w)
  BY <1>1 DEF Flows, Keeps, Lesser
<1>3. /\ Len(Append(w, b)) = Len(w) + 1 /\ Len(Append(q, b)) = Len(q) + 1
      /\ Append(w, b)[Len(w) + 1] = b /\ Append(q, b)[Len(q) + 1] = b
      /\ \A i \in 1 .. Len(w) : Append(w, b)[i] = w[i]
      /\ \A i \in 1 .. Len(q) : Append(q, b)[i] = q[i]
  OBVIOUS
<1>4. Flows(Append(w, b), Append(q, b), n)
  <2> SUFFICES ASSUME NEW i \in 1 .. Len(q) + 1 PROVE Append(q, b)[i] = Append(w, b)[n + i]
    BY <1>1, <1>3 DEF Flows
  <2>1. CASE i = Len(q) + 1
    <3>1. n + i = Len(w) + 1
      BY <1>1, <2>1 DEF Flows
    <3> QED
      BY <1>3, <2>1, <3>1
  <2>2. CASE i \in 1 .. Len(q)
    <3>1. n + i \in 1 .. Len(w) /\ q[i] = w[n + i]
      BY <1>1, <2>2 DEF Flows
    <3> QED
      BY <1>3, <2>2, <3>1
  <2>3. i = Len(q) + 1 \/ i \in 1 .. Len(q)
    BY <1>1
  <2> QED
    BY <2>1, <2>2, <2>3
<1>5. Keeps(Append(w, b), g, n)
  BY <1>1, <1>2, <1>3 DEF Keeps
<1> QED
  BY <1>4, <1>5

\* The first k bytes of the pipe are counted, and kept up to the cap.
LEMMA FlowsOut ==
  ASSUME NEW S, NEW w \in Seq(S), NEW q \in Seq(S), NEW g \in Seq(S), NEW n \in Nat, NEW k \in 1 .. Len(q),
         Flows(w, q, n), Keeps(w, g, n)
  PROVE  LET chunk == SubSeq(q, 1, k)
         IN  /\ SubSeq(q, k + 1, Len(q)) \in Seq(S) /\ Kept(g, chunk) \in Seq(S)
             /\ Flows(w, SubSeq(q, k + 1, Len(q)), n + k) /\ Keeps(w, Kept(g, chunk), n + k)
<1> DEFINE chunk == SubSeq(q, 1, k)
           rest == SubSeq(q, k + 1, Len(q))
<1>1. Cap \in Nat \ {0} /\ Len(w) \in Nat /\ Len(q) \in Nat /\ Len(g) \in Nat /\ k \in Nat
  BY CapPositive
<1>2. /\ chunk \in Seq(S) /\ Len(chunk) = k /\ \A i \in 1 .. k : chunk[i] = q[i]
  BY <1>1
<1>3. /\ rest \in Seq(S) /\ Len(rest) = Len(q) - k /\ \A i \in 1 .. Len(rest) : rest[i] = q[k + i]
  BY <1>1
<1> HIDE DEF chunk, rest
<1>4. Flows(w, rest, n + k)
  <2> SUFFICES ASSUME NEW i \in 1 .. Len(rest) PROVE rest[i] = w[(n + k) + i]
    BY <1>1, <1>3 DEF Flows
  <2>1. rest[i] = q[k + i] /\ k + i \in 1 .. Len(q)
    BY <1>1, <1>3
  <2>2. q[k + i] = w[n + (k + i)]
    BY <2>1 DEF Flows
  <2>3. n + (k + i) = (n + k) + i
    BY <1>1, <1>3
  <2> QED
    BY <2>1, <2>2, <2>3
<1>5. /\ g \o chunk \in Seq(S) /\ Len(g \o chunk) = Len(g) + k
      /\ \A i \in 1 .. Len(g) + k : (g \o chunk)[i] = IF i <= Len(g) THEN g[i] ELSE chunk[i - Len(g)]
  BY <1>1, <1>2
<1>6. CASE n < Cap
  <2>1. Len(g) = n
    BY <1>1, <1>6 DEF Keeps, Lesser
  <2>2. ASSUME NEW i \in 1 .. n + k PROVE (g \o chunk)[i] = w[i]
    <3>1. CASE i <= n
      BY <1>1, <1>5, <2>1, <3>1 DEF Keeps
    <3>2. CASE i > n
      <4>1. i - n \in 1 .. k /\ i - n \in 1 .. Len(q) /\ n + (i - n) = i
        BY <1>1, <3>2
      <4>2. (g \o chunk)[i] = chunk[i - n] /\ chunk[i - n] = q[i - n]
        BY <1>1, <1>2, <1>5, <2>1, <3>2, <4>1
      <4>3. q[i - n] = w[n + (i - n)]
        BY <4>1 DEF Flows
      <4> QED
        BY <4>1, <4>2, <4>3
    <3>3. i \in Nat /\ (i <= n \/ i > n)
      BY <1>1
    <3> QED
      BY <3>1, <3>2, <3>3
  <2>3. CASE n + k <= Cap
    <3>1. Kept(g, chunk) = g \o chunk
      BY <1>1, <1>5, <2>1, <2>3 DEF Kept
    <3>2. Lesser(n + k, Cap) = n + k
      BY <1>1, <2>3 DEF Lesser
    <3> QED
      BY <1>3, <1>4, <1>5, <2>1, <2>2, <3>1, <3>2 DEF Keeps, chunk, rest
  <2>4. CASE n + k > Cap
    <3>1. Kept(g, chunk) = SubSeq(g \o chunk, 1, Cap)
      BY <1>1, <1>5, <2>1, <2>4 DEF Kept
    <3>2. Lesser(n + k, Cap) = Cap
      BY <1>1, <2>4 DEF Lesser
    <3>3. /\ Kept(g, chunk) \in Seq(S) /\ Len(Kept(g, chunk)) = Cap
          /\ \A i \in 1 .. Cap : Kept(g, chunk)[i] = (g \o chunk)[i]
      BY <1>1, <1>5, <2>1, <2>4, <3>1
    <3>4. ASSUME NEW i \in 1 .. Cap PROVE Kept(g, chunk)[i] = w[i]
      <4>1. i \in 1 .. n + k
        BY <1>1, <2>4
      <4> QED
        BY <2>2, <3>3, <4>1
    <3>5. Keeps(w, Kept(g, chunk), n + k)
      BY <3>2, <3>3, <3>4 DEF Keeps
    <3> QED
      BY <1>3, <1>4, <3>3, <3>5 DEF chunk, rest
  <2> QED
    BY <1>1, <2>3, <2>4
<1>7. CASE n >= Cap
  <2>1. Len(g) = Cap /\ Lesser(n + k, Cap) = Cap
    BY <1>1, <1>7 DEF Keeps, Lesser
  <2>2. Kept(g, chunk) = SubSeq(g \o chunk, 1, Cap)
    BY <1>1, <1>5, <2>1 DEF Kept
  <2>3. /\ Kept(g, chunk) \in Seq(S) /\ Len(Kept(g, chunk)) = Cap
        /\ \A i \in 1 .. Cap : Kept(g, chunk)[i] = g[i]
    BY <1>1, <1>5, <2>1, <2>2
  <2> QED
    BY <1>3, <1>4, <2>1, <2>3 DEF Keeps, chunk, rest
<1> QED
  BY <1>1, <1>6, <1>7

\* A set of positions that is not empty has a last one.
LEMMA LastPosition ==
  ASSUME NEW n \in Nat, NEW I \in SUBSET (1 .. n), I # {}
  PROVE  Max(I) \in I /\ \A i \in I : i <= Max(I)
<1> DEFINE S == {n - i : i \in I}
           less == OpToRel(<, Nat)
<1>1. S \subseteq Nat /\ S # {}
  <2>1. \A i \in I : n - i \in Nat
    OBVIOUS
  <2> QED
    BY <2>1
<1>2. less = {p \in Nat \X Nat : p[1] < p[2]} /\ IsWellFoundedOn(less, Nat)
  BY NatLessThanWellFounded DEF OpToRel
<1> HIDE DEF S, less
<1>3. PICK x \in S : \A y \in S : ~ (<<y, x>> \in less)
  BY <1>1, <1>2, WFMin
<1>4. \A y \in S : x <= y
  <2>1. \A y \in S : ~ (y < x)
    <3> SUFFICES ASSUME NEW y \in S, y < x PROVE FALSE
      OBVIOUS
    <3>1. <<y, x>> \in Nat \X Nat /\ <<y, x>>[1] < <<y, x>>[2]
      BY <1>1
    <3>2. <<y, x>> \in less
      BY <1>2, <3>1, Zenon
    <3> QED
      BY <1>3, <3>2
  <2> QED
    BY <1>1, <2>1
<1>5. PICK i \in I : x = n - i
  BY DEF S
<1>6. \A j \in I : j <= i
  <2> SUFFICES ASSUME NEW j \in I PROVE j <= i
    OBVIOUS
  <2>1. x <= n - j
    BY <1>4 DEF S
  <2> QED
    BY <1>5, <2>1
<1> QED
  BY <1>6 DEF Max

\* The walk back stays inside of what was kept, and is short in UTF-8.
LEMMA WalksBack ==
  ASSUME NEW S, NEW g \in Seq(S)
  PROVE  \E m \in 0 .. Len(g) : WalkedBack(g) = SubSeq(g, 1, m) /\ (Utf8(g) => m + 3 >= Len(g))
<1> DEFINE I == {i \in 1 .. Len(g) : g[i] # 0}
           end == SelectLastInSeq(g, LAMBDA b : b # 0)
           cut == end > 0 /\ g[end] > 1 /\ g[end] > Len(g) - end + 1
           m == IF cut THEN end - 1 ELSE end
<1>1. Len(g) \in Nat /\ DOMAIN g = 1 .. Len(g) /\ end = IF I # {} THEN Max(I) ELSE 0
  BY DEF SelectLastInSeq
<1>2. WalkedBack(g) = SubSeq(g, 1, m)
  BY DEF WalkedBack
<1> HIDE DEF end
<1>3. CASE I = {}
  <2>1. end = 0 /\ m = 0
    BY <1>1, <1>3
  <2>2. ASSUME Utf8(g), Len(g) # 0 PROVE FALSE
    <3>1. Len(g) \in DOMAIN g /\ g[Len(g)] = 0
      BY <1>1, <1>3, <2>2
    <3>2. PICK k \in 1 .. 3 : k < Len(g) /\ g[Len(g) - k] > k
      BY <2>2, <3>1 DEF Utf8
    <3>3. Len(g) - k \in 1 .. Len(g) /\ g[Len(g) - k] # 0
      BY <1>1, <3>2
    <3> QED
      BY <1>3, <3>3
  <2>3. m \in 0 .. Len(g) /\ (Utf8(g) => m + 3 >= Len(g))
    BY <1>1, <2>1, <2>2
  <2> HIDE DEF m
  <2> QED
    BY <1>2, <2>3
<1>4. CASE I # {}
  <2>0. end \in I /\ \A i \in I : i <= end
    <3>1. I \in SUBSET (1 .. Len(g))
      OBVIOUS
    <3> HIDE DEF I
    <3>2. Max(I) \in I /\ \A i \in I : i <= Max(I)
      BY <1>1, <1>4, <3>1, LastPosition
    <3> QED
      BY <1>1, <1>4, <3>2
  <2>1. end \in 1 .. Len(g) /\ g[end] # 0 /\ \A i \in I : i <= end
    BY <2>0
  <2>2. m \in 0 .. Len(g)
    BY <1>1, <2>1
  <2>3. ASSUME Utf8(g) PROVE m + 3 >= Len(g)
    <3>0. Len(g) \in DOMAIN g
      BY <1>1, <2>1
    <3>1. end + 3 >= Len(g)
      <4>1. CASE g[Len(g)] # 0
        BY <1>1, <2>1, <3>0, <4>1
      <4>2. CASE g[Len(g)] = 0
        <5>1. PICK k \in 1 .. 3 : k < Len(g) /\ g[Len(g) - k] > k
          BY <2>3, <3>0, <4>2 DEF Utf8
        <5>2. Len(g) - k \in 1 .. Len(g) /\ g[Len(g) - k] # 0
          BY <1>1, <5>1
        <5>3. Len(g) - k <= end
          BY <2>1, <5>2
        <5> QED
          BY <1>1, <2>1, <5>1, <5>3
      <4> QED
        BY <4>1, <4>2
    <3>2. cut => end + 2 >= Len(g)
      <4>1. g[end] \in 0 .. 4
        BY <2>1, <2>3 DEF Utf8
      <4> QED
        BY <1>1, <2>1, <4>1, SMTT(60)
    <3>3. CASE cut
      <4>1. m = end - 1
        BY <3>3
      <4>2. end + 2 >= Len(g) /\ end \in Nat
        BY <2>1, <3>2, <3>3
      <4> HIDE DEF m, cut
      <4> QED
        BY <1>1, <4>1, <4>2
    <3>4. CASE ~ cut
      BY <1>1, <2>1, <3>1, <3>4
    <3> QED
      BY <3>3, <3>4
  <2> HIDE DEF m
  <2> QED
    BY <1>2, <2>2, <2>3
<1> QED
  BY <1>3, <1>4

\* The end of the pipe.
LEMMA EndCaptures ==
  ASSUME NEW S, NEW w \in Seq(S), NEW g \in Seq(S), NEW n \in Nat, Flows(w, <<>>, n), Keeps(w, g, n)
  PROVE  Captured(g) \in Seq(S) /\ Captures(w, Captured(g), n)
<1>1. Cap \in Nat \ {0} /\ Len(w) \in Nat /\ Len(g) \in Nat /\ n = Len(w)
  BY CapPositive DEF Flows
<1>2. CASE n < Cap
  <2>1. Len(g) = n /\ Captured(g) = g
    BY <1>1, <1>2 DEF Keeps, Lesser, Captured
  <2>2. g = w
    BY <1>1, <2>1 DEF Keeps
  <2> QED
    BY <1>1, <1>2, <2>1, <2>2 DEF Captures, IsPrefix
<1>3. CASE n >= Cap
  <2>1. Len(g) = Cap /\ Captured(g) = WalkedBack(g)
    BY <1>1, <1>3 DEF Keeps, Lesser, Captured
  <2>2. PICK m \in 0 .. Len(g) : WalkedBack(g) = SubSeq(g, 1, m) /\ (Utf8(g) => m + 3 >= Len(g))
    BY WalksBack
  <2> DEFINE h == SubSeq(g, 1, m)
  <2>3. h \in Seq(S) /\ Len(h) = m /\ \A i \in 1 .. m : h[i] = w[i]
    BY <1>1, <1>3, <2>1 DEF Keeps
  <2> HIDE DEF h
  <2>4. IsPrefix(h, w)
    BY <1>1, <1>3, <2>1, <2>3 DEF IsPrefix
  <2>5. Utf8(w) => Utf8(g)
    <3> SUFFICES ASSUME Utf8(w) PROVE Utf8(g)
      OBVIOUS
    <3>1. \A i \in 1 .. Len(g) : i \in 1 .. Len(w) /\ g[i] = w[i]
      BY <1>1, <1>3, <2>1 DEF Keeps
    <3>2. g \in Seq(0 .. 4)
      BY <3>1 DEF Utf8
    <3>3. ASSUME NEW i \in 1 .. Len(g), g[i] = 0 PROVE \E k \in 1 .. 3 : k < i /\ g[i - k] > k
      <4>1. PICK k \in 1 .. 3 : k < i /\ w[i - k] > k
        <5>1. i \in DOMAIN w /\ w[i] = 0
          BY <1>1, <3>1, <3>3
        <5> QED
          BY <5>1 DEF Utf8
      <4>2. i - k \in 1 .. Len(g)
        BY <1>1, <4>1
      <4> QED
        BY <3>1, <4>1, <4>2
    <3> QED
      BY <3>2, <3>3 DEF Utf8
  <2>6. Utf8(w) => m + 3 >= Cap
    BY <2>1, <2>2, <2>5
  <2> QED
    BY <1>1, <1>3, <2>1, <2>2, <2>3, <2>4, <2>6 DEF Captures, h
<1> QED
  BY <1>1, <1>2, <1>3

\* Nothing of the streams changes but where the executor is.
LEMMA StreamsStay ==
  ASSUME ChildInv, UNCHANGED <<job, pipe, put, got, total, reader>>, Held' => Held, PlaceTells'
  PROVE  ChildInv'
<1>1. StreamTypes' /\ StreamsFlow' /\ ReadersKeep'
  BY DEF ChildInv, StreamTypes, Bytes, StreamsFlow, ReadersKeep
<1>2. DoneCaptures'
  BY DEF ChildInv, DoneCaptures
<1> QED
  BY <1>1, <1>2 DEF ChildInv

LEMMA ChildWritesKeeps == ChildInv /\ ChildWrites => ChildInv'
<1> SUFFICES ASSUME ChildInv, NEW s \in Streams, NEW b \in Bytes, child = "up", Writes(s, b)
             PROVE  ChildInv'
  <2>1. "stdout" \in Streams /\ "stderr" \in Streams /\ 1 \in Bytes /\ Len(put["stdout"]) + 1 \in Nat
    BY DEF Streams, Bytes, ChildInv, StreamTypes
  <2>2. job.text[Len(put["stdout"]) + 1] \in Bytes
    BY <2>1 DEF Bytes
  <2> QED
    BY <2>1, <2>2 DEF ChildWrites, Op
<1>1. /\ pipe' = [pipe EXCEPT ![s] = Append(@, b)] /\ put' = [put EXCEPT ![s] = Append(@, b)]
      /\ UNCHANGED <<job, child, helper, got, total, reader, pc>>
  BY DEF Writes
<1>2. reader[s] = "reading"
  BY DEF ChildInv, DoneCaptures, StreamTypes, Held
<1>3. StreamTypes'
  <2>1. put[s] \in Seq(Bytes) /\ pipe[s] \in Seq(Bytes)
    BY DEF ChildInv, StreamTypes
  <2>2. Append(put[s], b) \in Seq(Bytes) /\ Append(pipe[s], b) \in Seq(Bytes)
    BY <2>1
  <2>3. put' \in [Streams -> Seq(Bytes)] /\ pipe' \in [Streams -> Seq(Bytes)]
    BY <1>1, <2>2 DEF ChildInv, StreamTypes
  <2> QED
    BY <1>1, <2>3 DEF ChildInv, StreamTypes, Bytes
<1>4. ASSUME NEW r \in Streams
      PROVE  Flows(put[r], pipe[r], total[r])' /\ (reader'[r] = "reading" => Keeps(put[r], got[r], total[r])')
  <2>1. CASE r = s
    <3>1. put'[s] = Append(put[s], b) /\ pipe'[s] = Append(pipe[s], b)
      BY <1>1 DEF ChildInv, StreamTypes
    <3>2. Flows(put[s], pipe[s], total[s]) /\ Keeps(put[s], got[s], total[s])
      BY <1>2 DEF ChildInv, StreamsFlow, ReadersKeep
    <3>3. put[s] \in Seq(Bytes) /\ pipe[s] \in Seq(Bytes) /\ got[s] \in Seq(Bytes) /\ total[s] \in Nat
      BY DEF ChildInv, StreamTypes
    <3>4. Flows(Append(put[s], b), Append(pipe[s], b), total[s]) /\ Keeps(Append(put[s], b), got[s], total[s])
      BY <3>2, <3>3, FlowsIn
    <3> QED
      BY <1>1, <2>1, <3>1, <3>4, ZenonT(60) DEF Flows, Keeps
  <2>2. CASE r # s
    <3>1. put'[r] = put[r] /\ pipe'[r] = pipe[r]
      BY <1>1, <2>2 DEF ChildInv, StreamTypes
    <3>2. Flows(put[r], pipe[r], total[r]) /\ (reader[r] = "reading" => Keeps(put[r], got[r], total[r]))
      BY DEF ChildInv, StreamsFlow, ReadersKeep
    <3> QED
      BY <1>1, <3>1, <3>2 DEF Flows, Keeps
  <2> QED
    BY <2>1, <2>2
<1>5. StreamsFlow' /\ ReadersKeep'
  BY <1>4 DEF StreamsFlow, ReadersKeep
<1>6. DoneCaptures'
  BY <1>1 DEF ChildInv, DoneCaptures, Held
<1>7. PlaceTells'
  BY <1>1 DEF ChildInv, PlaceTells
<1> QED
  BY <1>3, <1>5, <1>6, <1>7 DEF ChildInv

LEMMA ReaderReadsKeeps == ASSUME ChildInv, NEW s \in Streams, ReaderReads(s) PROVE ChildInv'
<1>1. PICK k \in 1 .. Len(pipe[s]) :
        /\ got' = [got EXCEPT ![s] = Kept(@, SubSeq(pipe[s], 1, k))]
        /\ total' = [total EXCEPT ![s] = @ + k]
        /\ pipe' = [pipe EXCEPT ![s] = SubSeq(@, k + 1, Len(@))]
  BY DEF ReaderReads
<1>2. UNCHANGED <<job, child, helper, put, reader, pc>> /\ reader[s] = "reading"
  BY DEF ReaderReads, Running
<1>3. /\ put[s] \in Seq(Bytes) /\ pipe[s] \in Seq(Bytes) /\ got[s] \in Seq(Bytes) /\ total[s] \in Nat
      /\ Flows(put[s], pipe[s], total[s]) /\ Keeps(put[s], got[s], total[s])
  BY <1>2 DEF ChildInv, StreamTypes, StreamsFlow, ReadersKeep
<1>4. /\ got'[s] = Kept(got[s], SubSeq(pipe[s], 1, k)) /\ total'[s] = total[s] + k
      /\ pipe'[s] = SubSeq(pipe[s], k + 1, Len(pipe[s]))
  BY <1>1 DEF ChildInv, StreamTypes
<1>5. \A r \in Streams \ {s} : got'[r] = got[r] /\ total'[r] = total[r] /\ pipe'[r] = pipe[r]
  BY <1>1 DEF ChildInv, StreamTypes
<1>6. /\ pipe'[s] \in Seq(Bytes) /\ got'[s] \in Seq(Bytes) /\ total'[s] \in Nat
      /\ Flows(put[s], pipe'[s], total'[s]) /\ Keeps(put[s], got'[s], total'[s])
  <2> DEFINE w == put[s]
             q == pipe[s]
             g == got[s]
             n == total[s]
  <2>1. w \in Seq(Bytes) /\ q \in Seq(Bytes) /\ g \in Seq(Bytes) /\ n \in Nat /\ Flows(w, q, n) /\ Keeps(w, g, n)
    BY <1>3
  <2>2. k \in 1 .. Len(q) /\ n + k \in Nat
    BY <2>1
  <2>3. got'[s] = Kept(g, SubSeq(q, 1, k)) /\ total'[s] = n + k /\ pipe'[s] = SubSeq(q, k + 1, Len(q))
    BY <1>4
  <2> HIDE DEF w, q, g, n
  <2>4. /\ SubSeq(q, k + 1, Len(q)) \in Seq(Bytes) /\ Kept(g, SubSeq(q, 1, k)) \in Seq(Bytes)
        /\ Flows(w, SubSeq(q, k + 1, Len(q)), n + k) /\ Keeps(w, Kept(g, SubSeq(q, 1, k)), n + k)
    BY <2>1, <2>2, FlowsOut
  <2> QED
    BY <2>2, <2>3, <2>4 DEF w
<1>7. StreamTypes'
  <2>1. /\ pipe' \in [Streams -> Seq(Bytes)] /\ got' \in [Streams -> Seq(Bytes)]
        /\ total' \in [Streams -> Nat]
    BY <1>1, <1>4, <1>5, <1>6 DEF ChildInv, StreamTypes
  <2> QED
    BY <1>2, <2>1 DEF ChildInv, StreamTypes, Bytes
<1>8. StreamsFlow' /\ ReadersKeep'
  <2> SUFFICES ASSUME NEW r \in Streams
               PROVE  Flows(put[r], pipe[r], total[r])' /\ (reader'[r] = "reading" => Keeps(put[r], got[r], total[r])')
    BY DEF StreamsFlow, ReadersKeep
  <2>1. CASE r = s
    BY <1>2, <1>6, <2>1 DEF Flows, Keeps
  <2>2. CASE r # s
    BY <1>2, <1>5, <2>2 DEF ChildInv, StreamsFlow, ReadersKeep, Flows, Keeps
  <2> QED
    BY <2>1, <2>2
<1>9. DoneCaptures' /\ PlaceTells'
  BY <1>2, <1>5 DEF ChildInv, DoneCaptures, Held, PlaceTells
<1> QED
  BY <1>7, <1>8, <1>9 DEF ChildInv

LEMMA ReaderEndsKeeps == ASSUME ChildInv, NEW s \in Streams, ReaderEnds(s) PROVE ChildInv'
<1>1. /\ got' = [got EXCEPT ![s] = Captured(@)] /\ reader' = [reader EXCEPT ![s] = "done"]
      /\ pipe[s] = <<>> /\ ~ Held /\ reader[s] = "reading"
      /\ UNCHANGED <<job, child, helper, pipe, put, total, pc>>
  BY DEF ReaderEnds, Running
<1>2. /\ put[s] \in Seq(Bytes) /\ got[s] \in Seq(Bytes) /\ total[s] \in Nat
      /\ Flows(put[s], <<>>, total[s]) /\ Keeps(put[s], got[s], total[s])
  BY <1>1 DEF ChildInv, StreamTypes, StreamsFlow, ReadersKeep
<1>3. /\ got'[s] = Captured(got[s]) /\ reader'[s] = "done"
      /\ \A r \in Streams \ {s} : got'[r] = got[r] /\ reader'[r] = reader[r]
  BY <1>1 DEF ChildInv, StreamTypes
<1>4. got'[s] \in Seq(Bytes) /\ Captures(put[s], got'[s], total[s])
  BY <1>2, <1>3, EndCaptures
<1>5. StreamTypes'
  <2>1. got' \in [Streams -> Seq(Bytes)] /\ reader' \in [Streams -> {"reading", "done"}]
    BY <1>1, <1>3, <1>4 DEF ChildInv, StreamTypes
  <2> QED
    BY <1>1, <2>1, ZenonT(60) DEF ChildInv, StreamTypes, Bytes
<1>6. StreamsFlow'
  BY <1>1 DEF ChildInv, StreamsFlow
<1>7. ReadersKeep'
  BY <1>1, <1>3 DEF ChildInv, ReadersKeep, Keeps
<1>8. DoneCaptures'
  <2> SUFFICES ASSUME NEW r \in Streams, reader'[r] = "done"
               PROVE  pipe'[r] = <<>> /\ ~ Held' /\ Captures(put[r], got[r], total[r])'
    BY DEF DoneCaptures
  <2>1. CASE r = s
    BY <1>1, <1>4, <2>1 DEF Held, Captures
  <2>2. CASE r # s
    BY <1>1, <1>3, <2>2 DEF ChildInv, DoneCaptures, Held, Captures
  <2> QED
    BY <2>1, <2>2
<1>9. PlaceTells'
  BY <1>1, <1>3 DEF ChildInv, PlaceTells
<1> QED
  BY <1>5, <1>6, <1>7, <1>8, <1>9 DEF ChildInv

\* The other steps move nothing through the output pipes, and none of them
\* gives a pipe without a writer one again.
LEMMA OtherChildSteps ==
  ASSUME ChildInv,
         ChildReads \/ ChildForks \/ ChildExits \/ HelperExits \/ WriterWrites \/ WriterEnds
           \/ Waited \/ BothDrained \/ Joined \/ TimesOut \/ UNCHANGED vars
  PROVE  ChildInv'
<1>1. UNCHANGED <<job, pipe, put, got, total, reader>>
  BY DEF ChildReads, ChildForks, ChildExits, HelperExits, WriterWrites, WriterEnds, vars, Op,
         Waited, BothDrained, Joined, TimesOut, Goto
<1>2. Held' => Held
  BY DEF ChildReads, ChildForks, ChildExits, HelperExits, WriterWrites, WriterEnds, vars, Held, Op,
         Waited, BothDrained, Joined, TimesOut, Goto
<1>3. ASSUME pc' = pc PROVE PlaceTells'
  BY <1>1, <1>3 DEF ChildInv, PlaceTells
<1>4. ASSUME pc' # pc PROVE PlaceTells'
  <2>1. Waited \/ BothDrained \/ Joined \/ TimesOut
    BY <1>4 DEF ChildReads, ChildForks, ChildExits, HelperExits, WriterWrites, WriterEnds, vars, Op
  <2> QED
    BY <1>1, <2>1 DEF ChildInv, PlaceTells, Waited, BothDrained, Joined, TimesOut, Goto
<1>5. PlaceTells'
  BY <1>3, <1>4
<1> QED
  BY <1>1, <1>2, <1>5, StreamsStay

LEMMA ChildKeeps == ChildInv /\ [Next]_vars => ChildInv'
BY ChildWritesKeeps, ReaderReadsKeeps, ReaderEndsKeeps, OtherChildSteps DEF Next, Work, Stays

LEMMA ChildInvSuffices == ChildInv => OutputComplete
BY DEF ChildInv, PlaceTells, DoneCaptures, OutputComplete

-----------------------------------------------------------------------------
(* The variables of a run.  What a name is bound to changes with each line *)
(* that binds it, so that the last one decides.                            *)

\* A set of positions that holds 0, and with each its successor, holds all.
LEMMA CountingUp ==
  ASSUME NEW n \in Nat, NEW T, 0 \in T, \A i \in 0 .. n - 1 : i \in T => i + 1 \in T
  PROVE  0 .. n \subseteq T
<1> SUFFICES ASSUME NEW k \in 0 .. n, k \notin T PROVE FALSE
  OBVIOUS
<1> DEFINE less == {p \in Nat \X Nat : p[1] < p[2]}
           bad  == {i \in 0 .. n : i \notin T}
<1>1. IsWellFoundedOn(less, Nat)
  BY NatLessThanWellFounded DEF OpToRel
<1>2. bad # {} /\ bad \subseteq Nat
  BY SMT
<1>3. PICK m \in bad : \A i \in bad : <<i, m>> \notin less
  <2> HIDE DEF less, bad
  <2> QED BY <1>1, <1>2, WFMin
<1>4. m \in 1 .. n /\ m - 1 \in 0 .. n - 1
  <2>1. m # 0
    BY <1>3
  <2> QED
    BY <1>3, <2>1
<1>5. m - 1 \in T
  <2>1. m - 1 \in 0 .. n /\ m - 1 < m /\ m - 1 \in Nat /\ m \in Nat
    BY <1>4
  <2>2. <<m - 1, m>> \in less
    BY <2>1
  <2> QED
    BY <1>3, <2>1, <2>2
<1> QED
  BY <1>3, <1>4, <1>5

\* What is replaced by whatever is given ends as what was given last.
LEMMA LastWins ==
  ASSUME NEW n \in Nat, NEW give, DOMAIN give = 1 .. n, NEW v,
         \A i \in 1 .. n : v[i] = IF give[i] = {} THEN v[i - 1] ELSE give[i]
  PROVE  v[n] = IF LastGiven(give) = {} THEN v[0] ELSE LastGiven(give)
<1> DEFINE none(i) == v[i] = v[0] /\ \A j \in 1 .. i : give[j] = {}
           last(i) == \E m \in 1 .. i : /\ give[m] # {} /\ v[i] = give[m]
                                        /\ \A j \in 1 .. i : j > m => give[j] = {}
           good == {i \in 0 .. n : none(i) \/ last(i)}
<1>1. 0 \in good
  OBVIOUS
<1>2. ASSUME NEW i \in 0 .. n - 1, i \in good PROVE i + 1 \in good
  <2>1. i + 1 \in 1 .. n /\ i + 1 \in 0 .. n /\ (i + 1) - 1 = i /\ 1 .. i + 1 = 1 .. i \cup {i + 1} /\ i \in Nat
    OBVIOUS
  <2>2. v[i + 1] = IF give[i + 1] = {} THEN v[i] ELSE give[i + 1]
    BY <2>1
  <2>3. CASE give[i + 1] # {}
    <3>1. \A j \in 1 .. i + 1 : ~ j > i + 1
      BY <2>1
    <3>2. last(i + 1)
      BY <2>1, <2>2, <2>3, <3>1
    <3> QED
      BY <2>1, <3>2
  <2>4. CASE give[i + 1] = {} /\ none(i)
    <3>1. none(i + 1)
      BY <2>1, <2>2, <2>4
    <3> QED
      BY <2>1, <3>1
  <2>5. CASE give[i + 1] = {} /\ last(i)
    <3>1. last(i + 1)
      BY <2>1, <2>2, <2>5
    <3> QED
      BY <2>1, <3>1
  <2> QED
    BY <1>2, <2>3, <2>4, <2>5
<1>3. n \in good
  <2>1. n \in 0 .. n
    OBVIOUS
  <2> HIDE DEF good
  <2> QED
    BY <1>1, <1>2, <2>1, CountingUp
<1>4. CASE none(n)
  <2>1. LastGiven(give) = {}
    BY <1>4 DEF LastGiven
  <2> QED
    BY <1>4, <2>1
<1>5. CASE last(n)
  <2>1. PICK m \in 1 .. n : /\ give[m] # {} /\ v[n] = give[m]
                            /\ \A j \in 1 .. n : j > m => give[j] = {}
    BY <1>5
  <2>2. \A i \in 1 .. n : (\A j \in 1 .. n : j > i => give[j] = {}) => give[i] = {} \/ i = m
    BY <2>1
  <2>3. LastGiven(give) = give[m]
    BY <2>1, <2>2 DEF LastGiven
  <2> QED
    BY <2>1, <2>3
<1> QED
  BY <1>3, <1>4, <1>5

\* A pass over lines is made of steps, one for each.
LEMMA LinePasses ==
  ASSUME NEW in, NEW source, NEW s, NEW lines, Len(lines) \in Nat
  PROVE  \E f : /\ f[0] = s /\ AfterLines(in, source, s, lines) = f[Len(lines)]
                /\ \A i \in 1 .. Len(lines) :
                     f[i] = IF lines[i].kind = "binding" THEN Bound(in, source, f[i - 1], lines[i]) ELSE f[i - 1]
<1> DEFINE n == Len(lines)
           step(f, i) == IF i = 0 THEN s
                         ELSE IF lines[i].kind = "binding" THEN Bound(in, source, f[i - 1], lines[i])
                         ELSE f[i - 1]
           fits(f, k) == f = [i \in 0 .. k |-> f[i]] /\ \A i \in 0 .. k : f[i] = step(f, i)
           upto == {k \in 0 .. n : \E f : fits(f, k)}
<1>1. 0 \in upto
  <2> DEFINE f == [i \in 0 .. 0 |-> s]
  <2>1. fits(f, 0)
    OBVIOUS
  <2> HIDE DEF f, fits
  <2> QED
    BY <2>1
<1>2. ASSUME NEW k \in 0 .. n - 1, k \in upto PROVE k + 1 \in upto
  <2>1. PICK g : fits(g, k)
    <3> HIDE DEF fits
    <3> QED BY <1>2
  <2> DEFINE f == [i \in 0 .. k + 1 |-> IF i = k + 1 THEN step(g, i) ELSE g[i]]
  <2>2. \A i \in 0 .. k + 1 : f[i] = step(f, i)
    <3> TAKE i \in 0 .. k + 1
    <3>1. i # 0 => i - 1 \in 0 .. k /\ f[i - 1] = g[i - 1]
      OBVIOUS
    <3>2. f[i] = step(g, i)
      <4>1. CASE i = k + 1
        BY <4>1
      <4>2. CASE i # k + 1
        <5>1. i \in 0 .. k /\ f[i] = g[i]
          BY <4>2
        <5>2. \A j \in 0 .. k : g[j] = step(g, j)
          BY <2>1
        <5> HIDE DEF f, step
        <5> QED
          BY <5>1, <5>2
      <4> QED
        BY <4>1, <4>2
    <3> HIDE DEF f
    <3> QED
      BY <3>1, <3>2
  <2>3. f = [i \in 0 .. k + 1 |-> f[i]]
    OBVIOUS
  <2>4. fits(f, k + 1)
    <3> HIDE DEF f, step
    <3> QED
      BY <2>2, <2>3
  <2>5. k + 1 \in 0 .. n
    OBVIOUS
  <2> HIDE DEF f, fits
  <2> QED
    BY <2>4, <2>5
<1>3. \E f : f = [i \in 0 .. n |-> step(f, i)]
  <2>1. n \in upto
    <3>1. n \in 0 .. n /\ n \in Nat
      OBVIOUS
    <3> HIDE DEF upto, n
    <3> QED BY <1>1, <1>2, <3>1, CountingUp
  <2>2. PICK f : fits(f, n)
    BY <2>1
  <2>3. f = [i \in 0 .. n |-> step(f, i)]
    BY <2>2
  <2> QED
    BY <2>3
<1> DEFINE F == CHOOSE f : f = [i \in 0 .. n |-> step(f, i)]
<1>4. AfterLines(in, source, s, lines) = F[n]
  BY DEF AfterLines
<1>5. F = [i \in 0 .. n |-> step(F, i)]
  BY <1>3
<1>6. \A i \in 0 .. n : F[i] = step(F, i)
  <2> HIDE DEF F
  <2> QED BY <1>5
<1>7. F[0] = s /\ \A i \in 1 .. n : F[i] = step(F, i) /\ i # 0
  <2> HIDE DEF F
  <2> QED BY <1>6
<1> HIDE DEF F
<1> QED
  BY <1>4, <1>7

\* So is a pass over files.
LEMMA FilePasses ==
  ASSUME NEW in, NEW source, NEW s, NEW files, Len(files) \in Nat
  PROVE  \E f : /\ f[0] = s /\ AfterFiles(in, source, s, files) = f[Len(files)]
                /\ \A i \in 1 .. Len(files) : f[i] = AfterLines(in, source, f[i - 1], files[i].lines)
<1> DEFINE n == Len(files)
           step(f, i) == IF i = 0 THEN s ELSE AfterLines(in, source, f[i - 1], files[i].lines)
           fits(f, k) == f = [i \in 0 .. k |-> f[i]] /\ \A i \in 0 .. k : f[i] = step(f, i)
           upto == {k \in 0 .. n : \E f : fits(f, k)}
<1>1. 0 \in upto
  <2> DEFINE f == [i \in 0 .. 0 |-> s]
  <2>1. fits(f, 0)
    OBVIOUS
  <2> HIDE DEF f, fits
  <2> QED
    BY <2>1
<1>2. ASSUME NEW k \in 0 .. n - 1, k \in upto PROVE k + 1 \in upto
  <2>1. PICK g : fits(g, k)
    <3> HIDE DEF fits
    <3> QED BY <1>2
  <2> DEFINE f == [i \in 0 .. k + 1 |-> IF i = k + 1 THEN step(g, i) ELSE g[i]]
  <2>2. \A i \in 0 .. k + 1 : f[i] = step(f, i)
    <3> TAKE i \in 0 .. k + 1
    <3>1. i # 0 => i - 1 \in 0 .. k /\ f[i - 1] = g[i - 1]
      OBVIOUS
    <3>2. f[i] = step(g, i)
      <4>1. CASE i = k + 1
        BY <4>1
      <4>2. CASE i # k + 1
        <5>1. i \in 0 .. k /\ f[i] = g[i]
          BY <4>2
        <5>2. \A j \in 0 .. k : g[j] = step(g, j)
          BY <2>1
        <5> HIDE DEF f, step
        <5> QED
          BY <5>1, <5>2
      <4> QED
        BY <4>1, <4>2
    <3> HIDE DEF f
    <3> QED
      BY <3>1, <3>2
  <2>3. f = [i \in 0 .. k + 1 |-> f[i]]
    OBVIOUS
  <2>4. fits(f, k + 1)
    <3> HIDE DEF f, step
    <3> QED
      BY <2>2, <2>3
  <2>5. k + 1 \in 0 .. n
    OBVIOUS
  <2> HIDE DEF f, fits
  <2> QED
    BY <2>4, <2>5
<1>3. \E f : f = [i \in 0 .. n |-> step(f, i)]
  <2>1. n \in upto
    <3>1. n \in 0 .. n /\ n \in Nat
      OBVIOUS
    <3> HIDE DEF upto, n
    <3> QED BY <1>1, <1>2, <3>1, CountingUp
  <2>2. PICK f : fits(f, n)
    BY <2>1
  <2>3. f = [i \in 0 .. n |-> step(f, i)]
    BY <2>2
  <2> QED
    BY <2>3
<1> DEFINE F == CHOOSE f : f = [i \in 0 .. n |-> step(f, i)]
<1>4. AfterFiles(in, source, s, files) = F[n]
  BY DEF AfterFiles
<1>5. F = [i \in 0 .. n |-> step(F, i)]
  BY <1>3
<1>6. \A i \in 0 .. n : F[i] = step(F, i)
  <2> HIDE DEF F
  <2> QED BY <1>5
<1>7. F[0] = s /\ \A i \in 1 .. n : F[i] = step(F, i) /\ i # 0
  <2> HIDE DEF F
  <2> QED BY <1>6
<1> HIDE DEF F
<1> QED
  BY <1>4, <1>7

\* The two namespaces.
Spaces(s) == s = [x \in {"env", "secrets"} |-> s[x]]

\* What one binding makes of a name's value in a namespace.
Changed(in, source, old, b, k, sp) ==
  IF b.key = k /\ Space(in, source, k) = sp THEN {b.value} ELSE old

LEMMA OneBinding ==
  ASSUME NEW in, NEW source, NEW s, NEW b, NEW k, NEW sp \in {"env", "secrets"}, Spaces(s)
  PROVE  /\ Spaces(Bound(in, source, s, b))
         /\ Value(Bound(in, source, s, b)[sp], k) = Changed(in, source, Value(s[sp], k), b, k, sp)
<1> DEFINE to == Space(in, source, b.key)
<1>1. to \in {"env", "secrets"}
  BY DEF Space
<1>2. Bound(in, source, s, b) = [x \in {"env", "secrets"} |-> IF x = to THEN Insert(s[to], b.key, b.value) ELSE s[x]]
  BY <1>1 DEF Bound, Spaces
<1>3. Value(Insert(s[to], b.key, b.value), k) = IF b.key = k THEN {b.value} ELSE Value(s[to], k)
  BY DEF Value, Insert
<1> DEFINE r == Bound(in, source, s, b)
<1> HIDE DEF to
<1>4. Spaces(r)
  BY <1>2 DEF Spaces
<1>5. r[sp] = IF sp = to THEN Insert(s[to], b.key, b.value) ELSE s[sp]
  BY <1>2
<1>6. b.key = k => to = Space(in, source, k)
  BY DEF to
<1> HIDE DEF r
<1>7. Value(r[sp], k) = IF b.key = k /\ Space(in, source, k) = sp THEN {b.value} ELSE Value(s[sp], k)
  BY <1>3, <1>5, <1>6
<1> QED
  BY <1>4, <1>7 DEF r, Changed

\* After some lines a name has the value of the last line that binds it in the
\* namespace the line goes to, or the one it had.
LEMMA LinesGive ==
  ASSUME NEW in, NEW source, NEW s, Spaces(s), NEW lines, IsList(lines),
         NEW k, NEW sp \in {"env", "secrets"}
  PROVE  LET r == AfterLines(in, source, s, lines) IN
         /\ Spaces(r)
         /\ Value(r[sp], k) = IF Space(in, source, k) = sp /\ LastOf(k, lines) # {} THEN LastOf(k, lines)
                                                                                    ELSE Value(s[sp], k)
<1> DEFINE n == Len(lines)
<1>1. n \in Nat /\ DOMAIN lines = 1 .. n
  BY DEF IsList
<1>2. PICK f : /\ f[0] = s /\ AfterLines(in, source, s, lines) = f[n]
               /\ \A i \in 1 .. n :
                    f[i] = IF lines[i].kind = "binding" THEN Bound(in, source, f[i - 1], lines[i]) ELSE f[i - 1]
  BY <1>1, LinePasses
<1> DEFINE good == {i \in 0 .. n : Spaces(f[i])}
<1>3. n \in good /\ \A i \in 0 .. n : i \in good
  <2>1. 0 \in good
    BY <1>1, <1>2
  <2>2. ASSUME NEW i \in 0 .. n - 1, i \in good PROVE i + 1 \in good
    <3>1. i + 1 \in 1 .. n /\ i + 1 \in 0 .. n /\ (i + 1) - 1 = i
      BY <1>1
    <3>2. f[i + 1] = IF lines[i + 1].kind = "binding" THEN Bound(in, source, f[i], lines[i + 1]) ELSE f[i]
      BY <1>2, <3>1
    <3>3. Spaces(f[i])
      BY <2>2
    <3>4. Spaces(Bound(in, source, f[i], lines[i + 1]))
      BY <3>3, OneBinding
    <3> QED
      BY <3>1, <3>2, <3>3, <3>4
  <2>3. 0 .. n \subseteq good
    <3> HIDE DEF good, n
    <3> QED
      BY <1>1, <2>1, <2>2, CountingUp
  <2>4. n \in 0 .. n
    BY <1>1
  <2> HIDE DEF good
  <2> QED
    BY <2>3, <2>4
<1> DEFINE here    == Space(in, source, k) = sp
           last    == [i \in DOMAIN lines |-> IF lines[i].kind = "binding" /\ lines[i].key = k THEN {lines[i].value} ELSE {}]
           give    == [i \in 1 .. n |-> IF here THEN last[i] ELSE {}]
           v       == [i \in 0 .. n |-> Value(f[i][sp], k)]
<1>4. ASSUME NEW i \in 1 .. n PROVE v[i] = IF give[i] = {} THEN v[i - 1] ELSE give[i]
  <2>1. i \in 0 .. n /\ i - 1 \in 0 .. n
    BY <1>1
  <2>2. v[i] = Value(f[i][sp], k) /\ v[i - 1] = Value(f[i - 1][sp], k)
    BY <2>1
  <2>3. f[i] = IF lines[i].kind = "binding" THEN Bound(in, source, f[i - 1], lines[i]) ELSE f[i - 1]
    BY <1>2
  <2>4. Spaces(f[i - 1])
    <3> HIDE DEF good
    <3>1. i - 1 \in good
      BY <1>3, <2>1
    <3> QED BY <3>1 DEF good
  <2>5. Value(Bound(in, source, f[i - 1], lines[i])[sp], k)
          = IF lines[i].key = k /\ here THEN {lines[i].value} ELSE Value(f[i - 1][sp], k)
    <3>1. Value(Bound(in, source, f[i - 1], lines[i])[sp], k)
            = Changed(in, source, Value(f[i - 1][sp], k), lines[i], k, sp)
      <4> DEFINE p == f[i - 1]
                 b == lines[i]
      <4> HIDE DEF p, b
      <4>1. Spaces(p)
        BY <2>4 DEF p
      <4>2. Value(Bound(in, source, p, b)[sp], k) = Changed(in, source, Value(p[sp], k), b, k, sp)
        BY <4>1, OneBinding
      <4> QED
        BY <4>2 DEF p, b
    <3> QED
      BY <3>1 DEF Changed
  <2>6. give[i] = IF here /\ lines[i].kind = "binding" /\ lines[i].key = k THEN {lines[i].value} ELSE {}
    BY <1>1
  <2> HIDE DEF v, give, here
  <2> QED
    BY <2>2, <2>3, <2>5, <2>6
<1>5. DOMAIN give = 1 .. n
  OBVIOUS
<1>6. v[n] = IF LastGiven(give) = {} THEN v[0] ELSE LastGiven(give)
  <2> HIDE DEF v, give, n
  <2> QED
    BY <1>1, <1>4, <1>5, LastWins
<1>7. v[n] = Value(f[n][sp], k) /\ v[0] = Value(s[sp], k)
  BY <1>1, <1>2
<1>8. LastGiven(give) = IF here THEN LastOf(k, lines) ELSE {}
  <2>1. here => give = last
    BY <1>1
  <2>2. LastOf(k, lines) = LastGiven(last)
    BY DEF LastOf
  <2>3. ~ here => LastGiven(give) = {}
    BY DEF LastGiven
  <2> HIDE DEF here, give, last
  <2> QED
    BY <2>1, <2>2, <2>3
<1>9. Spaces(f[n])
  BY <1>3
<1> HIDE DEF v, give
<1> QED
  BY <1>2, <1>6, <1>7, <1>8, <1>9

\* A list of files whose lines are lists.
FileList(files) == IsList(files) /\ \A f \in Range(files) : IsList(f.lines)

LEMMA FilesGive ==
  ASSUME NEW in, NEW source, NEW s, Spaces(s), NEW files, FileList(files), NEW k, NEW sp \in {"env", "secrets"}
  PROVE  LET r == AfterFiles(in, source, s, files) IN
         /\ Spaces(r)
         /\ Value(r[sp], k) = IF Space(in, source, k) = sp /\ LastOfFiles(k, files) # {} THEN LastOfFiles(k, files)
                                                                                         ELSE Value(s[sp], k)
<1> DEFINE n == Len(files)
<1>1. n \in Nat /\ DOMAIN files = 1 .. n
  BY DEF FileList, IsList
<1>2. PICK f : /\ f[0] = s /\ AfterFiles(in, source, s, files) = f[n]
               /\ \A i \in 1 .. n : f[i] = AfterLines(in, source, f[i - 1], files[i].lines)
  BY <1>1, FilePasses
<1>a. ASSUME NEW i \in 1 .. n, Spaces(f[i - 1])
      PROVE  LET r == AfterLines(in, source, f[i - 1], files[i].lines)
                 mine == LastOf(k, files[i].lines)
             IN  /\ Spaces(r)
                 /\ Value(r[sp], k) = IF Space(in, source, k) = sp /\ mine # {} THEN mine ELSE Value(f[i - 1][sp], k)
  <2>1. IsList(files[i].lines)
    BY <1>1 DEF FileList, Range
  <2> QED
    BY <1>a, <2>1, LinesGive
<1> DEFINE good == {i \in 0 .. n : Spaces(f[i])}
<1>3. n \in good /\ \A i \in 0 .. n : i \in good
  <2>1. 0 \in good
    BY <1>1, <1>2
  <2>2. ASSUME NEW i \in 0 .. n - 1, i \in good PROVE i + 1 \in good
    <3>1. i + 1 \in 1 .. n /\ i + 1 \in 0 .. n /\ (i + 1) - 1 = i
      BY <1>1
    <3>2. f[i + 1] = AfterLines(in, source, f[i], files[i + 1].lines)
      BY <1>2, <3>1
    <3>3. Spaces(f[i])
      BY <2>2
    <3>4. Spaces(AfterLines(in, source, f[i], files[i + 1].lines))
      BY <3>1, <3>3, <1>a
    <3> QED
      BY <3>1, <3>2, <3>4
  <2>3. 0 .. n \subseteq good
    <3> HIDE DEF good, n
    <3> QED
      BY <1>1, <2>1, <2>2, CountingUp
  <2>4. n \in 0 .. n
    BY <1>1
  <2> HIDE DEF good
  <2> QED
    BY <2>3, <2>4
<1> DEFINE here    == Space(in, source, k) = sp
           last    == [i \in DOMAIN files |-> LastOf(k, files[i].lines)]
           give    == [i \in 1 .. n |-> IF here THEN last[i] ELSE {}]
           v       == [i \in 0 .. n |-> Value(f[i][sp], k)]
<1>4. ASSUME NEW i \in 1 .. n PROVE v[i] = IF give[i] = {} THEN v[i - 1] ELSE give[i]
  <2>1. i \in 0 .. n /\ i - 1 \in 0 .. n
    BY <1>1
  <2>2. v[i] = Value(f[i][sp], k) /\ v[i - 1] = Value(f[i - 1][sp], k)
    BY <2>1
  <2>3. f[i] = AfterLines(in, source, f[i - 1], files[i].lines)
    BY <1>2
  <2>4. Spaces(f[i - 1])
    <3> HIDE DEF good
    <3>1. i - 1 \in good
      BY <1>3, <2>1
    <3> QED BY <3>1 DEF good
  <2>5. Value(f[i][sp], k) = IF here /\ LastOf(k, files[i].lines) # {} THEN LastOf(k, files[i].lines)
                                                                      ELSE Value(f[i - 1][sp], k)
    BY <2>3, <2>4, <1>a
  <2>6. give[i] = IF here THEN LastOf(k, files[i].lines) ELSE {}
    BY <1>1
  <2> HIDE DEF v, give, here
  <2> QED
    BY <2>2, <2>5, <2>6
<1>5. DOMAIN give = 1 .. n
  OBVIOUS
<1>6. v[n] = IF LastGiven(give) = {} THEN v[0] ELSE LastGiven(give)
  <2> HIDE DEF v, give, n
  <2> QED
    BY <1>1, <1>4, <1>5, LastWins
<1>7. v[n] = Value(f[n][sp], k) /\ v[0] = Value(s[sp], k)
  BY <1>1, <1>2
<1>8. LastGiven(give) = IF here THEN LastOfFiles(k, files) ELSE {}
  <2>1. here => give = last
    BY <1>1
  <2>2. LastOfFiles(k, files) = LastGiven(last)
    BY DEF LastOfFiles
  <2>3. ~ here => LastGiven(give) = {}
    BY DEF LastGiven
  <2> HIDE DEF here, give, last
  <2> QED
    BY <2>1, <2>2, <2>3
<1>9. Spaces(f[n])
  BY <1>3
<1> HIDE DEF v, give
<1> QED
  BY <1>2, <1>6, <1>7, <1>8, <1>9

LEMMA FirstOfThree ==
  ASSUME NEW a, NEW b, NEW c
  PROVE  FirstGiven(<<a, b, c>>) = IF a # {} THEN a ELSE IF b # {} THEN b ELSE c
<1> DEFINE s == <<a, b, c>>
<1>1. DOMAIN s = {1, 2, 3} /\ s[1] = a /\ s[2] = b /\ s[3] = c
  OBVIOUS
<1> HIDE DEF s
<1>2. FirstGiven(s) = UNION {s[i] : i \in {m \in {1, 2, 3} : \A j \in {1, 2, 3} : j < m => s[j] = {}}}
  BY <1>1 DEF FirstGiven
<1>3. CASE a # {}
  <2>1. {m \in {1, 2, 3} : \A j \in {1, 2, 3} : j < m => s[j] = {}} = {1}
    BY <1>1, <1>3
  <2> QED
    BY <1>1, <1>2, <1>3, <2>1 DEF s
<1>4. CASE a = {} /\ b # {}
  <2>1. {m \in {1, 2, 3} : \A j \in {1, 2, 3} : j < m => s[j] = {}} = {1, 2}
    BY <1>1, <1>4
  <2> QED
    BY <1>1, <1>2, <1>4, <2>1 DEF s
<1>5. CASE a = {} /\ b = {}
  <2>1. {m \in {1, 2, 3} : \A j \in {1, 2, 3} : j < m => s[j] = {}} = {1, 2, 3}
    BY <1>1, <1>5
  <2> QED
    BY <1>1, <1>2, <1>5, <2>1 DEF s
<1> QED
  BY <1>3, <1>4, <1>5

\* What a run that was not refused has in both namespaces.
InputsInv ==
  /\ declared \in Declarations
  /\ phase \in {"start", "refused", "resolved"}
  /\ phase = "resolved" => ~ Refused(declared) /\ spaces = Resolution(declared)

LEMMA InputsStart == InputsInit => InputsInv
BY DEF InputsInit, InputsInv

LEMMA InputsKeep == InputsInv /\ [Resolve]_inputVars => InputsInv'
BY DEF InputsInv, Resolve, inputVars, Refused, Resolution

LEMMA ResolutionGives ==
  ASSUME NEW in \in Declarations, ~ Refused(in), NEW k
  PROVE  /\ Value(Resolution(in).env, k) =
              FirstGiven(<<LastOf(k, in.inline),
                           IF k \in in.secrets THEN {} ELSE LastOfFiles(k, in.env_files),
                           Value(FromProcess(in, in.pass_env), k)>>)
         /\ Value(Resolution(in).secrets, k) =
              FirstGiven(<<LastOfFiles(k, in.secrets_files),
                           IF k \in in.secrets THEN LastOfFiles(k, in.env_files) ELSE {},
                           Value(FromProcess(in, in.secrets), k)>>)
<1> DEFINE s0 == [env |-> FromProcess(in, in.pass_env), secrets |-> FromProcess(in, in.secrets)]
           s1 == AfterFiles(in, "env_file", s0, in.env_files)
           s2 == AfterFiles(in, "secrets_file", s1, in.secrets_files)
           s3 == AfterLines(in, "inline", s2, in.inline)
<1>1. Resolution(in) = s3
  BY DEF Resolution
<1>2. FileList(in.env_files) /\ FileList(in.secrets_files) /\ IsList(in.inline)
  BY InputsAreSequences DEF FileList
<1>3. /\ Space(in, "env_file", k) = IF k \in in.secrets THEN "secrets" ELSE "env"
      /\ Space(in, "secrets_file", k) = "secrets" /\ Space(in, "inline", k) = "env"
  BY DEF Space
<1>4. Spaces(s0) /\ s0.env = FromProcess(in, in.pass_env) /\ s0.secrets = FromProcess(in, in.secrets)
  BY DEF Spaces
<1> HIDE DEF s0
<1>5. /\ Spaces(s1)
      /\ \A sp \in {"env", "secrets"} :
           Value(s1[sp], k) = IF Space(in, "env_file", k) = sp /\ LastOfFiles(k, in.env_files) # {}
                              THEN LastOfFiles(k, in.env_files) ELSE Value(s0[sp], k)
  BY <1>2, <1>4, FilesGive
<1> HIDE DEF s1
<1>6. /\ Spaces(s2)
      /\ \A sp \in {"env", "secrets"} :
           Value(s2[sp], k) = IF Space(in, "secrets_file", k) = sp /\ LastOfFiles(k, in.secrets_files) # {}
                              THEN LastOfFiles(k, in.secrets_files) ELSE Value(s1[sp], k)
  BY <1>2, <1>5, FilesGive
<1> HIDE DEF s2
<1>7. \A sp \in {"env", "secrets"} :
        Value(s3[sp], k) = IF Space(in, "inline", k) = sp /\ LastOf(k, in.inline) # {}
                           THEN LastOf(k, in.inline) ELSE Value(s2[sp], k)
  BY <1>2, <1>6, LinesGive
<1> HIDE DEF s3
<1>8. Value(s3.env, k) = IF LastOf(k, in.inline) # {} THEN LastOf(k, in.inline)
                         ELSE IF k \notin in.secrets /\ LastOfFiles(k, in.env_files) # {} THEN LastOfFiles(k, in.env_files)
                         ELSE Value(s0.env, k)
  BY <1>3, <1>5, <1>6, <1>7
<1>9. Value(s3.secrets, k) = IF LastOfFiles(k, in.secrets_files) # {} THEN LastOfFiles(k, in.secrets_files)
                             ELSE IF k \in in.secrets /\ LastOfFiles(k, in.env_files) # {} THEN LastOfFiles(k, in.env_files)
                             ELSE Value(s0.secrets, k)
  BY <1>3, <1>5, <1>6, <1>7
<1> QED
  BY <1>1, <1>4, <1>8, <1>9, FirstOfThree

\* A name declared secret is not given by a flag.
LEMMA FlagsGiveNoSecret ==
  ASSUME NEW in \in Declarations, ~ Refused(in), NEW k \in in.secrets
  PROVE  LastOf(k, in.inline) = {}
<1>1. \A b \in Range(in.inline) : b.key # k
  BY DEF Refused
<1>2. \A i \in DOMAIN in.inline : in.inline[i].key # k
  BY <1>1 DEF Range
<1> QED
  BY <1>2 DEF LastOf, LastGiven

LEMMA InputsInvSuffices == InputsInv => InputsByPrecedence
<1> SUFFICES ASSUME InputsInv, phase = "resolved" PROVE InputsByPrecedence
  BY DEF InputsByPrecedence
<1> DEFINE in == declared
           process(k, names) == Value(FromProcess(in, names), k)
<1>1. in \in Declarations /\ ~ Refused(in) /\ spaces = Resolution(in)
  BY DEF InputsInv
<1>2. ASSUME NEW k \in Names
      PROVE  /\ Value(spaces.env, k) =
                  FirstGiven(<<LastOf(k, in.inline),
                               IF k \in in.secrets THEN {} ELSE LastOfFiles(k, in.env_files),
                               process(k, in.pass_env)>>)
             /\ Value(spaces.secrets, k) =
                  FirstGiven(<<LastOfFiles(k, in.secrets_files),
                               IF k \in in.secrets THEN LastOfFiles(k, in.env_files) ELSE {},
                               process(k, in.secrets)>>)
  BY <1>1, ResolutionGives
<1>3. ASSUME NEW k \in Names, k \in in.secrets,
             NEW x \in (Value(spaces.env, k) \cup Value(spaces.secrets, k)) \ {""}
      PROVE  \/ <<x, "plain">> \in Patterns(spaces.secrets)
             \/ k \in in.pass_env /\ Value(spaces.secrets, k) # process(k, {k})
  <2>1. ASSUME x \in Value(spaces.secrets, k) PROVE <<x, "plain">> \in Patterns(spaces.secrets)
    <3>1. x \in Range(spaces.secrets) \ {""}
      BY <1>3, <2>1 DEF Value, Range
    <3> QED
      BY <3>1 DEF Patterns
  <2>2. ASSUME x \in Value(spaces.env, k), x \notin Value(spaces.secrets, k)
        PROVE  k \in in.pass_env /\ Value(spaces.secrets, k) # process(k, {k})
    <3>1. Value(spaces.env, k) = process(k, in.pass_env)
      <4>1. LastOf(k, in.inline) = {}
        BY <1>1, <1>3, FlagsGiveNoSecret
      <4>2. Value(spaces.env, k) = FirstGiven(<<{}, {}, process(k, in.pass_env)>>)
        BY <1>2, <1>3, <4>1
      <4> QED
        BY <4>2, FirstOfThree
    <3>2. k \in in.pass_env /\ process(k, in.pass_env) = process(k, {k})
      BY <2>2, <3>1 DEF Value, FromProcess, Restrict
    <3> HIDE DEF process, in
    <3> QED
      BY <2>2, <3>1, <3>2
  <2> HIDE DEF process, in
  <2> QED
    BY <1>3, <2>1, <2>2
<1> HIDE DEF process
<1> QED
  BY <1>2, <1>3 DEF InputsByPrecedence, process

-----------------------------------------------------------------------------
(* The composition.                                                        *)

SideInv == ChildInv /\ FetchInv /\ TapeInv /\ TextsInv /\ InputsInv

LEMMA SideStarts == SideInit => SideInv
BY ChildStarts, FetchStarts, TapeStarts, TextsStart, InputsStart DEF SideInit, SideInv

\* Whatever is at work, a step is one of each part's own or leaves it alone.
LEMMA StepOfEach ==
  [SideNext]_sideVars => /\ [Next]_vars /\ [FetchNext]_fetchVars /\ [TransportNext]_transport
                         /\ [FilesNext]_fileVars /\ [Resolve]_inputVars
BY DEF SideNext, sideVars

LEMMA SideKeeps == SideInv /\ [SideNext]_sideVars => SideInv'
BY StepOfEach, ChildKeeps, FetchKeeps, TapeKeeps, TextsKeep, InputsKeep DEF SideInv

LEMMA SideAlways == SideSpec => []SideInv
BY SideStarts, SideKeeps, PTL DEF SideSpec

\* A child's result holds all it wrote, up to the cap and less than one UTF-8
\* character, whatever order the exits, the reads and the joins come in.
THEOREM OutputIsComplete == SideSpec => []OutputComplete
BY SideAlways, ChildInvSuffices, PTL DEF SideInv

\* WebFetch never asks a host that was not judged first, along however many
\* redirects and whatever the resolver and the servers answer.
THEOREM HopsAreJudged == SideSpec => []EveryHopJudged
BY SideAlways, FetchInvSuffices, PTL DEF SideInv

\* Requests are repeated after transient failures only, up to the limit, and
\* an error that is told for good was the last attempt's.
THEOREM RetriesSpent == SideSpec => []RetriesAreSpent
BY SideAlways, TransportInvSuffices, PTL DEF SideInv, TapeInv

\* A replay gives each provider's requests the recorded answers, error for
\* error and in order, whatever was dropped or not recorded in between.
THEOREM ReplayAnswers == SideSpec => []ReplayedAsAnswered
BY SideAlways, TapeInvSuffices, PTL DEF SideInv

\* However calls interleave, fail or are killed, only calls answered ok have
\* changed a file, and files and directories are only made at places of the
\* root or, where nothing was yet, behind a link that lies in it.
THEOREM RefusalsLeaveNothing == SideSpec => []RefusedLeavesNothing
BY SideAlways, FilesInvSuffices, PTL DEF SideInv, TextsInv

\* Whenever the process dies, and however calls at one place interleave, a
\* place holds a text as it was given for it, or edits of one, never part of it.
THEOREM NothingIsTorn == SideSpec => []NeverTorn
BY SideAlways, TextsInvSuffices, PTL DEF SideInv

\* Every name has the value of the source that the documentation puts first,
\* for any files, lines and flags, and what may be read under the name of a
\* secret is masked.
THEOREM InputsResolved == SideSpec => []InputsByPrecedence
BY SideAlways, InputsInvSuffices, PTL DEF SideInv
=============================================================================
