----------------------------- MODULE Transport -----------------------------
(***************************************************************************)
(* The requests of a recorded run to its providers (llm/genai) and the     *)
(* same requests again on a replay (llm/recording.rs, llm/replay.rs): the  *)
(* clients built for the agents, the retries after transient failures, the *)
(* errors the loops see, what the tape keeps of each answer and what is    *)
(* made of it when it is read back.  The text of requests and answers is   *)
(* left out: all requests to one provider are alike, and share a tape key. *)
(***************************************************************************)
EXTENDS Integers, Sequences, SequencesExt, FiniteSets

CONSTANTS Known,          \* the providers this build knows
          Keyless,        \* those of them that need no key
          Required,       \* the sets of providers the agents may name
          KeyStates,      \* where keys may be found, for each known provider
          Failures,       \* what the client library may fail with
          Replies,        \* what a provider may answer
          Retries,        \* LLM_RETRY_MAX_ATTEMPTS
          BodyCap,        \* MAX_API_ERR_BODY_BYTES
          Suffix,         \* bytes of the note that a body was cut
          ExcerptCap,     \* RECORDED_API_BODY_EXCERPT_BYTES
          MaxRequests     \* bound on the requests of a run

ASSUME TransportAssumption ==
  /\ Keyless \subseteq Known
  /\ KeyStates \subseteq [Known -> SUBSET {"secret", "environment"}]
  /\ {Retries, BodyCap, Suffix, ExcerptCap, MaxRequests} \subseteq Nat
  /\ BodyCap + Suffix <= ExcerptCap
  /\ Failures \cap Replies = {}
  /\ \A f \in Failures : f.kind = "http" => f.body \in Nat

VARIABLES providers,   \* the providers the agents name
          keys,        \* where a key for a provider is found
          stage,       \* of the run: build, refused, idle, sending, backoff, replay
          requests,    \* the requests so far, with the outcome of every attempt
          tape,        \* the recorded answers of each provider's key, in order
          again        \* the answers of the replay, of each provider's requests

transport == <<providers, keys, stage, requests, tape, again>>

Err(class) == [class |-> class, status |-> 0, body |-> 0]

TransportInit ==
  /\ providers \in Required
  /\ keys \in KeyStates
  /\ stage = "build"
  /\ requests = <<>>
  /\ tape = [p \in providers |-> <<>>] /\ again = [p \in providers |-> <<>>]

-----------------------------------------------------------------------------
\* resolve_auth: a resolved secret goes before the provider's variable.
Auth(p) ==
  CASE p \in Keyless -> "unneeded"
    [] "secret" \in keys[p] -> "secret"
    [] "environment" \in keys[p] -> "environment"
    [] OTHER -> "none"

\* from_agents: one client per provider, or the run does not start.
Build ==
  /\ stage = "build"
  /\ stage' = IF providers \subseteq Known THEN "idle" ELSE "refused"
  /\ UNCHANGED <<providers, keys, requests, tape, again>>

\* convert_usage: negative counts are 0, and nothing but zeros is no report.
Counted(n) == IF n > 0 THEN n ELSE 0

UsageOf(u) ==
  LET usage == [f \in DOMAIN u |-> Counted(u[f])] IN
    IF \A f \in DOMAIN u : usage[f] = 0 THEN {} ELSE {usage}

\* The answer made of a reply.  Its stop reason decides: one that says tool
\* calls (kind "calls") makes an answer of its calls, be there none, with the
\* text left out; any other makes one of the text, which must be there.
AnswerOf(r) ==
  IF r.kind = "empty" THEN Err("parse")
  ELSE [class |-> "ok", kind |-> r.kind, usage |-> UsageOf(r.usage)]

TransientStatus == {408, 425, 429, 500, 502, 503, 504}

Transient(f) ==
  \/ f.kind = "connect"
  \/ f.kind \in {"http", "web"} /\ f.status \in TransientStatus

Truncated(body) == IF body <= BodyCap THEN body ELSE BodyCap + Suffix

StatusToError(f) ==
  CASE f.status \in {401, 403} -> Err("auth")
    [] f.status = 404 -> Err("model")
    [] f.status = 429 -> Err("rate")
    [] OTHER -> [class |-> "api", status |-> f.status, body |-> Truncated(f.body)]

\* map_genai_error: a status inside a web error (kind "web") stays there, and
\* a key that is nowhere (kind "keyless") is none of the errors told apart.
ErrorOf(f) ==
  CASE f.kind = "http" -> StatusToError(f)
    [] f.kind = "parse" -> Err("parse")
    [] OTHER -> Err("transport")

-----------------------------------------------------------------------------
\* from_llm_error and to_llm_error.
Recorded(a) ==
  IF a.class = "api" THEN [a EXCEPT !.body = IF @ <= ExcerptCap THEN @ ELSE ExcerptCap] ELSE a

Reraised(entry) == IF entry.class = "other" THEN Err("rejected") ELSE entry

now == Last(requests)

WithNow(r) == requests' = [requests EXCEPT ![Len(requests)] = r]

\* The loop of an agent asks its provider.
Ask(p) ==
  /\ stage = "idle" /\ Len(requests) < MaxRequests
  /\ p \in providers
  /\ stage' = "sending"
  /\ requests' = Append(requests, [provider |-> p, outcomes |-> <<>>, answer |-> Err("pending"), taped |-> FALSE])
  /\ UNCHANGED <<providers, keys, tape, again>>

\* Mutant: only successes reach the tape.
TellIfOk(a, o, written) ==
  /\ stage' = "idle"
  /\ WithNow([now EXCEPT !.outcomes = Append(@, o), !.answer = IF written THEN a ELSE Err("transport"),
                         !.taped = written])
  /\ tape' = IF written /\ a.class = "ok" THEN [tape EXCEPT ![now.provider] = Append(@, Recorded(a))] ELSE tape

\* RecordingTransport::complete: the entry is written before the loop is
\* answered, and a failure to write it replaces the answer.
Tell(a, o, written) ==
  /\ stage' = "idle"
  /\ WithNow([now EXCEPT !.outcomes = Append(@, o), !.answer = IF written THEN a ELSE Err("transport"),
                         !.taped = written])
  /\ tape' = IF written THEN [tape EXCEPT ![now.provider] = Append(@, Recorded(a))] ELSE tape

Possible(f) == f.kind = "keyless" <=> Auth(now.provider) = "none"

Replied(r, written) ==
  /\ stage = "sending" /\ Auth(now.provider) # "none"
  /\ Tell(AnswerOf(r), r, written)
  /\ UNCHANGED <<providers, keys, again>>

\* Mutant: one attempt more.
RetryInclusive(f) == Len(now.outcomes) <= Retries /\ Transient(f)

\* attempt < LLM_RETRY_MAX_ATTEMPTS && transient
RetryAfter(f) == Len(now.outcomes) < Retries /\ Transient(f)

FailsTransiently(f) ==
  /\ stage = "sending" /\ Possible(f)
  /\ RetryAfter(f)
  /\ stage' = "backoff"
  /\ WithNow([now EXCEPT !.outcomes = Append(@, f)])
  /\ UNCHANGED <<providers, keys, tape, again>>

FailsForGood(f, written) ==
  /\ stage = "sending" /\ Possible(f)
  /\ ~ RetryAfter(f)
  /\ Tell(ErrorOf(f), f, written)
  /\ UNCHANGED <<providers, keys, again>>

Resend ==
  /\ stage = "backoff"
  /\ stage' = "sending"
  /\ UNCHANGED <<providers, keys, requests, tape, again>>

\* The node's timeout, or Ctrl-C, drops the request at an await: nothing is
\* recorded.
DropRequest ==
  /\ stage \in {"sending", "backoff"}
  /\ stage' = "idle"
  /\ WithNow([now EXCEPT !.answer = Err("dropped")])
  /\ UNCHANGED <<providers, keys, tape, again>>

Rewind ==
  /\ stage = "idle"
  /\ stage' = "replay"
  /\ UNCHANGED <<providers, keys, requests, tape, again>>

\* The entries of a key come out first in, first out.
Popped(p, k) == IF k <= Len(tape[p]) THEN Reraised(tape[p][k]) ELSE Err("miss")

\* ReplayTransport::complete
Reask(p) ==
  /\ stage = "replay" /\ p \in providers
  /\ Len(again[p]) < MaxRequests
  /\ again' = [again EXCEPT ![p] = Append(@, Popped(p, Len(@) + 1))]
  /\ UNCHANGED <<providers, keys, stage, requests, tape>>

TransportNext ==
  \/ Build \/ Resend \/ DropRequest \/ Rewind
  \/ \E p \in providers : Ask(p) \/ Reask(p)
  \/ \E f \in Failures : FailsTransiently(f)
  \/ \E f \in Failures, written \in BOOLEAN : FailsForGood(f, written)
  \/ \E r \in Replies, written \in BOOLEAN : Replied(r, written)

-----------------------------------------------------------------------------
\* A request is repeated after a transient failure and nothing else, the loop
\* gets the error of the last attempt, and a transient one only when every
\* attempt was spent.
RetriesAreSpent ==
  \A i \in DOMAIN requests :
    LET r == requests[i]
        tried == Len(r.outcomes)
    IN  /\ tried <= Retries + 1
        /\ \A k \in 1 .. tried - 1 : r.outcomes[k] \in Failures /\ Transient(r.outcomes[k])
        /\ r.taped => /\ tried > 0
                      /\ r.outcomes[tried] \in Replies => r.answer = AnswerOf(r.outcomes[tried])
                      /\ r.outcomes[tried] \in Failures =>
                           /\ r.answer = ErrorOf(r.outcomes[tried])
                           /\ Transient(r.outcomes[tried]) => tried = Retries + 1

\* Of the first i requests, those a provider was recorded to answer.
ForTape(p, i) == requests[i].provider = p /\ requests[i].taped

Told(p, i) == Cardinality({j \in 1 .. i : ForTape(p, j)})

\* A provider's requests are answered on a replay as the recorded ones were,
\* error for error and in their order, whichever were dropped or could not be
\* recorded in between; past the last one every request fails.
ReplayedAsAnswered ==
  \A p \in providers :
    /\ \A i \in DOMAIN requests :
         LET k == Told(p, i)
         IN  ForTape(p, i) /\ k <= Len(again[p]) => again[p][k] = requests[i].answer
    /\ \A k \in Told(p, Len(requests)) + 1 .. Len(again[p]) : again[p][k] = Err("miss")
=============================================================================
