------------------------------- MODULE WebFetch -------------------------------
(***************************************************************************)
(* A WebFetch call from the policy gate to its answer: the host of the URL *)
(* is judged before the first GET and the host of every redirect before    *)
(* the next one, names are resolved under a deadline, the body is kept up  *)
(* to a cap.  Servers and the resolver may answer anything, or nothing.    *)
(***************************************************************************)
EXTENDS Naturals, Sequences, FiniteSets

CONSTANTS
  Literals, HostNames,  \* hosts written as addresses, and as names
  Private,              \* the literals in a blocked range
  Under,                \* the entries of a domain list that match a host
  Policies,             \* [allow, allowed, blocked] of the agent and of the
                        \* handler (which has no allow flag)
  MaxRedirects,         \* MAX_REDIRECTS
  MaxBody,              \* MAX_BODY_BYTES
  MaxSent               \* bound: bytes a server sends

Hosts == Literals \cup HostNames

ASSUME FetchAssumption ==
  /\ Literals \cap HostNames = {} /\ Private \subseteq Literals
  /\ \A h \in Hosts : h \in DOMAIN Under
  /\ MaxRedirects \in Nat /\ MaxBody \in Nat \ {0} /\ MaxSent \in Nat

VARIABLES
  policy,    \* [agent, handler], fixed
  url,       \* [scheme, host] asked next
  at,        \* where the call is
  hops,      \* redirects followed
  asked,     \* <<redirects before, host>> of every GET
  resolved,  \* names that resolved to addresses outside the blocked ranges
  body,      \* [kept, cut] and, of the server, what it sent and whether it ended
  result     \* none, ok, denied or error

fetchVars == <<policy, url, at, hops, asked, resolved, body, result>>

NoBody == [kept |-> 0, cut |-> FALSE, sent |-> 0, ended |-> FALSE]

FetchInit ==
  /\ policy \in Policies
  /\ url \in [scheme : {"http", "other", "bad"}, host : Hosts]
  /\ at = "gate" /\ hops = 0 /\ asked = {} /\ resolved = {}
  /\ body = NoBody /\ result = "none"

Finish(r) ==
  /\ result' = r /\ at' = "over"
  /\ UNCHANGED <<policy, url, hops, asked, resolved, body>>

Move(where) == at' = where /\ UNCHANGED <<policy, url, hops, asked, resolved, body, result>>

-----------------------------------------------------------------------------
Matches(list, host) == list \cap Under[host] # {}

\* blocked_domains wins over allowed_domains, an empty allowed_domains allows.
InLists(p, host) ==
  ~ Matches(p.blocked, host) /\ (p.allowed # {} => Matches(p.allowed, host))

\* The gate of check_policy_and_invoke.  A URL that does not parse passes.
Gate ==
  /\ at = "gate"
  /\ LET p == policy.agent
         fits == url.scheme = "http" /\ url.host \notin Private /\ InLists(p, url.host)
     IN  \/ ~ p.allow /\ Finish("denied")
         \/ p.allow /\ url.scheme = "bad" /\ Move("send")
         \/ p.allow /\ url.scheme # "bad" /\ ~ fits /\ Finish("denied")
         \/ p.allow /\ fits /\ Move(IF url.host \in Literals THEN "send" ELSE "gate_dns")

\* resolve_host: addresses outside the blocked ranges, one inside, or an error
\* (its deadline included), which is forgiven to a host that is listed.
GateResolves(answer) ==
  /\ at = "gate_dns"
  /\ \/ answer = "open" /\ resolved' = resolved \cup {url.host} /\ at' = "send"
          /\ UNCHANGED <<policy, url, hops, asked, body, result>>
     \/ answer = "private" /\ Finish("denied")
     \/ answer = "fails"
          /\ IF Matches(policy.agent.allowed, url.host) THEN Move("send") ELSE Finish("denied")

\* GET, with a timeout of its own.
Send ==
  /\ at = "send"
  /\ IF url.scheme # "http" THEN Finish("error")
     ELSE /\ at' = "wait" /\ asked' = asked \cup {<<hops, url.host>>}
          /\ UNCHANGED <<policy, url, hops, resolved, body, result>>

\* A redirect: too many, a Location that is missing or no URL, a literal in a
\* blocked range, or a host to judge.
Redirect(next) ==
  /\ at = "wait"
  /\ IF hops >= MaxRedirects \/ next.scheme = "bad" \/ next.host \in Private THEN Finish("error")
     ELSE /\ url' = next
          /\ at' = IF next.host \in Literals THEN "lists" ELSE "hop_dns"
          /\ UNCHANGED <<policy, hops, asked, resolved, body, result>>

\* Mutant: a resolver that fails lets the hop through.
HopForgiven(answer) ==
  /\ at = "hop_dns"
  /\ IF answer # "private"
     THEN /\ at' = "lists"
          /\ resolved' = IF answer = "open" THEN resolved \cup {url.host} ELSE resolved
          /\ UNCHANGED <<policy, url, hops, asked, body, result>>
     ELSE Finish("error")

\* resolve_redirect_host: an error ends the call here.
HopResolves(answer) ==
  /\ at = "hop_dns"
  /\ IF answer = "open"
     THEN /\ at' = "lists" /\ resolved' = resolved \cup {url.host}
          /\ UNCHANGED <<policy, url, hops, asked, body, result>>
     ELSE Finish("error")

\* evaluate_redirect_host, with the lists of the handler.
Follow ==
  /\ at = "lists"
  /\ IF InLists(policy.handler, url.host)
     THEN /\ at' = "send" /\ hops' = hops + 1
          /\ UNCHANGED <<policy, url, asked, resolved, body, result>>
     ELSE Finish("error")

Respond == at = "wait" /\ Move("body")

-----------------------------------------------------------------------------
\* A chunk: what fits is kept, and the first byte that does not ends the read.
Chunk(n) ==
  /\ at = "body" /\ ~ body.ended /\ body.sent + n <= MaxSent
  /\ LET room == MaxBody - body.kept
         kept == body.kept + IF n < room THEN n ELSE room
         cut == room = 0 \/ n > room
     IN  /\ body' = [body EXCEPT !.kept = kept, !.cut = cut, !.sent = @ + n]
         /\ at' = IF cut THEN "text" ELSE "body"
  /\ UNCHANGED <<policy, url, hops, asked, resolved, result>>

LastChunk ==
  /\ at = "body"
  /\ body' = [body EXCEPT !.ended = TRUE] /\ at' = "text"
  /\ UNCHANGED <<policy, url, hops, asked, resolved, result>>

Text == at = "text" /\ Finish("ok")

\* A connection that fails, or the request's timeout, at any await.
NoAnswer == at \in {"wait", "body"} /\ Finish("error")

FetchStep ==
  \/ Gate \/ Send \/ Follow \/ Text \/ NoAnswer
  \/ GateResolves("fails") \/ HopResolves("fails")

FetchNext ==
  \/ FetchStep
  \/ \E answer \in {"open", "private"} : GateResolves(answer) \/ HopResolves(answer)
  \/ \E next \in [scheme : {"http", "other", "bad"}, host : Hosts] : Redirect(next)
  \/ Respond \/ LastChunk
  \/ \E n \in 1 .. MaxSent : Chunk(n)

-----------------------------------------------------------------------------
\* No GET is sent to a host that was not judged first: an address outside of
\* the blocked ranges, a name that resolved to such addresses in this call, or
\* the name the agent lists itself; and every hop is in the handler's lists.
EveryHopJudged ==
  \A get \in asked :
    LET first == get[1] = 0
        h == get[2]
    IN  /\ h \notin Private
        /\ h \in HostNames => h \in resolved \/ (first /\ Matches(policy.agent.allowed, h))
        /\ InLists(IF first THEN policy.agent ELSE policy.handler, h)

=============================================================================
