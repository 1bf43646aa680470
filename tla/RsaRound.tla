------------------------------ MODULE RsaRound ------------------------------
(***************************************************************************)
(* One chat request through the RSA proxy (src/rsa): the server decides    *)
(* whether to aggregate it, run_rsa grows a population of candidates in    *)
(* rounds of concurrent backend calls, each of them retried on its own,    *)
(* and _select turns the last population into one answer.                  *)
(*                                                                         *)
(* A candidate is what the program tells apart: the normalised boxed       *)
(* answer, whether generation stopped by itself, whether its code block    *)
(* crashes, and the prompt tokens booked on it.  Texts, tails and the      *)
(* prompts built from them are left out; so are completion tokens.         *)
(***************************************************************************)
EXTENDS Integers, Sequences, FiniteSets

CONSTANTS
    Requests,    \* request bodies: [tools, many, rsa]
    Defaults,    \* RSAParams of the server
    Rollouts,    \* what one completion may be: [answer, clean, crashes]
    NoBox,       \* no \boxed{} in the text
    EmptyBox,    \* \boxed{} with nothing in it
    Unparseable  \* answers answer_parses refuses

VARIABLES
    phase,       \* where run_rsa stands
    p,           \* the merged RSAParams of the request
    calls,       \* backend calls of the gather that is awaited
    population,  \* candidates of the last round (of n_min while topping up)
    rounds,      \* len(rounds)
    usage,       \* UsageTotals: prompt tokens and n_requests
    answered,    \* prompts the backend has completed for this request
    reply        \* what the client receives

vars == <<phase, p, calls, population, rounds, usage, answered, reply>>

Pending == [status |-> "none"]

-----------------------------------------------------------------------------
(* Votes, consensus and the verifier (extract.py, verify.py) *)

Extracted(c) == c.answer \notin {NoBox, EmptyBox}

Voters(pop) == {i \in DOMAIN pop : Extracted(pop[i])}

Votes(pop, a) == Cardinality({i \in DOMAIN pop : pop[i].answer = a})

First(S) == CHOOSE i \in S : \A j \in S : i <= j

Vote(pop) ==
    LET top == {i \in Voters(pop) :
                  \A j \in Voters(pop) : Votes(pop, pop[i].answer) >= Votes(pop, pop[j].answer)}
    IN  IF top = {} THEN NoBox ELSE pop[First(top)].answer

HasConsensus(pop) ==
    /\ Cardinality(Voters(pop)) >= p.consensus_min_votes
    /\ 100 * Votes(pop, Vote(pop)) >= p.consensus_threshold * Cardinality(Voters(pop))

ConsensusMet(pop) == p.early_stop /\ HasConsensus(pop)

Broken(c) ==
    \/ p.verifier \in {"code", "auto"} /\ c.crashes
    \/ p.verifier \in {"math", "auto"} /\ c.answer \in Unparseable \cup {EmptyBox}

AtMost(a, b) == IF a <= b THEN a ELSE b

Unbroken(pop) ==
    LET kept[i \in 0..Len(pop)] ==
            IF i = 0 THEN <<>>
            ELSE IF Broken(pop[i]) THEN kept[i - 1] ELSE Append(kept[i - 1], pop[i])
    IN  kept[Len(pop)]

Pool(pop) == IF Len(Unbroken(pop)) < AtMost(p.k, Len(pop)) THEN pop ELSE Unbroken(pop)

-----------------------------------------------------------------------------
(* The server's decision (server.py chat_completions, config.py) *)

Merged(r) == [f \in DOMAIN Defaults |-> IF f \in DOMAIN r.rsa THEN r.rsa[f] ELSE Defaults[f]]

ValidParams(m) ==
    /\ \A f \in {"n", "k", "t", "max_concurrency", "consensus_min_votes"} : m[f] >= 1
    /\ m.max_retries >= 0
    /\ m.n_min >= 0 \* 0 stands for None

\* pydantic refuses anything but integers, and the server starts with valid defaults
ParamsAssumption ==
    /\ ValidParams(Defaults)
    /\ \A m \in {Defaults} \cup {Merged(r) : r \in Requests} :
          /\ \A f \in {"n", "t", "n_min", "max_retries"} : m[f] \in Int
          /\ m.expand_with_n \in BOOLEAN

ASSUME ParamsAssumption

PassThrough(r) == r.tools \/ r.many

-----------------------------------------------------------------------------
(* Backend calls: complete asks for one candidate, complete_n for many *)

NewCall(want) ==
    [want |-> want, st |-> "queued", attempt |-> 0, limit |-> "max_tokens", sends |-> 0, got |-> <<>>]

Batch(shared, n) == IF shared THEN <<NewCall(n)>> ELSE [i \in 1..n |-> NewCall(1)]

\* mutant: every candidate of a shared call carries the prompt
CandidatesBug(texts) ==
    [j \in DOMAIN texts |->
        [answer |-> texts[j].answer, clean |-> texts[j].clean, crashes |-> texts[j].crashes,
         prompt |-> 1]]

\* prompt tokens are booked on the first candidate of a call only
Candidates(texts) ==
    [j \in DOMAIN texts |->
        [answer |-> texts[j].answer, clean |-> texts[j].clean, crashes |-> texts[j].crashes,
         prompt |-> IF j = 1 THEN 1 ELSE 0]]

\* mutant: a finished call keeps its semaphore slot
InFlightBug == {i \in DOMAIN calls : calls[i].st # "queued"}

InFlight == {i \in DOMAIN calls : calls[i].st = "sent"}

Gathered == \A i \in DOMAIN calls : calls[i].st = "done"

Received ==
    LET all[i \in 0..Len(calls)] == IF i = 0 THEN <<>> ELSE all[i - 1] \o calls[i].got
    IN  all[Len(calls)]

Booked(pop) ==
    LET prompt[i \in 0..Len(pop)] == IF i = 0 THEN 0 ELSE prompt[i - 1] + pop[i].prompt
    IN  [prompt |-> usage.prompt + prompt[Len(pop)], requests |-> usage.requests + Len(pop)]

Awaiting == phase \in {"expand", "topup", "aggregate", "final"}

\* `async with semaphore`; the shared and the final call are alone anyway
Send(i) ==
    /\ Awaiting
    /\ calls[i].st = "queued"
    /\ Cardinality(InFlight) < p.max_concurrency
    /\ calls' = [calls EXCEPT ![i].st = "sent", ![i].sends = 1]
    /\ UNCHANGED <<phase, p, population, rounds, usage, answered, reply>>

Reply(i) ==
    /\ calls[i].st = "sent"
    /\ \E texts \in [1..calls[i].want -> Rollouts] :
          calls' = [calls EXCEPT ![i].st = "done", ![i].got = Candidates(texts)]
    /\ answered' = answered + 1
    /\ UNCHANGED <<phase, p, population, rounds, usage, reply>>

GiveUp(i) == calls' = [calls EXCEPT ![i].st = "done"]

\* mutant: a clamped call is clamped again on the next 400
BadRequestBug(i) ==
    /\ calls[i].st = "sent"
    /\ calls' = [calls EXCEPT ![i].limit = "server", ![i].sends = @ + 1]
    /\ UNCHANGED <<phase, p, population, rounds, usage, answered, reply>>

\* 400: once more without max_tokens (clamped), so that the server sets the limit
BadRequest(i) ==
    /\ calls[i].st = "sent"
    /\ IF calls[i].limit = "server"
         THEN GiveUp(i)
         ELSE calls' = [calls EXCEPT ![i].limit = "server", ![i].sends = @ + 1]
    /\ UNCHANGED <<phase, p, population, rounds, usage, answered, reply>>

\* connection lost or timed out
TransportError(i) ==
    /\ calls[i].st = "sent"
    /\ IF calls[i].attempt < p.max_retries
         THEN calls' = [calls EXCEPT ![i].attempt = @ + 1, ![i].sends = @ + 1]
         ELSE GiveUp(i)
    /\ UNCHANGED <<phase, p, population, rounds, usage, answered, reply>>

StatusError(i) ==
    /\ calls[i].st = "sent"
    /\ GiveUp(i)
    /\ UNCHANGED <<phase, p, population, rounds, usage, answered, reply>>

-----------------------------------------------------------------------------
(* run_rsa *)

Init ==
    /\ phase = "new"
    /\ p = Defaults
    /\ calls = <<>>
    /\ population = <<>>
    /\ rounds = 0
    /\ usage = [prompt |-> 0, requests |-> 0]
    /\ answered = 0
    /\ reply = Pending

Answer(status) ==
    /\ phase' = "done"
    /\ reply' = [status |-> status]
    /\ UNCHANGED <<calls, population, rounds, usage, answered>>

NMin == IF p.n_min > 0 /\ p.n_min < p.n THEN p.n_min ELSE 0

Receive(r) ==
    /\ phase = "new"
    /\ \/ PassThrough(r) /\ Answer("forwarded") /\ p' = p
       \/ ~PassThrough(r) /\ ~ValidParams(Merged(r)) /\ Answer("rejected") /\ p' = p
       \/ /\ ~PassThrough(r) /\ ValidParams(Merged(r)) /\ ~Merged(r).enabled
          /\ Answer("forwarded") /\ p' = p
       \/ /\ ~PassThrough(r) /\ ValidParams(Merged(r)) /\ Merged(r).enabled
          /\ p' = Merged(r)
          /\ phase' = "expand"
          /\ calls' = Batch(p'.expand_with_n, IF NMin' > 0 THEN NMin' ELSE p'.n)
          /\ UNCHANGED <<population, rounds, usage, answered, reply>>

\* mutant: one failed call fails its round
RoundFailsBug ==
    /\ phase \in {"expand", "topup", "aggregate"}
    /\ Gathered /\ \E i \in DOMAIN calls : calls[i].got = <<>>
    /\ Answer("error") /\ p' = p

\* every call of the gather failed: RSAError, 502
RoundFails ==
    /\ phase \in {"expand", "topup", "aggregate"}
    /\ Gathered /\ Received = <<>>
    /\ Answer("error") /\ p' = p

\* mutant: the top-up asks for N more
TopUpBug ==
    /\ phase = "expand"
    /\ Gathered /\ Received # <<>>
    /\ NMin > 0 /\ ~HasConsensus(Received)
    /\ phase' = "topup"
    /\ population' = Received
    /\ usage' = Booked(Received)
    /\ calls' = Batch(p.expand_with_n, p.n)
    /\ UNCHANGED <<p, rounds, answered, reply>>

TopUp ==
    /\ phase = "expand"
    /\ Gathered /\ Received # <<>>
    /\ NMin > 0 /\ ~HasConsensus(Received)
    /\ phase' = "topup"
    /\ population' = Received
    /\ usage' = Booked(Received)
    /\ calls' = Batch(p.expand_with_n, p.n - NMin)
    /\ UNCHANGED <<p, rounds, answered, reply>>

CloseRound ==
    /\ phase \in {"expand", "topup", "aggregate"}
    /\ Gathered /\ Received # <<>>
    /\ phase = "expand" => NMin = 0 \/ HasConsensus(Received)
    /\ population' = IF phase = "topup" THEN population \o Received ELSE Received
    /\ usage' = Booked(Received)
    /\ rounds' = rounds + 1
    /\ calls' = <<>>
    /\ phase' = "closed"
    /\ UNCHANGED <<p, answered, reply>>

\* mutant: one round too many
StoppingBug == rounds > p.t \/ ConsensusMet(population)

Stopping == rounds >= p.t \/ ConsensusMet(population)

\* every prompt shows candidates of Pool(population); which of them is left open
Aggregate ==
    /\ phase = "closed" /\ ~Stopping
    /\ calls' = Batch(p.aggregate = "shared", p.n)
    /\ phase' = "aggregate"
    /\ UNCHANGED <<p, population, rounds, usage, answered, reply>>

Result(method, answer, clean) ==
    [status |-> "ok", method |-> method, answer |-> answer, clean |-> clean,
     early |-> rounds < p.t]

Conclude(result) ==
    /\ phase' = "done"
    /\ reply' = result
    /\ UNCHANGED <<p, population, rounds, answered>>

WantVote(pool) ==
    \/ p.selection = "majority"
    \/ p.selection = "auto" /\ Cardinality(Voters(pool)) >= 2

\* mutant: the first holder of the winning answer, cut off or not
VotedBug(pool) == pool[First({i \in DOMAIN pool : pool[i].answer = Vote(pool)})]

Voted(pool) ==
    LET winner   == Vote(pool)
        matching == {i \in DOMAIN pool : pool[i].answer = winner}
        finished == {i \in matching : pool[i].clean}
    IN  pool[First(IF finished # {} THEN finished ELSE matching)]

SelectVote ==
    /\ phase = "closed" /\ Stopping
    /\ WantVote(Pool(population)) /\ Voters(Pool(population)) # {}
    /\ LET c == Voted(Pool(population))
       IN  Conclude(Result("majority_vote", c.answer, c.clean))
    /\ UNCHANGED <<usage, calls>>

SelectSample ==
    /\ phase = "closed" /\ Stopping
    /\ \/ p.selection = "sample"
       \/ p.selection = "majority" /\ Voters(Pool(population)) = {}
    /\ \E i \in DOMAIN Pool(population) :
          LET c == Pool(population)[i] IN Conclude(Result("sample", c.answer, c.clean))
    /\ UNCHANGED <<usage, calls>>

AskFinal ==
    /\ phase = "closed" /\ Stopping
    /\ p.selection \in {"auto", "final_agg"} /\ ~WantVote(Pool(population))
    /\ calls' = Batch(FALSE, 1)
    /\ phase' = "final"
    /\ UNCHANGED <<p, population, rounds, usage, answered, reply>>

FinalAnswer ==
    /\ phase = "final" /\ Gathered /\ Received # <<>>
    /\ usage' = Booked(Received)
    /\ Conclude(Result("final_aggregation", Received[1].answer, Received[1].clean))
    /\ UNCHANGED calls

FinalFallback ==
    /\ phase = "final" /\ Gathered /\ Received = <<>>
    /\ \E i \in DOMAIN Pool(population) :
          LET c == Pool(population)[i] IN Conclude(Result("sample", c.answer, c.clean))
    /\ UNCHANGED <<usage, calls>>

-----------------------------------------------------------------------------

BackendStep(i) == Reply(i) \/ BadRequest(i) \/ TransportError(i) \/ StatusError(i)

Done == phase = "done" /\ UNCHANGED vars

Proceed ==
    \/ RoundFails
    \/ TopUp
    \/ CloseRound
    \/ Aggregate
    \/ SelectVote
    \/ SelectSample
    \/ AskFinal
    \/ FinalAnswer
    \/ FinalFallback

Next ==
    \/ \E r \in Requests : Receive(r)
    \/ \E i \in DOMAIN calls : Send(i) \/ BackendStep(i)
    \/ Proceed
    \/ Done

Spec == Init /\ [][Next]_vars

\* The event loop runs what is ready, and a call ends by its answer or by the
\* client's request timeout.
FairSpec ==
    /\ Spec
    /\ WF_vars(Proceed)
    /\ WF_vars(\E i \in DOMAIN calls : Send(i))
    /\ WF_vars(\E i \in DOMAIN calls : BackendStep(i))

-----------------------------------------------------------------------------
(* Properties *)

Replied(status) == phase = "done" /\ reply.status = status

\* Type invariant: calls, population and reply have the shapes run_rsa gives them.
TypeOK ==
    /\ phase \in {"new", "expand", "topup", "aggregate", "closed", "final", "done"}
    /\ \A i \in DOMAIN calls :
          /\ calls[i].st \in {"queued", "sent", "done"}
          /\ calls[i].attempt \in 0..p.max_retries
          /\ Len(calls[i].got) \in {0, calls[i].want}
    /\ rounds \in 0..p.t
    /\ answered \in Nat
    /\ reply.status \in {"none", "forwarded", "rejected", "error", "ok"}

\* However 400s and lost connections mix, one rollout is sent at most max_retries
\* times again plus once clamped (complete, complete_n).
RetriesBounded == \A i \in DOMAIN calls : calls[i].sends <= p.max_retries + 2

\* The usage of a completion counts the prompt of every backend call that was
\* answered exactly once, shared prefills and top-ups included (rsa/README.md:
\* "usage summed across every backend call").
UsageIsTrue == Replied("ok") => usage.prompt = answered

\* Adaptive expansion, failures and the selection call never make a request cost
\* more candidates than N in each of T rounds and one selection, and a population
\* never grows past N.
SpendBounded == usage.requests <= p.n * p.t + 1 /\ Len(population) <= p.n

\* A 502 means that no call of the awaited gather gave a candidate, and never
\* comes once the last round is in: a failed selection call falls back.
ErrorMeansRoundLost ==
    Replied("error") => rounds < p.t /\ \A i \in DOMAIN calls : calls[i].got = <<>>

\* Rounds are saved only where the request allows it and enough of the last
\* population's extractable answers agree (README: no "majority of one").
EarlyIsConsensus ==
    Replied("ok") /\ reply.early =>
        /\ p.early_stop
        /\ Cardinality(Voters(population)) >= p.consensus_min_votes
        /\ \E i \in Voters(population) :
              100 * Votes(population, population[i].answer)
                 >= p.consensus_threshold * Cardinality(Voters(population))

\* What a vote returns is held by as many candidates of the verified pool as any
\* other answer, is cut off only if all its holders are, and is provably broken
\* only if the verifier would have left fewer than K.
WinnerStands ==
    Replied("ok") /\ reply.method = "majority_vote" =>
        LET pool    == Pool(population)
            holders == {i \in DOMAIN pool : pool[i].answer = reply.answer}
            sound   == {i \in DOMAIN population : ~Broken(population[i])}
        IN  /\ reply.answer \notin {NoBox, EmptyBox}
            /\ \A i \in Voters(pool) : Votes(pool, pool[i].answer) <= Cardinality(holders)
            /\ ~reply.clean => \A i \in holders : ~pool[i].clean
            /\ \/ \E i \in holders : ~Broken(pool[i])
               \/ Cardinality(sound) < AtMost(p.k, Len(population))

\* A request that is being aggregated is answered, whatever its calls do.
EventuallyReplied == (phase # "new") ~> (phase = "done")

\* extract.py:94: consensus uses "the same vote and normalization as majority_vote
\* (so consensus and final selection agree)".  Does not hold, see README: the
\* consensus is of the population, the vote is on its verified pool.
ConsensusIsSelected ==
    Replied("ok") /\ reply.early /\ reply.method = "majority_vote" =>
        reply.answer = Vote(population)

=============================================================================
