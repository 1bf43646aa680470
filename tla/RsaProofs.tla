------------------------------ MODULE RsaProofs ------------------------------
(***************************************************************************)
(* Proofs about RsaRound, for every population size, number of rounds,     *)
(* retry budget and mode: the calls keep their shape, retries are bounded  *)
(* however failures mix, usage counts every answered prompt once, a        *)
(* request costs no more than it may, a 502 means a lost round, a vote     *)
(* returns an answer nobody beats, and rounds are saved by consensus only. *)
(*                                                                         *)
(* First what the model's recursive functions compute (Received, Booked,   *)
(* Unbroken), then the vote, then the invariant and its preservation by    *)
(* every action.                                                           *)
(***************************************************************************)
EXTENDS RsaRound, DataLemmas

Candidate ==
    {[answer |-> r.answer, clean |-> r.clean, crashes |-> r.crashes, prompt |-> q] :
        r \in Rollouts, q \in {0, 1}}

\* What the awaited calls have given, call by call.
Gathering(cs) ==
    CHOOSE all : all = [i \in 0..Len(cs) |-> IF i = 0 THEN <<>> ELSE all[i - 1] \o cs[i].got]

\* The prompts booked on the first candidates of a population.
Prompts(pop) ==
    CHOOSE f : f = [i \in 0..Len(pop) |-> IF i = 0 THEN 0 ELSE f[i - 1] + pop[i].prompt]

\* Received and Booked are the last values of these functions.
LEMMA ReceivedIs == Received = Gathering(calls)[Len(calls)]
BY DEF Received, Gathering

\* Booking a population adds its prompts and its size.
LEMMA BookedIs ==
    ASSUME NEW pop
    PROVE  Booked(pop) = [prompt |-> usage.prompt + Prompts(pop)[Len(pop)],
                          requests |-> usage.requests + Len(pop)]
BY DEF Booked, Prompts

\* Gathering is defined: it appends one call's candidates after the other.
LEMMA GatheringSteps ==
    ASSUME NEW T, NEW cs, Len(cs) \in Nat, \A i \in 1..Len(cs) : cs[i].got \in Seq(T)
    PROVE  /\ Gathering(cs) \in [0..Len(cs) -> Seq(T)]
           /\ Gathering(cs)[0] = <<>>
           /\ \A i \in 1..Len(cs) : Gathering(cs)[i] = Gathering(cs)[i - 1] \o cs[i].got
<1> DEFINE n == Len(cs)
           step == [i \in 1..n |-> [v \in Seq(T) |-> v \o cs[i].got]]
<1>1. step \in [1..n -> [Seq(T) -> Seq(T)]]
  <2>1. ASSUME NEW i \in 1..n, NEW v \in Seq(T) PROVE v \o cs[i].got \in Seq(T)
    <3>1. cs[i].got \in Seq(T)
      OBVIOUS
    <3> QED
      BY <3>1, ConcatProperties
  <2> QED
    BY <2>1
<1>2. PICK g : IsRun(g, n, Seq(T), <<>>, step)
  <2>1. <<>> \in Seq(T) /\ n \in Nat
    OBVIOUS
  <2> HIDE DEF step, n
  <2> QED
    BY <1>1, <2>1, Recursion
<1>3. g \in [0..n -> Seq(T)] /\ g[0] = <<>>
  BY <1>2 DEF IsRun
<1>4. \A i \in 1..n : g[i] = g[i - 1] \o cs[i].got
  <2> SUFFICES ASSUME NEW i \in 1..n PROVE g[i] = g[i - 1] \o cs[i].got
    OBVIOUS
  <2>1. i - 1 \in 0..n
    OBVIOUS
  <2>2. g[i] = step[i][g[i - 1]] /\ g[i - 1] \in Seq(T)
    <3> HIDE DEF step, n
    <3> QED
      BY <1>2, <2>1 DEF IsRun
  <2>3. step[i] = [v \in Seq(T) |-> v \o cs[i].got]
    OBVIOUS
  <2> HIDE DEF step
  <2> QED
    BY <2>2, <2>3
<1> HIDE DEF step
<1>5. g = [i \in 0..n |-> IF i = 0 THEN <<>> ELSE g[i - 1] \o cs[i].got]
  <2>1. g = [i \in 0..n |-> g[i]]
    BY <1>3
  <2>2. \A i \in 0..n : g[i] = IF i = 0 THEN <<>> ELSE g[i - 1] \o cs[i].got
    <3> SUFFICES ASSUME NEW i \in 0..n PROVE g[i] = IF i = 0 THEN <<>> ELSE g[i - 1] \o cs[i].got
      OBVIOUS
    <3>1. CASE i = 0
      BY <1>3, <3>1
    <3>2. CASE i # 0
      <4>1. i \in 1..n
        BY <3>2
      <4>2. g[i] = g[i - 1] \o cs[i].got
        BY <1>4, <4>1
      <4> QED
        BY <3>2, <4>2
    <3> QED
      BY <3>1, <3>2
  <2> QED
    BY <2>1, <2>2
<1>6. Gathering(cs) = [i \in 0..n |-> IF i = 0 THEN <<>> ELSE Gathering(cs)[i - 1] \o cs[i].got]
  BY <1>5 DEF Gathering
<1>7. Gathering(cs) = g
  <2> DEFINE F == Gathering(cs)
  <2>1. F = [i \in 0..n |-> F[i]] /\ F[0] = <<>>
    BY <1>6
  <2>2. ASSUME NEW i \in 1..n, F[i - 1] \in Seq(T) PROVE F[i] = step[i][F[i - 1]]
    <3>1. F[i] = F[i - 1] \o cs[i].got
      BY <1>6
    <3> HIDE DEF F
    <3> QED
      BY <2>2, <3>1 DEF step
  <2> HIDE DEF F
  <2>3. Follows(F, n, Seq(T), <<>>, step)
    BY <2>1, <2>2 DEF Follows
  <2>4. F = g
    BY <1>2, <2>3, RunUnique
  <2> QED
    BY <2>4 DEF F
<1> QED
  BY <1>3, <1>4, <1>7

\* Prompts is defined: the partial sums of what is booked on the candidates.
LEMMA PromptsSteps ==
    ASSUME NEW pop, Len(pop) \in Nat, \A i \in 1..Len(pop) : pop[i].prompt \in Int
    PROVE  /\ Prompts(pop) \in [0..Len(pop) -> Int]
           /\ Prompts(pop)[0] = 0
           /\ \A i \in 1..Len(pop) : Prompts(pop)[i] = Prompts(pop)[i - 1] + pop[i].prompt
<1> DEFINE n == Len(pop)
           f == [i \in 1..n |-> pop[i].prompt]
           s == Sums(f, n)
           body(g) == [i \in 0..n |-> IF i = 0 THEN 0 ELSE g[i - 1] + pop[i].prompt]
<1>1. f \in [1..n -> Int]
  OBVIOUS
<1>2. \A g : body(g) = [i \in 0..n |-> IF i = 0 THEN 0 ELSE g[i - 1] + f[i]]
  <2> SUFFICES ASSUME NEW g, NEW i \in 0..n, i # 0
               PROVE  pop[i].prompt = f[i]
    OBVIOUS
  <2> QED
    OBVIOUS
<1>3. Prompts(pop) = s
  <2> HIDE DEF f
  <2> QED
    BY <1>2 DEF Prompts, Sums
<1>4. /\ s \in [0..n -> Int] /\ s[0] = 0
      /\ \A i \in 1..n : s[i] = s[i - 1] + f[i]
  <2> HIDE DEF f
  <2> QED
    BY <1>1, SumsExist
<1>5. \A i \in 1..n : s[i] = s[i - 1] + pop[i].prompt
  BY <1>4
<1> HIDE DEF s
<1> QED
  BY <1>3, <1>4, <1>5

\* The prompts of a whole population.
Prompt(pop) == Prompts(pop)[Len(pop)]

\* The candidates of one answer: the prompt is booked on the first.
OneAnswer(got) ==
    /\ got \in Seq(Candidate) /\ got # <<>>
    /\ got[1].prompt = 1
    /\ \A j \in 2..Len(got) : got[j].prompt = 0

\* Candidates carry whole prompts, and an answer is a sequence of candidates.
LEMMA CandidateTypes ==
    /\ \A c \in Candidate : c.prompt \in Int
    /\ \A got : got = <<>> \/ OneAnswer(got) => got \in Seq(Candidate)
<1>1. ASSUME NEW c \in Candidate PROVE c.prompt \in Int
  BY DEF Candidate
<1>2. ASSUME NEW got, got = <<>> PROVE got \in Seq(Candidate)
  BY <1>2
<1>3. ASSUME NEW got, OneAnswer(got) PROVE got \in Seq(Candidate)
  BY <1>3 DEF OneAnswer
<1> QED
  BY <1>1, <1>2, <1>3

\* So the prompts of a population of candidates are defined.
LEMMA CandidateSteps ==
    ASSUME NEW pop \in Seq(Candidate)
    PROVE  /\ Len(pop) \in Nat
           /\ Prompts(pop) \in [0..Len(pop) -> Int]
           /\ Prompts(pop)[0] = 0
           /\ \A i \in 1..Len(pop) : Prompts(pop)[i] = Prompts(pop)[i - 1] + pop[i].prompt
<1>1. Len(pop) \in Nat /\ \A i \in 1..Len(pop) : pop[i] \in Candidate
  OBVIOUS
<1>2. \A i \in 1..Len(pop) : pop[i].prompt \in Int
  BY <1>1 DEF Candidate
<1> QED
  BY <1>1, <1>2, PromptsSteps

\* Prompts of two populations laid end to end add up.
LEMMA PromptsConcat ==
    ASSUME NEW s \in Seq(Candidate), NEW t \in Seq(Candidate)
    PROVE  Prompt(s \o t) = Prompt(s) + Prompt(t)
<1> DEFINE u == s \o t  a == Len(s)  b == Len(t)
           A == {k \in 0..a : Prompts(u)[k] = Prompts(s)[k]}
           B == {k \in 0..b : Prompts(u)[a + k] = Prompts(s)[a] + Prompts(t)[k]}
<1>1. /\ u \in Seq(Candidate) /\ a \in Nat /\ b \in Nat /\ Len(u) = a + b
      /\ \A i \in 1..a : u[i] = s[i]
      /\ \A i \in 1..b : u[a + i] = t[i]
  OBVIOUS
<1>2. /\ Prompts(u) \in [0..a + b -> Int] /\ Prompts(u)[0] = 0
      /\ \A i \in 1..a + b : Prompts(u)[i] = Prompts(u)[i - 1] + u[i].prompt
  <2> HIDE DEF u, a, b
  <2> QED
    BY <1>1, CandidateSteps
<1>3. /\ Prompts(s) \in [0..a -> Int] /\ Prompts(s)[0] = 0
      /\ \A i \in 1..a : Prompts(s)[i] = Prompts(s)[i - 1] + s[i].prompt
  BY CandidateSteps
<1>4. /\ Prompts(t) \in [0..b -> Int] /\ Prompts(t)[0] = 0
      /\ \A i \in 1..b : Prompts(t)[i] = Prompts(t)[i - 1] + t[i].prompt
  BY CandidateSteps
<1> HIDE DEF u, a, b
<1>5. a \in A
  <2>1. 0 \in A
    BY <1>1, <1>2, <1>3
  <2>2. \A k \in 0..a - 1 : k \in A => k + 1 \in A
    <3> SUFFICES ASSUME NEW k \in 0..a - 1, k \in A PROVE k + 1 \in A
      OBVIOUS
    <3>1. k + 1 \in 1..a /\ k + 1 \in 1..a + b /\ (k + 1) - 1 = k
      BY <1>1
    <3>2. Prompts(u)[k + 1] = Prompts(u)[k] + u[k + 1].prompt
      BY <1>2, <3>1
    <3>3. Prompts(s)[k + 1] = Prompts(s)[k] + s[k + 1].prompt
      BY <1>3, <3>1
    <3> QED
      BY <1>1, <3>1, <3>2, <3>3
  <2>3. 0..a \subseteq A
    <3> HIDE DEF A
    <3> QED
      BY <1>1, <2>1, <2>2, Reach
  <2> QED
    BY <1>1, <2>3
<1>6. b \in B
  <2>1. 0 \in B
    BY <1>1, <1>3, <1>4, <1>5
  <2>2. \A k \in 0..b - 1 : k \in B => k + 1 \in B
    <3> SUFFICES ASSUME NEW k \in 0..b - 1, k \in B PROVE k + 1 \in B
      OBVIOUS
    <3>1. /\ k + 1 \in 1..b /\ a + (k + 1) \in 1..a + b /\ (k + 1) - 1 = k
          /\ (a + (k + 1)) - 1 = a + k
      BY <1>1
    <3>2. Prompts(u)[a + (k + 1)] = Prompts(u)[a + k] + u[a + (k + 1)].prompt
      BY <1>2, <3>1
    <3>3. Prompts(t)[k + 1] = Prompts(t)[k] + t[k + 1].prompt
      BY <1>4, <3>1
    <3>4. u[a + (k + 1)] = t[k + 1] /\ t[k + 1].prompt \in Int
      <4>1. t[k + 1] \in Candidate
        BY <3>1 DEF b
      <4>2. t[k + 1].prompt \in Int
        BY <4>1, CandidateTypes
      <4>3. u[a + (k + 1)] = t[k + 1]
        BY <1>1, <3>1
      <4> QED
        BY <4>2, <4>3
    <3>5. Prompts(s)[a] \in Int /\ Prompts(t)[k] \in Int
      BY <1>1, <1>3, <1>4
    <3> QED
      BY <3>1, <3>2, <3>3, <3>4, <3>5
  <2>3. 0..b \subseteq B
    <3> HIDE DEF B
    <3> QED
      BY <1>1, <2>1, <2>2, Reach
  <2> QED
    BY <1>1, <2>3
<1>7. Prompts(u)[a + b] = Prompts(s)[a] + Prompts(t)[b]
  BY <1>6
<1> QED
  BY <1>1, <1>7 DEF Prompt, u, a, b

\* One answer books one prompt.
LEMMA PromptOfAnswer ==
    ASSUME NEW got, OneAnswer(got)
    PROVE  Prompt(got) = 1
<1> DEFINE n == Len(got) - 1
           R == {k \in 0..n : Prompts(got)[k + 1] = 1}
<1>1. n \in Nat /\ 1 \in 1..Len(got)
  <2>1. got \in Seq(Candidate) /\ got # <<>>
    BY DEF OneAnswer
  <2> QED
    BY <2>1
<1>2. /\ Prompts(got)[0] = 0
      /\ \A i \in 1..Len(got) : Prompts(got)[i] = Prompts(got)[i - 1] + got[i].prompt
  BY CandidateSteps DEF OneAnswer
<1>3. 0 \in R
  BY <1>1, <1>2 DEF OneAnswer
<1>4. \A k \in 0..n - 1 : k \in R => k + 1 \in R
  <2> SUFFICES ASSUME NEW k \in 0..n - 1, k \in R PROVE k + 1 \in R
    OBVIOUS
  <2>1. (k + 1) + 1 \in 2..Len(got) /\ (k + 1) + 1 \in 1..Len(got) /\ ((k + 1) + 1) - 1 = k + 1
    BY <1>1
  <2>2. Prompts(got)[(k + 1) + 1] = Prompts(got)[k + 1] + got[(k + 1) + 1].prompt
    BY <1>2, <2>1
  <2>3. got[(k + 1) + 1].prompt = 0
    BY <2>1 DEF OneAnswer
  <2> QED
    BY <2>1, <2>2, <2>3
<1>5. n \in R
  <2> HIDE DEF R
  <2>1. 0..n \subseteq R
    BY <1>1, <1>3, <1>4, Reach
  <2> QED
    BY <1>1, <2>1
<1> QED
  BY <1>1, <1>5 DEF Prompt

\* A round books one prompt for each of its calls that was answered.
LEMMA PromptOfRound ==
    ASSUME NEW cs, Len(cs) \in Nat, \A i \in 1..Len(cs) : cs[i].got = <<>> \/ OneAnswer(cs[i].got)
    PROVE  /\ Gathering(cs)[Len(cs)] \in Seq(Candidate)
           /\ Prompt(Gathering(cs)[Len(cs)]) = Cardinality({i \in 1..Len(cs) : cs[i].got # <<>>})
<1> DEFINE n == Len(cs)
           g == Gathering(cs)
           Upto(k) == {i \in 1..k : cs[i].got # <<>>}
           R == {k \in 0..n : Prompt(g[k]) = Cardinality(Upto(k))}
<1>1. \A i \in 1..n : cs[i].got \in Seq(Candidate)
  BY CandidateTypes
<1>2. /\ g \in [0..n -> Seq(Candidate)] /\ g[0] = <<>>
      /\ \A i \in 1..n : g[i] = g[i - 1] \o cs[i].got
  BY <1>1, GatheringSteps
<1>3. Prompt(<<>>) = 0
  <2>1. <<>> \in Seq(Candidate) /\ Len(<<>>) = 0
    OBVIOUS
  <2>2. Prompts(<<>>)[0] = 0
    BY <2>1, CandidateSteps
  <2> QED
    BY <2>1, <2>2 DEF Prompt
<1>4. 0 \in R
  <2>1. Upto(0) = {}
    OBVIOUS
  <2> HIDE DEF Upto
  <2> QED
    BY <1>2, <1>3, <2>1, FS_EmptySet
<1> HIDE DEF g
<1>5. \A k \in 0..n - 1 : k \in R => k + 1 \in R
  <2> SUFFICES ASSUME NEW k \in 0..n - 1, k \in R PROVE k + 1 \in R
    OBVIOUS
  <2> DEFINE c == cs[k + 1]
  <2>1. k + 1 \in 1..n /\ (k + 1) - 1 = k /\ k \in 0..n
    OBVIOUS
  <2>2. g[k + 1] = g[k] \o c.got /\ g[k] \in Seq(Candidate) /\ c.got \in Seq(Candidate)
    BY <1>1, <1>2, <2>1
  <2>3. IsFiniteSet(Upto(k)) /\ k + 1 \notin Upto(k) /\ Cardinality(Upto(k)) \in Nat
    <3>1. Upto(k) \in SUBSET (1..k) /\ k \in Nat
      OBVIOUS
    <3>2. k + 1 \notin Upto(k)
      OBVIOUS
    <3> HIDE DEF Upto
    <3> QED
      BY <3>1, <3>2, Indices
  <2>4. CASE c.got = <<>>
    <3>1. Upto(k + 1) = Upto(k)
      BY <2>1, <2>4
    <3>2. g[k + 1] = g[k]
      BY <2>2, <2>4, ConcatEmptySeq
    <3> HIDE DEF Upto
    <3> QED
      BY <2>1, <3>1, <3>2
  <2>5. CASE c.got # <<>>
    <3>1. Upto(k + 1) = Upto(k) \cup {k + 1}
      BY <2>1, <2>5
    <3>2. OneAnswer(c.got)
      BY <2>1, <2>5
    <3>3. Prompt(g[k + 1]) = Prompt(g[k]) + 1
      BY <2>2, <3>2, PromptsConcat, PromptOfAnswer
    <3>4. Cardinality(Upto(k + 1)) = Cardinality(Upto(k)) + 1
      <4> HIDE DEF Upto
      <4> QED
        BY <2>3, <3>1, FS_AddElement
    <3> HIDE DEF Upto
    <3> QED
      BY <2>1, <3>3, <3>4
  <2> QED
    BY <2>4, <2>5
<1>6. n \in R
  <2> HIDE DEF R
  <2>1. 0..n \subseteq R
    BY <1>4, <1>5, Reach
  <2> QED
    BY <2>1
<1> QED
  BY <1>2, <1>6 DEF g

\* Nothing is received when, and only when, no call gave anything.
LEMMA NothingReceived ==
    ASSUME NEW T, NEW cs, Len(cs) \in Nat, \A i \in 1..Len(cs) : cs[i].got \in Seq(T),
           Gathering(cs)[Len(cs)] = <<>>
    PROVE  \A i \in 1..Len(cs) : cs[i].got = <<>>
<1> DEFINE n == Len(cs)
           g == Gathering(cs)
           R == {k \in 0..n : g[k] = <<>> => \A i \in 1..k : cs[i].got = <<>>}
<1>1. /\ g \in [0..n -> Seq(T)] /\ g[0] = <<>>
      /\ \A i \in 1..n : g[i] = g[i - 1] \o cs[i].got
  BY GatheringSteps
<1> HIDE DEF g
<1>2. 0 \in R
  OBVIOUS
<1>3. \A k \in 0..n - 1 : k \in R => k + 1 \in R
  <2> SUFFICES ASSUME NEW k \in 0..n - 1, k \in R, g[k + 1] = <<>>
               PROVE  \A i \in 1..k + 1 : cs[i].got = <<>>
    OBVIOUS
  <2>1. k + 1 \in 1..n /\ (k + 1) - 1 = k
    OBVIOUS
  <2>2. g[k + 1] = g[k] \o cs[k + 1].got /\ g[k] \in Seq(T) /\ cs[k + 1].got \in Seq(T)
    BY <1>1, <2>1
  <2>3. g[k] = <<>> /\ cs[k + 1].got = <<>>
    <3>1. \A x, y \in Seq(T) : x \o y = <<>> => x = <<>> /\ y = <<>>
      BY ConcatEqualIffEmpty
    <3> QED
      BY <2>2, <3>1
  <2>4. ASSUME NEW i \in 1..k + 1 PROVE cs[i].got = <<>>
    <3>1. i \in 1..k \/ i = k + 1
      OBVIOUS
    <3> QED
      BY <2>3, <3>1
  <2> QED
    BY <2>4
<1>4. n \in R
  <2> HIDE DEF R
  <2>1. 0..n \subseteq R
    BY <1>2, <1>3, Reach
  <2> QED
    BY <2>1
<1> QED
  BY <1>4 DEF g

\* A batch for m candidates gives at most m.
LEMMA ReceivedLength ==
    ASSUME NEW T, NEW cs, Len(cs) \in Nat, NEW m \in Nat,
           \A i \in 1..Len(cs) : /\ cs[i].got \in Seq(T)
                                 /\ Len(cs[i].got) \in {0, cs[i].want},
           \/ Len(cs) = 1 /\ cs[1].want = m
           \/ Len(cs) = m /\ \A i \in 1..Len(cs) : cs[i].want = 1
    PROVE  Len(Gathering(cs)[Len(cs)]) <= m
<1> DEFINE n == Len(cs)
           g == Gathering(cs)
<1>1. /\ g \in [0..n -> Seq(T)] /\ g[0] = <<>>
      /\ \A i \in 1..n : g[i] = g[i - 1] \o cs[i].got
  BY GatheringSteps
<1> HIDE DEF g
<1>2. CASE n = 1 /\ cs[1].want = m
  <2>1. g[1] = <<>> \o cs[1].got /\ cs[1].got \in Seq(T)
    <3>1. 1 \in 1..n /\ 1 - 1 = 0
      BY <1>2
    <3>2. g[1] = g[1 - 1] \o cs[1].got
      BY <1>1, <3>1
    <3> QED
      BY <1>1, <3>1, <3>2
  <2>2. g[1] = cs[1].got
    BY <2>1, ConcatEmptySeq
  <2> QED
    BY <1>2, <2>2 DEF g
<1>3. CASE n = m /\ \A i \in 1..n : cs[i].want = 1
  <2> DEFINE R == {k \in 0..n : Len(g[k]) <= k}
  <2>1. 0 \in R
    BY <1>1
  <2>2. \A k \in 0..n - 1 : k \in R => k + 1 \in R
    <3> SUFFICES ASSUME NEW k \in 0..n - 1, k \in R PROVE k + 1 \in R
      OBVIOUS
    <3>1. k + 1 \in 1..n /\ (k + 1) - 1 = k
      OBVIOUS
    <3>2. g[k + 1] = g[k] \o cs[k + 1].got /\ g[k] \in Seq(T) /\ cs[k + 1].got \in Seq(T)
      BY <1>1, <3>1
    <3>3. Len(g[k + 1]) = Len(g[k]) + Len(cs[k + 1].got) /\ Len(g[k]) \in Nat
      BY <3>2, ConcatProperties
    <3>4. Len(cs[k + 1].got) \in {0, 1}
      BY <1>3, <3>1
    <3>5. Len(g[k]) <= k /\ k \in Nat
      OBVIOUS
    <3>6. Len(g[k + 1]) <= k + 1
      <4>1. \A x, y, z \in Nat : y <= x /\ z <= 1 => y + z <= x + 1
        OBVIOUS
      <4>2. Len(cs[k + 1].got) \in Nat /\ Len(cs[k + 1].got) <= 1
        BY <3>4
      <4> QED
        BY <3>3, <3>5, <4>1, <4>2
    <3> QED
      BY <3>1, <3>6
  <2>3. n \in R
    <3> HIDE DEF R
    <3>1. 0..n \subseteq R
      BY <2>1, <2>2, Reach
    <3> QED
      BY <3>1
  <2> QED
    BY <1>3, <2>3 DEF g
<1> QED
  BY <1>2, <1>3

-----------------------------------------------------------------------------
\* First is the least index of a set that has one.
LEMMA FirstIs ==
    ASSUME NEW n \in Nat, NEW S \in SUBSET (1..n), S # {}
    PROVE  First(S) \in S /\ \A j \in S : First(S) <= j
<1>1. S \in SUBSET (0..n)
  OBVIOUS
<1>2. \E m \in S : \A k \in S : m <= k
  BY <1>1, LeastOf
<1> QED
  BY <1>2 DEF First

\* How often an answer is given is a number up to the size of the pool.
LEMMA VotesBound ==
    ASSUME NEW pool, Len(pool) \in Nat, DOMAIN pool = 1..Len(pool), NEW a
    PROVE  Votes(pool, a) \in 0..Len(pool)
<1> DEFINE H == {i \in DOMAIN pool : pool[i].answer = a}
<1>2. H \in SUBSET (1..Len(pool))
  OBVIOUS
<1>3. Cardinality(H) \in Nat /\ Cardinality(H) <= Len(pool)
  <2> HIDE DEF H
  <2> QED
    BY <1>2, Indices
<1> QED
  BY <1>3 DEF Votes

\* Where someone votes, the winner has a holder who votes, and no voter's answer is
\* given more often.
LEMMA VoteIsTop ==
    ASSUME NEW pool, Len(pool) \in Nat, DOMAIN pool = 1..Len(pool), Voters(pool) # {}
    PROVE  \E w \in Voters(pool) :
              /\ Vote(pool) = pool[w].answer
              /\ \A j \in Voters(pool) : Votes(pool, pool[j].answer) <= Votes(pool, pool[w].answer)
<1> DEFINE n == Len(pool)
           V == {Votes(pool, pool[i].answer) : i \in Voters(pool)}
           top == {i \in Voters(pool) :
                     \A j \in Voters(pool) : Votes(pool, pool[i].answer) >= Votes(pool, pool[j].answer)}
<1>1. V \in SUBSET (0..n) /\ V # {}
  BY VotesBound
<1>2. PICK m \in V : \A k \in V : k <= m
  <2> HIDE DEF V
  <2> QED
    BY <1>1, GreatestOf
<1>3. top # {}
  <2>1. PICK i \in Voters(pool) : m = Votes(pool, pool[i].answer)
    BY <1>2
  <2>2. ASSUME NEW j \in Voters(pool)
        PROVE  Votes(pool, pool[i].answer) >= Votes(pool, pool[j].answer)
    <3>1. Votes(pool, pool[j].answer) \in V
      OBVIOUS
    <3>2. m \in 0..n /\ Votes(pool, pool[j].answer) \in 0..n
      BY <1>1, <3>1
    <3>3. Votes(pool, pool[j].answer) <= m
      BY <1>2, <3>1
    <3> HIDE DEF V
    <3> QED
      BY <2>1, <3>2, <3>3
  <2> QED
    BY <2>2
<1>4. First(top) \in top
  <2>1. top \in SUBSET (1..n)
    BY DEF Voters
  <2> HIDE DEF top
  <2> QED
    BY <1>3, <2>1, FirstIs
<1>5. Vote(pool) = pool[First(top)].answer
  BY <1>3 DEF Vote
<1>6. /\ First(top) \in Voters(pool)
      /\ \A j \in Voters(pool) :
            Votes(pool, pool[j].answer) <= Votes(pool, pool[First(top)].answer)
  <2> DEFINE f == First(top)
  <2>1. f \in Voters(pool)
    BY <1>4
  <2>2. ASSUME NEW j \in Voters(pool)
        PROVE  Votes(pool, pool[j].answer) <= Votes(pool, pool[f].answer)
    <3>1. Votes(pool, pool[f].answer) >= Votes(pool, pool[j].answer)
      BY <1>4
    <3>2. Votes(pool, pool[f].answer) \in 0..n /\ Votes(pool, pool[j].answer) \in 0..n
      BY VotesBound
    <3> HIDE DEF f
    <3> QED
      BY <3>1, <3>2
  <2> QED
    BY <2>1, <2>2
<1> QED
  BY <1>5, <1>6

\* The candidate a vote selects holds the winning answer, and is cut off only if all
\* holders are.
LEMMA VotedIs ==
    ASSUME NEW pool, Len(pool) \in Nat, DOMAIN pool = 1..Len(pool), Voters(pool) # {}
    PROVE  \E v \in DOMAIN pool :
              /\ Voted(pool) = pool[v] /\ pool[v].answer = Vote(pool)
              /\ ~pool[v].clean => \A i \in DOMAIN pool : pool[i].answer = Vote(pool) => ~pool[i].clean
<1> DEFINE matching == {i \in DOMAIN pool : pool[i].answer = Vote(pool)}
           finished == {i \in matching : pool[i].clean}
           chosen == IF finished # {} THEN finished ELSE matching
<1>1. matching # {}
  BY VoteIsTop DEF Voters
<1>2. chosen \in SUBSET (1..Len(pool)) /\ chosen # {}
  BY <1>1
<1>3. First(chosen) \in chosen
  <2> HIDE DEF chosen
  <2> QED
    BY <1>2, FirstIs
<1>4. Voted(pool) = pool[First(chosen)]
  BY DEF Voted
<1>5. First(chosen) \in matching
  BY <1>3
<1>6. ~pool[First(chosen)].clean => \A i \in matching : ~pool[i].clean
  BY <1>3
<1> HIDE DEF chosen
<1> QED
  BY <1>4, <1>5, <1>6

-----------------------------------------------------------------------------
\* What filter_pool keeps of a population, candidate by candidate.
Kept(pop) ==
    CHOOSE kept : kept =
        [i \in 0..Len(pop) |->
            IF i = 0 THEN <<>>
            ELSE IF Broken(pop[i]) THEN kept[i - 1] ELSE Append(kept[i - 1], pop[i])]

\* Unbroken is the last value of the recursion that keeps the sound candidates.
LEMMA UnbrokenIs ==
    ASSUME NEW pop
    PROVE  Unbroken(pop) = Kept(pop)[Len(pop)]
BY DEF Unbroken, Kept

\* That recursion is defined: it appends a candidate unless it is broken.
LEMMA KeptSteps ==
    ASSUME NEW T, NEW pop \in Seq(T)
    PROVE  /\ Kept(pop) \in [0..Len(pop) -> Seq(T)]
           /\ Kept(pop)[0] = <<>>
           /\ \A i \in 1..Len(pop) :
                Kept(pop)[i] = IF Broken(pop[i]) THEN Kept(pop)[i - 1]
                               ELSE Append(Kept(pop)[i - 1], pop[i])
<1> DEFINE n == Len(pop)
           next(v, i) == IF Broken(pop[i]) THEN v ELSE Append(v, pop[i])
           step == [i \in 1..n |-> [v \in Seq(T) |-> next(v, i)]]
           F == Kept(pop)
<1>0. n \in Nat /\ \A i \in 1..n : pop[i] \in T
  OBVIOUS
<1> HIDE DEF n
<1>1. step \in [1..n -> [Seq(T) -> Seq(T)]]
  <2>1. ASSUME NEW i \in 1..n, NEW v \in Seq(T) PROVE next(v, i) \in Seq(T)
    BY <1>0, AppendProperties
  <2> HIDE DEF next
  <2> QED
    BY <2>1
<1>2. PICK g : IsRun(g, n, Seq(T), <<>>, step)
  <2>1. <<>> \in Seq(T)
    OBVIOUS
  <2> HIDE DEF step
  <2> QED
    BY <1>0, <1>1, <2>1, Recursion
<1>3. \A i \in 1..n, v \in Seq(T) : step[i][v] = next(v, i)
  <2> HIDE DEF next
  <2> QED
    OBVIOUS
<1> HIDE DEF step, next
<1>4. g \in [0..n -> Seq(T)] /\ g[0] = <<>> /\ \A i \in 1..n : g[i] = next(g[i - 1], i)
  <2>1. ASSUME NEW i \in 1..n PROVE g[i] = next(g[i - 1], i)
    <3>1. i - 1 \in 0..n
      BY <1>0
    <3> QED
      BY <1>2, <1>3, <3>1 DEF IsRun
  <2> QED
    BY <1>2, <2>1 DEF IsRun
<1>5. g = [i \in 0..n |-> IF i = 0 THEN <<>> ELSE next(g[i - 1], i)]
  <2>1. g = [i \in 0..n |-> g[i]]
    BY <1>4
  <2>2. ASSUME NEW i \in 0..n PROVE g[i] = IF i = 0 THEN <<>> ELSE next(g[i - 1], i)
    <3>1. CASE i = 0
      BY <1>4, <3>1
    <3>2. CASE i # 0
      <4>1. i \in 1..n
        BY <3>2
      <4> QED
        BY <1>4, <3>2, <4>1
    <3> QED
      BY <3>1, <3>2
  <2> QED
    BY <2>1, <2>2
<1>6. F = [i \in 0..n |-> IF i = 0 THEN <<>> ELSE next(F[i - 1], i)]
  BY <1>5 DEF Kept, next, n
<1>7. F = g
  <2>1. F = [i \in 0..n |-> F[i]] /\ F[0] = <<>>
    BY <1>0, <1>6
  <2>2. ASSUME NEW i \in 1..n, F[i - 1] \in Seq(T) PROVE F[i] = step[i][F[i - 1]]
    <3>1. F[i] = next(F[i - 1], i)
      BY <1>0, <1>6
    <3> HIDE DEF F
    <3> QED
      BY <1>3, <2>2, <3>1
  <2> HIDE DEF F
  <2>3. Follows(F, n, Seq(T), <<>>, step)
    BY <2>1, <2>2 DEF Follows
  <2> QED
    BY <1>0, <1>2, <2>3, RunUnique
<1> QED
  BY <1>4, <1>7 DEF next, n

\* The verifier keeps the candidates that are not broken, all of them.
LEMMA UnbrokenHas ==
    ASSUME NEW T, NEW pop \in Seq(T)
    PROVE  /\ Unbroken(pop) \in Seq(T)
           /\ \A j \in DOMAIN Unbroken(pop) : ~Broken(Unbroken(pop)[j])
           /\ Len(Unbroken(pop)) = Cardinality({i \in DOMAIN pop : ~Broken(pop[i])})
<1> DEFINE n == Len(pop)
           K == Kept(pop)
           Upto(k) == {i \in 1..k : ~Broken(pop[i])}
           Good(k) == /\ \A j \in 1..Len(K[k]) : ~Broken(K[k][j])
                      /\ Len(K[k]) = Cardinality(Upto(k))
           R == {k \in 0..n : Good(k)}
<1>0. n \in Nat /\ DOMAIN pop = 1..n /\ \A i \in 1..n : pop[i] \in T
  OBVIOUS
<1>1. /\ K \in [0..n -> Seq(T)] /\ K[0] = <<>>
      /\ \A i \in 1..n : K[i] = IF Broken(pop[i]) THEN K[i - 1] ELSE Append(K[i - 1], pop[i])
  BY KeptSteps
<1> HIDE DEF K, n
<1>2. 0 \in R
  <2>1. Upto(0) = {}
    OBVIOUS
  <2>2. Good(0)
    <3>1. Len(K[0]) = 0 /\ 1..0 = {}
      BY <1>1
    <3>2. Cardinality(Upto(0)) = 0
      BY <2>1, FS_EmptySet
    <3> HIDE DEF Upto
    <3> QED
      BY <3>1, <3>2
  <2> QED
    BY <1>0, <2>2
<1>3. \A k \in 0..n - 1 : k \in R => k + 1 \in R
  <2> SUFFICES ASSUME NEW k \in 0..n - 1, k \in R PROVE k + 1 \in R
    OBVIOUS
  <2>1. k + 1 \in 1..n /\ (k + 1) - 1 = k /\ k \in 0..n /\ k + 1 \in 0..n /\ k \in Nat
    BY <1>0
  <2>2. K[k] \in Seq(T) /\ pop[k + 1] \in T /\ Good(k)
    BY <1>0, <1>1, <2>1
  <2>3. K[k + 1] = IF Broken(pop[k + 1]) THEN K[k] ELSE Append(K[k], pop[k + 1])
    BY <1>1, <2>1
  <2>4. IsFiniteSet(Upto(k)) /\ k + 1 \notin Upto(k) /\ Cardinality(Upto(k)) \in Nat
    <3>1. Upto(k) \in SUBSET (1..k)
      BY <2>1
    <3>2. k + 1 \notin Upto(k)
      BY <2>1
    <3> HIDE DEF Upto
    <3> QED
      BY <2>1, <3>1, <3>2, Indices
  <2>5. CASE Broken(pop[k + 1])
    <3>1. Upto(k + 1) = Upto(k)
      BY <2>1, <2>5
    <3>2. K[k + 1] = K[k]
      BY <2>3, <2>5
    <3>3. Good(k + 1)
      <4> HIDE DEF Upto
      <4> QED
        BY <2>2, <3>1, <3>2
    <3> QED
      BY <2>1, <3>3
  <2>6. CASE ~Broken(pop[k + 1])
    <3>1. Upto(k + 1) = Upto(k) \cup {k + 1}
      BY <2>1, <2>6
    <3>2. K[k + 1] = Append(K[k], pop[k + 1])
      BY <2>3, <2>6
    <3>3. /\ Len(K[k + 1]) = Len(K[k]) + 1
          /\ \A j \in 1..Len(K[k]) : K[k + 1][j] = K[k][j]
          /\ K[k + 1][Len(K[k]) + 1] = pop[k + 1]
          /\ Len(K[k]) \in Nat
      <4> DEFINE s == K[k]
                 e == pop[k + 1]
                 r == K[k + 1]
      <4>1. s \in Seq(T) /\ e \in T /\ r = Append(s, e)
        BY <2>2, <3>2
      <4> HIDE DEF s, e, r
      <4>2. /\ Len(r) = Len(s) + 1
            /\ \A j \in 1..Len(s) : r[j] = s[j]
            /\ r[Len(s) + 1] = e
            /\ Len(s) \in Nat
        BY <4>1, AppendProperties
      <4> QED
        BY <4>2 DEF s, e, r
    <3>4. Cardinality(Upto(k + 1)) = Cardinality(Upto(k)) + 1
      <4> HIDE DEF Upto
      <4> QED
        BY <2>4, <3>1, FS_AddElement
    <3>5. ASSUME NEW j \in 1..Len(K[k + 1]) PROVE ~Broken(K[k + 1][j])
      <4>1. j \in 1..Len(K[k]) \/ j = Len(K[k]) + 1
        BY <3>3
      <4> QED
        BY <2>2, <2>6, <3>3, <4>1
    <3>6. Good(k + 1)
      <4> HIDE DEF Upto
      <4> QED
        BY <2>2, <3>3, <3>4, <3>5
    <3> QED
      BY <2>1, <3>6
  <2> QED
    BY <2>5, <2>6
<1>4. Good(n)
  <2> HIDE DEF R
  <2>1. 0..n \subseteq R
    BY <1>0, <1>2, <1>3, Reach
  <2>2. n \in R
    BY <1>0, <2>1
  <2> QED
    BY <2>2 DEF R
<1>5. Unbroken(pop) = K[n] /\ K[n] \in Seq(T)
  BY <1>0, <1>1, UnbrokenIs DEF K, n
<1>6. DOMAIN K[n] = 1..Len(K[n])
  BY <1>5
<1> QED
  BY <1>0, <1>4, <1>5, <1>6

-----------------------------------------------------------------------------
Call ==
    [want : Nat, st : {"queued", "sent", "done"}, attempt : Nat, limit : {"max_tokens", "server"},
     sends : Nat, got : Seq(Candidate)]

\* A call as NewCall makes it and the handlers change it.
IsCall(c, budget) ==
    /\ c \in Call
    /\ c.want >= 1
    /\ c.attempt <= budget
    /\ c.st = "queued" => c.sends = 0 /\ c.attempt = 0 /\ c.limit = "max_tokens"
    /\ c.sends <= 1 + c.attempt + (IF c.limit = "server" THEN 1 ELSE 0)
    /\ Len(c.got) \in {0, c.want}
    /\ c.got # <<>> => c.st = "done" /\ OneAnswer(c.got)

\* The calls of one gather ask for m candidates together.
Asks(cs, m) ==
    \/ Len(cs) = 1 /\ cs[1].want = m
    \/ Len(cs) = m /\ \A i \in 1..Len(cs) : cs[i].want = 1

AnsweredCalls == {i \in 1..Len(calls) : calls[i].got # <<>>}

\* Where run_rsa stands and how many rounds are closed.
RoundsInv ==
    /\ rounds \in Nat
    /\ phase \in {"new", "expand", "topup"} => rounds = 0
    /\ phase = "aggregate" => rounds < p.t
    /\ rounds <= p.t
    /\ phase \in {"new", "expand", "topup", "aggregate", "closed", "final", "done"}
    /\ reply.status \in {"none", "forwarded", "rejected", "error", "ok"}
    /\ answered \in Nat
    /\ p.n \in Int /\ p.n >= 1 /\ p.t \in Int /\ p.t >= 1 /\ p.n_min \in Int
    /\ p.max_retries \in Nat /\ p.expand_with_n \in BOOLEAN

\* Once selection has begun the rounds have stopped for a reason.
StopInv ==
    /\ phase = "final" => Stopping
    /\ reply.status = "ok" => /\ Stopping
                              /\ reply.early => rounds < p.t
                              /\ phase = "done"
    /\ phase # "done" => reply = Pending

CallsInv == calls \in Seq(Call) /\ \A i \in 1..Len(calls) : IsCall(calls[i], p.max_retries)

\* What the awaited gather was asked for, and what the population may hold.
BatchInv ==
    /\ phase = "expand" => Asks(calls, IF NMin > 0 THEN NMin ELSE p.n)
    /\ phase = "topup" => NMin > 0 /\ Asks(calls, p.n - NMin) /\ Len(population) <= NMin
    /\ phase = "aggregate" => Asks(calls, p.n)
    /\ phase = "final" => Asks(calls, 1)
    /\ phase \in {"new", "closed"} => calls = <<>>
    /\ phase = "done" => \A i \in 1..Len(calls) : calls[i].st = "done"
    /\ phase = "new" => population = <<>>
    /\ population \in Seq(Candidate) /\ Len(population) <= p.n

\* The books: every answered call is in usage or in the awaited gather.
BookInv ==
    /\ usage.prompt \in Int /\ usage.requests \in Nat
    /\ phase # "done" => usage.prompt + Cardinality(AnsweredCalls) = answered
    /\ UsageIsTrue
    /\ phase # "done" =>
         usage.requests <= p.n * rounds + (IF phase = "topup" THEN NMin ELSE 0)
    /\ usage.requests <= p.n * p.t + 1

ReplyInv == ErrorMeansRoundLost /\ WinnerStands

IInv == RoundsInv /\ CallsInv /\ StopInv /\ BatchInv /\ BookInv /\ ReplyInv

-----------------------------------------------------------------------------
\* A batch of new calls is one of calls, nothing of it received, and asks for n.
LEMMA NewBatch ==
    ASSUME NEW n \in Nat, n >= 1, NEW m \in Nat, NEW shared \in BOOLEAN
    PROVE  /\ Batch(shared, n) \in Seq(Call)
           /\ \A i \in 1..Len(Batch(shared, n)) :
                 IsCall(Batch(shared, n)[i], m) /\ Batch(shared, n)[i].got = <<>>
           /\ Asks(Batch(shared, n), n)
<1>1. ASSUME NEW w \in Nat, w >= 1
      PROVE  /\ NewCall(w) \in Call /\ IsCall(NewCall(w), m)
             /\ NewCall(w).got = <<>> /\ NewCall(w).want = w
  BY <1>1 DEF IsCall, NewCall, Call
<1>. HIDE DEF NewCall
<1>2. CASE shared
  <2>1. Batch(shared, n) = <<NewCall(n)>>
    BY <1>2 DEF Batch
  <2>2. NewCall(n) \in Call /\ IsCall(NewCall(n), m)
        /\ NewCall(n).got = <<>> /\ NewCall(n).want = n
    BY <1>1
  <2>3. 1..Len(<<NewCall(n)>>) = {1} /\ <<NewCall(n)>>[1] = NewCall(n) /\ <<NewCall(n)>> \in Seq(Call)
        /\ Len(<<NewCall(n)>>) = 1
    BY <2>2
  <2>. QED BY <2>1, <2>2, <2>3 DEF Asks
<1>3. CASE ~shared
  <2>1. Batch(shared, n) = [i \in 1..n |-> NewCall(1)]
    BY <1>3 DEF Batch
  <2>2. NewCall(1) \in Call /\ IsCall(NewCall(1), m)
        /\ NewCall(1).got = <<>> /\ NewCall(1).want = 1
    BY <1>1
  <2>. DEFINE b == [i \in 1..n |-> NewCall(1)]
  <2>3. b \in Seq(Call) /\ Len(b) = n /\ \A i \in 1..n : b[i] = NewCall(1)
    BY <2>2
  <2>. HIDE DEF b
  <2>. QED BY <2>1, <2>2, <2>3 DEF Asks, b
<1>. QED BY <1>2, <1>3

\* A batch that is started keeps the shape of calls, and nothing is received yet.
LEMMA BatchStarts ==
    ASSUME NEW n \in Nat, n >= 1, NEW shared \in BOOLEAN, p'.max_retries \in Nat,
           calls' = Batch(shared, n)
    PROVE  CallsInv' /\ Asks(calls, n)' /\ AnsweredCalls' = {}
<1>. DEFINE b == Batch(shared, n)
<1>1. /\ b \in Seq(Call) /\ Asks(b, n)
      /\ \A i \in 1..Len(b) : IsCall(b[i], p'.max_retries) /\ b[i].got = <<>>
  BY NewBatch
<1>2. calls' = b
  OBVIOUS
<1>. HIDE DEF b
<1>. QED BY <1>1, <1>2 DEF CallsInv, AnsweredCalls, Asks

\* A call that is sent again, clamped or retried, is still a call.
LEMMA CallIsSentAgain ==
    ASSUME NEW budget \in Nat, NEW c, IsCall(c, budget), c.st = "sent"
    PROVE  /\ LET d == [c EXCEPT !.limit = "server", !.sends = @ + 1]
              IN  /\ d.want = c.want /\ d.got = c.got
                  /\ c.limit = "max_tokens" => IsCall(d, budget)
           /\ LET d == [c EXCEPT !.attempt = @ + 1, !.sends = @ + 1]
              IN  /\ d.want = c.want /\ d.got = c.got
                  /\ c.attempt < budget => IsCall(d, budget)
<1>1. c \in Call /\ c.sends \in Nat /\ c.attempt \in Nat
  BY DEF IsCall, Call
<1>2. c.sends + 1 \in Nat /\ c.attempt + 1 \in Nat
  BY <1>1
<1>. DEFINE clamped == [c EXCEPT !.limit = "server", !.sends = @ + 1]
            retried == [c EXCEPT !.attempt = @ + 1, !.sends = @ + 1]
<1>3. /\ clamped \in Call
      /\ clamped.want = c.want /\ clamped.got = c.got /\ clamped.st = c.st
      /\ clamped.attempt = c.attempt /\ clamped.limit = "server" /\ clamped.sends = c.sends + 1
  BY <1>1, <1>2 DEF Call
<1>4. /\ retried \in Call
      /\ retried.want = c.want /\ retried.got = c.got /\ retried.st = c.st
      /\ retried.attempt = c.attempt + 1 /\ retried.limit = c.limit /\ retried.sends = c.sends + 1
  BY <1>1, <1>2 DEF Call
<1>. HIDE DEF clamped, retried
<1>5. c.limit = "max_tokens" => IsCall(clamped, budget)
  BY <1>1, <1>3 DEF IsCall
<1>6. c.attempt < budget => IsCall(retried, budget)
  BY <1>1, <1>4 DEF IsCall
<1>. QED BY <1>3, <1>4, <1>5, <1>6 DEF clamped, retried

\* What Send and the four ends of a call leave of it: it was not done, it asks for
\* what it asked, and it gains candidates only by being answered.
LEMMA StepEffect ==
    ASSUME RoundsInv, CallsInv, NEW i \in 1..Len(calls), Send(i) \/ BackendStep(i)
    PROVE  /\ UNCHANGED <<phase, p, population, rounds, usage, reply>>
           /\ calls[i].st # "done"
           /\ \E d : /\ calls' = [calls EXCEPT ![i] = d]
                     /\ IsCall(d, p.max_retries) /\ d.want = calls[i].want
                     /\ calls[i].got = <<>>
                     /\ \/ d.got = <<>> /\ answered' = answered
                        \/ d.got # <<>> /\ answered' = answered + 1
<1>. DEFINE c == calls[i]
            Goal == /\ UNCHANGED <<phase, p, population, rounds, usage, reply>>
                    /\ c.st # "done"
                    /\ \E d : /\ calls' = [calls EXCEPT ![i] = d]
                              /\ IsCall(d, p.max_retries) /\ d.want = c.want
                              /\ c.got = <<>>
                              /\ \/ d.got = <<>> /\ answered' = answered
                                 \/ d.got # <<>> /\ answered' = answered + 1
<1>1. IsCall(c, p.max_retries) /\ c \in Call /\ p.max_retries \in Nat
  BY DEF CallsInv, IsCall, RoundsInv
<1>2. c.st # "done" => c.got = <<>>
  BY <1>1 DEF IsCall
<1>3. CASE Send(i)
  <2>. DEFINE d == [c EXCEPT !.st = "sent", !.sends = 1]
  <2>1. calls' = [calls EXCEPT ![i] = d]
    BY <1>3 DEF Send
  <2>2. IsCall(d, p.max_retries) /\ d.want = c.want /\ d.got = c.got
    BY <1>1, <1>3 DEF Send, IsCall, Call
  <2>3. c.st = "queued" /\ UNCHANGED <<phase, p, population, rounds, usage, answered, reply>>
    BY <1>3 DEF Send
  <2>. QED BY <1>2, <2>1, <2>2, <2>3
<1>4. ASSUME GiveUp(i), c.st = "sent",
             UNCHANGED <<phase, p, population, rounds, usage, answered, reply>>
      PROVE  Goal
  <2>. DEFINE d == [c EXCEPT !.st = "done"]
  <2>1. calls' = [calls EXCEPT ![i] = d]
    BY <1>4 DEF GiveUp
  <2>2. IsCall(d, p.max_retries) /\ d.want = c.want /\ d.got = c.got
    BY <1>1, <1>4 DEF IsCall, Call
  <2>. QED BY <1>2, <1>4, <2>1, <2>2
<1>5. CASE Reply(i)
  <2>1. PICK texts \in [1..c.want -> Rollouts] :
            calls' = [calls EXCEPT ![i].st = "done", ![i].got = Candidates(texts)]
    BY <1>5 DEF Reply
  <2>. DEFINE d == [c EXCEPT !.st = "done", !.got = Candidates(texts)]
  <2>2. calls' = [calls EXCEPT ![i] = d]
    BY <2>1
  <2>3. Candidates(texts) \in Seq(Candidate) /\ Len(Candidates(texts)) = c.want
        /\ OneAnswer(Candidates(texts))
    <3>1. c.want \in Nat /\ c.want >= 1 /\ DOMAIN texts = 1..c.want
      BY <1>1 DEF IsCall, Call
    <3>2. Candidates(texts) \in [1..c.want -> Candidate]
      BY <3>1 DEF Candidates, Candidate
    <3>3. Candidates(texts) \in Seq(Candidate) /\ Len(Candidates(texts)) = c.want
      BY <3>1, <3>2
    <3>4. \A j \in 1..c.want : Candidates(texts)[j].prompt = IF j = 1 THEN 1 ELSE 0
      BY <3>1 DEF Candidates
    <3>5. Candidates(texts) # <<>>
      BY <3>1, <3>3
    <3>. HIDE DEF Candidates
    <3>. QED BY <3>1, <3>3, <3>4, <3>5 DEF OneAnswer
  <2>4. c.st = "sent" /\ UNCHANGED <<phase, p, population, rounds, usage, reply>>
        /\ answered' = answered + 1
    BY <1>5 DEF Reply
  <2>. HIDE DEF Candidates
  <2>5. IsCall(d, p.max_retries) /\ d.want = c.want /\ d.got = Candidates(texts)
    BY <1>1, <2>3, <2>4 DEF IsCall, Call
  <2>6. d.got # <<>>
    BY <2>3, <2>5 DEF OneAnswer
  <2>. QED BY <1>2, <2>2, <2>4, <2>5, <2>6
<1>6. CASE BadRequest(i)
  <2>0. c.st = "sent" /\ UNCHANGED <<phase, p, population, rounds, usage, answered, reply>>
    BY <1>6 DEF BadRequest
  <2>. DEFINE d == [c EXCEPT !.limit = "server", !.sends = @ + 1]
  <2>1. CASE c.limit = "max_tokens"
    <3>1. calls' = [calls EXCEPT ![i] = d]
      BY <1>6, <2>1 DEF BadRequest
    <3>2. IsCall(d, p.max_retries) /\ d.want = c.want /\ d.got = c.got
      BY <1>1, <2>0, <2>1, CallIsSentAgain
    <3>. QED BY <1>2, <2>0, <3>1, <3>2
  <2>2. CASE c.limit = "server"
    BY <1>4, <1>6, <2>0, <2>2 DEF BadRequest
  <2>. QED BY <1>1, <2>1, <2>2 DEF Call
<1>7. CASE TransportError(i)
  <2>0. c.st = "sent" /\ UNCHANGED <<phase, p, population, rounds, usage, answered, reply>>
    BY <1>7 DEF TransportError
  <2>. DEFINE d == [c EXCEPT !.attempt = @ + 1, !.sends = @ + 1]
  <2>1. CASE c.attempt < p.max_retries
    <3>1. calls' = [calls EXCEPT ![i] = d]
      BY <1>7, <2>1 DEF TransportError
    <3>2. IsCall(d, p.max_retries) /\ d.want = c.want /\ d.got = c.got
      BY <1>1, <2>0, <2>1, CallIsSentAgain
    <3>. QED BY <1>2, <2>0, <3>1, <3>2
  <2>. QED BY <1>4, <1>7, <2>0, <2>1 DEF TransportError
<1>8. CASE StatusError(i)
  BY <1>4, <1>8 DEF StatusError
<1>. QED BY <1>3, <1>5, <1>6, <1>7, <1>8 DEF BackendStep

\* So the calls stay calls, and the gather asks for what it asked for.
LEMMA StepKeepsCalls ==
    ASSUME RoundsInv, CallsInv, NEW i \in 1..Len(calls), Send(i) \/ BackendStep(i)
    PROVE  /\ CallsInv'
           /\ Len(calls') = Len(calls)
           /\ \A j \in 1..Len(calls) : calls'[j].want = calls[j].want
           /\ Cardinality(AnsweredCalls') - answered' = Cardinality(AnsweredCalls) - answered
<1>1. PICK d : /\ calls' = [calls EXCEPT ![i] = d]
               /\ IsCall(d, p.max_retries) /\ d.want = calls[i].want
               /\ calls[i].got = <<>>
               /\ \/ d.got = <<>> /\ answered' = answered
                  \/ d.got # <<>> /\ answered' = answered + 1
  BY StepEffect
<1>2. p' = p
  BY StepEffect
<1>3. d \in Call /\ calls \in Seq(Call)
  BY <1>1 DEF IsCall, CallsInv
<1>4. /\ calls' \in Seq(Call) /\ Len(calls') = Len(calls) /\ Len(calls) \in Nat
      /\ \A j \in 1..Len(calls) : calls'[j] = IF j = i THEN d ELSE calls[j]
  BY <1>1, <1>3
<1>5. CallsInv'
  BY <1>1, <1>2, <1>4 DEF CallsInv
<1>6. \A j \in 1..Len(calls) : calls'[j].want = calls[j].want
  BY <1>1, <1>4
<1>7. /\ IsFiniteSet(AnsweredCalls) /\ Cardinality(AnsweredCalls) \in Nat
      /\ i \notin AnsweredCalls
  <2>1. AnsweredCalls \in SUBSET (1..Len(calls)) /\ i \notin AnsweredCalls
    BY <1>1 DEF AnsweredCalls
  <2>. QED BY <1>4, <2>1, Indices
<1>8. CASE d.got = <<>> /\ answered' = answered
  <2>1. AnsweredCalls' = AnsweredCalls
    BY <1>1, <1>4, <1>8 DEF AnsweredCalls
  <2>. QED BY <1>4, <1>5, <1>6, <1>8, <2>1
<1>9. CASE d.got # <<>> /\ answered' = answered + 1
  <2>1. AnsweredCalls' = AnsweredCalls \cup {i}
    BY <1>1, <1>4, <1>9 DEF AnsweredCalls
  <2>2. Cardinality(AnsweredCalls') = Cardinality(AnsweredCalls) + 1
    BY <1>7, <2>1, FS_AddElement
  <2>3. answered \in Nat
    BY DEF RoundsInv
  <2>. QED BY <1>4, <1>5, <1>6, <1>7, <1>9, <2>2, <2>3
<1>. QED BY <1>1, <1>8, <1>9

\* What the awaited calls have given, and what booking it does.
LEMMA GatherFacts ==
    ASSUME CallsInv
    PROVE  /\ Received \in Seq(Candidate)
           /\ Booked(Received) = [prompt |-> usage.prompt + Cardinality(AnsweredCalls),
                                  requests |-> usage.requests + Len(Received)]
           /\ Received = <<>> => \A i \in 1..Len(calls) : calls[i].got = <<>>
           /\ \A m \in Nat : Asks(calls, m) => Len(Received) <= m
<1>. DEFINE n == Len(calls)
            g == Gathering(calls)
<1>1. /\ n \in Nat
      /\ \A i \in 1..n : /\ calls[i].got \in Seq(Candidate)
                         /\ Len(calls[i].got) \in {0, calls[i].want}
                         /\ calls[i].got = <<>> \/ OneAnswer(calls[i].got)
  BY DEF CallsInv, IsCall, Call
<1>2. Received = g[n]
  BY ReceivedIs
<1>3. g[n] \in Seq(Candidate)
  <2>1. g \in [0..n -> Seq(Candidate)]
    BY <1>1, GatheringSteps
  <2>. HIDE DEF g
  <2>. QED BY <1>1, <2>1
<1>4. Prompt(Received) = Cardinality(AnsweredCalls)
  <2>1. Prompt(g[n]) = Cardinality({i \in 1..n : calls[i].got # <<>>})
    BY <1>1, PromptOfRound
  <2>. QED BY <1>2, <2>1 DEF AnsweredCalls
<1>5. Received = <<>> => \A i \in 1..n : calls[i].got = <<>>
  BY <1>1, <1>2, NothingReceived
<1>6. ASSUME NEW m \in Nat, Asks(calls, m) PROVE Len(Received) <= m
  BY <1>1, <1>2, <1>6, ReceivedLength DEF Asks
<1>7. Booked(Received) = [prompt |-> usage.prompt + Cardinality(AnsweredCalls),
                          requests |-> usage.requests + Len(Received)]
  BY <1>4, BookedIs DEF Prompt
<1>. QED BY <1>2, <1>3, <1>5, <1>6, <1>7

\* After the last reply nothing moves.
LEMMA DoneIsLast ==
    ASSUME RoundsInv, CallsInv, BatchInv, phase = "done", [Next]_vars
    PROVE  UNCHANGED vars
<1>1. ASSUME NEW i \in DOMAIN calls, Send(i) \/ BackendStep(i) PROVE FALSE
  <2>1. i \in 1..Len(calls)
    BY <1>1 DEF CallsInv
  <2>2. calls[i].st # "done"
    BY <1>1, <2>1, StepEffect
  <2>. QED BY <2>1, <2>2 DEF BatchInv
<1>2. ASSUME NEW r \in Requests, Receive(r) PROVE FALSE
  BY <1>2 DEF Receive
<1>3. ASSUME Proceed PROVE FALSE
  BY <1>3 DEF Proceed, RoundFails, TopUp, CloseRound, Aggregate, SelectVote, SelectSample,
              AskFinal, FinalAnswer, FinalFallback
<1>. QED BY <1>1, <1>2, <1>3 DEF Next, Done

\* A request starts with no calls, no population and empty books.
LEMMA InitInv == Init => IInv
<1>. SUFFICES ASSUME Init PROVE IInv
  OBVIOUS
<1>1. RoundsInv
  BY ParamsAssumption DEF Init, RoundsInv, ParamsAssumption, ValidParams, Pending
<1>2. CallsInv
  BY DEF Init, CallsInv
<1>3. StopInv
  BY DEF Init, StopInv, Pending
<1>4. BatchInv
  BY <1>1 DEF Init, BatchInv, RoundsInv
<1>5. BookInv
  <2>1. AnsweredCalls = {}
    BY DEF Init, AnsweredCalls
  <2>2. Cardinality(AnsweredCalls) = 0
    BY <2>1, FS_EmptySet
  <2>3. 0 <= p.n * 0 + 0 /\ 0 <= p.n * p.t + 1
    <3>1. \A a, b \in Nat : a * b \in Nat /\ a * 0 = 0
      OBVIOUS
    <3>. QED BY <1>1, <3>1 DEF RoundsInv
  <2>. QED BY <2>2, <2>3 DEF Init, BookInv, UsageIsTrue, Replied
<1>6. ReplyInv
  BY DEF Init, ReplyInv, ErrorMeansRoundLost, WinnerStands, Replied, Pending
<1>. QED BY <1>1, <1>2, <1>3, <1>4, <1>5, <1>6 DEF IInv

\* The parameters a request is merged to are sound ones.
LEMMA MergedParams ==
    ASSUME NEW r \in Requests, ValidParams(Merged(r)), p' = Merged(r)
    PROVE  /\ p'.expand_with_n \in BOOLEAN /\ p'.max_retries \in Nat
           /\ p'.n \in Nat /\ p'.n >= 1 /\ p'.n_min \in Int /\ p'.t \in Nat /\ p'.t >= 1
           /\ (IF NMin' > 0 THEN NMin' ELSE p'.n) \in 1..p'.n
<1>1. /\ p'.expand_with_n \in BOOLEAN /\ p'.max_retries \in Nat
      /\ p'.n \in Nat /\ p'.n >= 1 /\ p'.n_min \in Int /\ p'.t \in Nat /\ p'.t >= 1
  BY ParamsAssumption DEF ParamsAssumption, ValidParams
<1>2. (IF NMin' > 0 THEN NMin' ELSE p'.n) \in 1..p'.n
  BY <1>1 DEF NMin
<1>. QED BY <1>1, <1>2

\* A request starts the expansion, or is answered at once.
LEMMA ReceiveKeeps ==
    ASSUME IInv, NEW r \in Requests, Receive(r)
    PROVE  CallsInv' /\ BatchInv' /\ BookInv' /\ ReplyInv'
<1>0. phase = "new" /\ calls = <<>> /\ population = <<>>
  BY DEF IInv, Receive, BatchInv
<1>1. CASE p' = p /\ (Answer("forwarded") \/ Answer("rejected"))
  <2>1. /\ phase' = "done" /\ reply'.status \in {"forwarded", "rejected"}
        /\ UNCHANGED <<p, calls, population, rounds, usage, answered>>
    BY <1>1 DEF Answer
  <2>2. CallsInv'
    BY <2>1 DEF IInv, CallsInv
  <2>3. BatchInv'
    BY <1>0, <2>1 DEF IInv, BatchInv
  <2>4. BookInv'
    BY <1>0, <2>1 DEF IInv, BookInv, UsageIsTrue, Replied
  <2>5. ReplyInv'
    BY <2>1 DEF ReplyInv, ErrorMeansRoundLost, WinnerStands, Replied
  <2>. QED BY <2>2, <2>3, <2>4, <2>5
<1>2. CASE /\ ValidParams(Merged(r)) /\ p' = Merged(r)
           /\ phase' = "expand"
           /\ calls' = Batch(p'.expand_with_n, IF NMin' > 0 THEN NMin' ELSE p'.n)
           /\ UNCHANGED <<population, rounds, usage, answered, reply>>
  <2>. DEFINE m == IF NMin' > 0 THEN NMin' ELSE p'.n
  <2>1. /\ p'.expand_with_n \in BOOLEAN /\ p'.max_retries \in Nat
        /\ p'.n \in Nat /\ p'.n >= 1 /\ p'.n_min \in Int /\ p'.t \in Nat /\ p'.t >= 1
        /\ m \in 1..p'.n
    BY <1>2, MergedParams
  <2>. HIDE DEF m
  <2>2. PICK q \in Nat : q = m /\ q >= 1
    BY <2>1
  <2>3. calls' = Batch(p'.expand_with_n, q)
    BY <1>2, <2>2 DEF m
  <2>4. CallsInv' /\ Asks(calls, q)' /\ AnsweredCalls' = {}
    BY <2>1, <2>2, <2>3, BatchStarts
  <2>5. BatchInv'
    BY <1>0, <1>2, <2>1, <2>2, <2>4 DEF BatchInv, m
  <2>6. BookInv'
    <3>1. AnsweredCalls = {} /\ usage.prompt = answered
      <4>1. AnsweredCalls = {}
        BY <1>0 DEF AnsweredCalls
      <4>2. Cardinality(AnsweredCalls) = 0
        BY <4>1, FS_EmptySet
      <4>. QED BY <1>0, <4>1, <4>2 DEF IInv, BookInv
    <3>2. rounds = 0 /\ usage.requests = 0
      <4>1. rounds = 0 /\ usage.requests <= p.n * 0 + 0 /\ usage.requests \in Nat /\ p.n \in Nat
        BY <1>0 DEF IInv, BookInv, RoundsInv
      <4>2. \A a \in Nat : a * 0 = 0
        OBVIOUS
      <4>. QED BY <4>1, <4>2
    <3>3. Cardinality(AnsweredCalls') = 0
      BY <2>4, FS_EmptySet
    <3>4. 0 <= p'.n * 0 + 0 /\ 0 <= p'.n * p'.t + 1
      <4>1. \A a, b \in Nat : a * b \in Nat /\ a * 0 = 0
        OBVIOUS
      <4>. QED BY <2>1, <4>1
    <3>. QED BY <1>2, <3>1, <3>2, <3>3, <3>4 DEF IInv, BookInv, UsageIsTrue, Replied
  <2>7. ReplyInv'
    BY <1>2 DEF IInv, StopInv, Pending, ReplyInv, ErrorMeansRoundLost, WinnerStands, Replied
  <2>. QED BY <2>4, <2>5, <2>6, <2>7
<1>. QED BY <1>1, <1>2 DEF Receive

\* A step of a call keeps the batch and its books.
LEMMA CallStepKeeps ==
    ASSUME IInv, NEW i \in DOMAIN calls, Send(i) \/ BackendStep(i)
    PROVE  CallsInv' /\ BatchInv' /\ BookInv' /\ ReplyInv'
<1>1. i \in 1..Len(calls) /\ RoundsInv /\ CallsInv
  BY DEF IInv, CallsInv
<1>2. /\ CallsInv'
      /\ Len(calls') = Len(calls)
      /\ \A j \in 1..Len(calls) : calls'[j].want = calls[j].want
      /\ Cardinality(AnsweredCalls') - answered' = Cardinality(AnsweredCalls) - answered
  BY <1>1, StepKeepsCalls
<1>3. UNCHANGED <<phase, p, population, rounds, usage, reply>> /\ calls[i].st # "done"
  BY <1>1, StepEffect
<1>4. phase \notin {"done", "new", "closed"}
  BY <1>1, <1>3 DEF IInv, BatchInv
<1>5. BatchInv'
  <2>1. \A m : Asks(calls, m) => Asks(calls', m)
    BY <1>1, <1>2 DEF Asks
  <2>2. NMin' = NMin
    BY <1>3 DEF NMin
  <2>. QED BY <1>3, <1>4, <2>1, <2>2 DEF IInv, BatchInv
<1>6. BookInv'
  <2>1. NMin' = NMin
    BY <1>3 DEF NMin
  <2>2. /\ Cardinality(AnsweredCalls) \in Int /\ Cardinality(AnsweredCalls') \in Int
        /\ answered \in Int /\ answered' \in Int
    <3>1. AnsweredCalls \in SUBSET (1..Len(calls)) /\ AnsweredCalls' \in SUBSET (1..Len(calls'))
      BY DEF AnsweredCalls
    <3>2. Len(calls) \in Nat /\ Len(calls') \in Nat
      BY <1>1, <1>2 DEF CallsInv
    <3>3. answered \in Nat /\ answered' \in {answered, answered + 1}
      BY <1>1, StepEffect DEF RoundsInv
    <3>. QED BY <3>1, <3>2, <3>3, Indices
  <2>3. usage.prompt + Cardinality(AnsweredCalls') = answered'
    BY <1>2, <1>4, <2>2 DEF IInv, BookInv
  <2>. QED BY <1>3, <1>4, <2>1, <2>3 DEF IInv, BookInv, UsageIsTrue, Replied
<1>7. ReplyInv'
  BY <1>3, <1>4 DEF ReplyInv, ErrorMeansRoundLost, WinnerStands, Replied
<1>. QED BY <1>2, <1>5, <1>6, <1>7

\* N candidates a round, and rounds up to T: products of naturals grow.
LEMMA Products ==
    /\ \A a, b \in Nat : a * b \in Nat /\ a * 0 = 0 /\ a * (b + 1) = a * b + a
    /\ \A a, b, c \in Nat : b <= c => a * b <= a * c
<1>1. \A a, b \in Nat : a * b \in Nat /\ a * 0 = 0 /\ a * (b + 1) = a * b + a
  OBVIOUS
<1>2. ASSUME NEW a \in Nat, NEW b \in Nat, NEW c \in Nat, b <= c PROVE a * b <= a * c
  <2>1. PICK d \in Nat : c = b + d
    <3>1. c - b \in Nat /\ c = b + (c - b)
      BY <1>2
    <3>. QED BY <3>1
  <2>2. a * (b + d) = a * b + a * d
    OBVIOUS
  <2>3. a * b \in Nat /\ a * d \in Nat
    BY <1>1
  <2>. QED BY <2>1, <2>2, <2>3
<1>. QED BY <1>1, <1>2

\* What a gather gives, in the numbers the books are kept in.
LEMMA RoundGives ==
    ASSUME IInv
    PROVE  /\ Received \in Seq(Candidate) /\ Len(Received) \in Nat
           /\ phase = "expand" => Len(Received) <= IF NMin > 0 THEN NMin ELSE p.n
           /\ phase = "topup" => Len(Received) <= p.n - NMin
           /\ phase = "aggregate" => Len(Received) <= p.n
           /\ phase = "final" => Len(Received) <= 1
           /\ NMin \in Nat /\ NMin < p.n
<1>1. p.n \in Nat /\ p.n >= 1 /\ p.n_min \in Int
  BY DEF IInv, RoundsInv
<1>2. NMin \in Nat /\ NMin < p.n
  BY <1>1 DEF NMin
<1>3. Received \in Seq(Candidate) /\ \A m \in Nat : Asks(calls, m) => Len(Received) <= m
  BY GatherFacts DEF IInv
<1>4. Len(Received) \in Nat
  BY <1>3
<1>. DEFINE e == IF NMin > 0 THEN NMin ELSE p.n
<1>5. e \in Nat /\ p.n - NMin \in Nat
  BY <1>1, <1>2
<1>6. phase = "expand" => Asks(calls, e)
  BY DEF IInv, BatchInv
<1>. HIDE DEF e
<1>7. phase = "expand" => Len(Received) <= e
  BY <1>3, <1>5, <1>6
<1>8. phase = "topup" => Len(Received) <= p.n - NMin
  BY <1>3, <1>5 DEF IInv, BatchInv
<1>9. phase = "aggregate" => Len(Received) <= p.n
  BY <1>1, <1>3 DEF IInv, BatchInv
<1>10. phase = "final" => Len(Received) <= 1
  BY <1>3 DEF IInv, BatchInv
<1>. QED BY <1>2, <1>3, <1>4, <1>7, <1>8, <1>9, <1>10 DEF e

\* A lost round: nothing was received, so no call of the gather gave anything.
LEMMA RoundFailsKeeps ==
    ASSUME IInv, RoundFails
    PROVE  CallsInv' /\ BatchInv' /\ BookInv' /\ ReplyInv'
<1>1. /\ phase' = "done" /\ reply' = [status |-> "error"]
      /\ UNCHANGED <<p, calls, population, rounds, usage, answered>>
      /\ phase \in {"expand", "topup", "aggregate"} /\ Gathered /\ Received = <<>>
  BY DEF RoundFails, Answer
<1>2. CallsInv'
  BY <1>1 DEF IInv, CallsInv
<1>3. BatchInv'
  BY <1>1 DEF IInv, BatchInv, CallsInv, Gathered
<1>4. BookInv'
  BY <1>1 DEF IInv, BookInv, UsageIsTrue, Replied
<1>5. \A i \in DOMAIN calls : calls[i].got = <<>>
  BY <1>1, GatherFacts DEF IInv, CallsInv
<1>6. rounds < p.t
  BY <1>1 DEF IInv, RoundsInv
<1>7. ReplyInv'
  BY <1>1, <1>5, <1>6 DEF ReplyInv, ErrorMeansRoundLost, WinnerStands, Replied
<1>. QED BY <1>2, <1>3, <1>4, <1>7

\* The first candidates are booked, and the rest of the N is asked for.
LEMMA TopUpKeeps ==
    ASSUME IInv, TopUp
    PROVE  CallsInv' /\ BatchInv' /\ BookInv' /\ ReplyInv'
<1>1. /\ phase = "expand" /\ phase' = "topup" /\ NMin > 0
      /\ population' = Received /\ usage' = Booked(Received)
      /\ calls' = Batch(p.expand_with_n, p.n - NMin)
      /\ UNCHANGED <<p, rounds, answered, reply>>
  BY DEF TopUp
<1>2. /\ Received \in Seq(Candidate) /\ Len(Received) \in Nat /\ Len(Received) <= NMin
      /\ NMin \in Nat /\ NMin < p.n
  BY <1>1, RoundGives
<1>3. /\ usage'.prompt = usage.prompt + Cardinality(AnsweredCalls)
      /\ usage'.requests = usage.requests + Len(Received)
  BY <1>1, GatherFacts DEF IInv
<1>4. /\ p.n \in Nat /\ p.expand_with_n \in BOOLEAN /\ p.max_retries \in Nat
      /\ p.t \in Nat /\ p.t >= 1 /\ rounds = 0 /\ answered \in Nat
  BY <1>1 DEF IInv, RoundsInv
<1>5. PICK q \in Nat : q = p.n - NMin /\ q >= 1
  BY <1>2, <1>4
<1>6. CallsInv' /\ Asks(calls, q)' /\ AnsweredCalls' = {}
  BY <1>1, <1>4, <1>5, BatchStarts
<1>7. NMin' = NMin
  BY <1>1 DEF NMin
<1>8. BatchInv'
  BY <1>1, <1>2, <1>4, <1>5, <1>6, <1>7 DEF BatchInv
<1>9. BookInv'
  <2>1. usage.prompt + Cardinality(AnsweredCalls) = answered /\ usage.requests \in Nat
        /\ usage.requests <= p.n * 0 + 0
    BY <1>1, <1>4 DEF IInv, BookInv
  <2>2. Cardinality(AnsweredCalls') = 0
    BY <1>6, FS_EmptySet
  <2>3. usage'.prompt = answered /\ usage'.prompt + Cardinality(AnsweredCalls') = answered'
    BY <1>1, <1>3, <1>4, <2>1, <2>2
  <2>4. usage'.requests <= NMin /\ usage'.requests \in Nat /\ p.n * 0 = 0
    BY <1>2, <1>3, <1>4, <2>1, Products
  <2>5. p.n * p.t >= p.n /\ p.n * p.t \in Nat
    <3>1. p.n * 1 <= p.n * p.t /\ p.n * 1 = p.n * 0 + p.n
      BY <1>4, Products
    <3>. QED BY <1>4, <2>4, <3>1, Products
  <2>6. usage'.requests <= p.n * rounds + NMin /\ usage'.requests <= p.n * p.t + 1
    BY <1>2, <1>4, <2>4, <2>5
  <2>. QED BY <1>1, <1>4, <1>7, <2>3, <2>4, <2>6 DEF BookInv, UsageIsTrue, Replied
<1>10. ReplyInv'
  BY <1>1 DEF ReplyInv, ErrorMeansRoundLost, WinnerStands, Replied
<1>. QED BY <1>6, <1>8, <1>9, <1>10

\* A round is closed with N candidates at most, and booked.
LEMMA CloseRoundKeeps ==
    ASSUME IInv, CloseRound
    PROVE  CallsInv' /\ BatchInv' /\ BookInv' /\ ReplyInv'
<1>1. /\ phase \in {"expand", "topup", "aggregate"} /\ phase' = "closed"
      /\ population' = IF phase = "topup" THEN population \o Received ELSE Received
      /\ usage' = Booked(Received) /\ rounds' = rounds + 1 /\ calls' = <<>>
      /\ UNCHANGED <<p, answered, reply>>
  BY DEF CloseRound
<1>2. /\ Received \in Seq(Candidate) /\ Len(Received) \in Nat
      /\ phase = "expand" => Len(Received) <= IF NMin > 0 THEN NMin ELSE p.n
      /\ phase = "topup" => Len(Received) <= p.n - NMin
      /\ phase = "aggregate" => Len(Received) <= p.n
      /\ NMin \in Nat /\ NMin < p.n
  BY RoundGives
<1>3. /\ usage'.prompt = usage.prompt + Cardinality(AnsweredCalls)
      /\ usage'.requests = usage.requests + Len(Received)
  BY <1>1, GatherFacts DEF IInv
<1>4. /\ p.n \in Nat /\ p.t \in Nat /\ rounds \in Nat /\ rounds < p.t /\ answered \in Nat
      /\ phase \in {"expand", "topup"} => rounds = 0
  BY <1>1 DEF IInv, RoundsInv
<1>5. population \in Seq(Candidate) /\ (phase = "topup" => Len(population) <= NMin)
  BY DEF IInv, BatchInv
<1>6. CallsInv'
  BY <1>1 DEF CallsInv
<1>7. population' \in Seq(Candidate) /\ Len(population') <= p.n
  <2>1. CASE phase = "topup"
    <3>1. population \o Received \in Seq(Candidate)
          /\ Len(population \o Received) = Len(population) + Len(Received)
      BY <1>2, <1>5, ConcatProperties
    <3>2. Len(population) \in Nat
      BY <1>5
    <3>. QED BY <1>1, <1>2, <1>4, <1>5, <2>1, <3>1, <3>2
  <2>2. CASE phase # "topup"
    BY <1>1, <1>2, <1>4, <2>2
  <2>. QED BY <2>1, <2>2
<1>8. BatchInv'
  BY <1>1, <1>7 DEF BatchInv
<1>9. BookInv'
  <2>1. /\ usage.prompt + Cardinality(AnsweredCalls) = answered /\ usage.requests \in Nat
        /\ usage.requests <= p.n * rounds + (IF phase = "topup" THEN NMin ELSE 0)
    BY <1>1 DEF IInv, BookInv
  <2>2. AnsweredCalls' = {}
    BY <1>1 DEF AnsweredCalls
  <2>3. Cardinality(AnsweredCalls') = 0
    BY <2>2, FS_EmptySet
  <2>4. usage'.prompt = answered /\ usage'.prompt + Cardinality(AnsweredCalls') = answered'
    BY <1>1, <1>3, <1>4, <2>1, <2>3
  <2>5. /\ p.n * rounds \in Nat /\ p.n * p.t \in Nat
        /\ p.n * (rounds + 1) = p.n * rounds + p.n
        /\ p.n * (rounds + 1) <= p.n * p.t
    <3>1. rounds + 1 \in Nat /\ rounds + 1 <= p.t
      BY <1>4
    <3>. QED BY <1>4, <3>1, Products
  <2>. DEFINE spent == p.n * rounds
              next == p.n * (rounds + 1)
              bound == p.n * p.t
  <2>. HIDE DEF spent, next, bound
  <2>6. /\ spent \in Nat /\ next = spent + p.n /\ next <= bound /\ bound \in Nat
        /\ usage.requests <= spent + (IF phase = "topup" THEN NMin ELSE 0)
    BY <2>1, <2>5 DEF spent, next, bound
  <2>7. /\ usage'.requests \in Nat /\ usage'.requests <= next
        /\ usage'.requests <= next + 0 /\ usage'.requests <= bound + 1
    <3>1. usage'.requests \in Nat
      BY <1>2, <1>3, <2>1
    <3>2. usage'.requests <= next
      <4>1. CASE phase = "expand"
        BY <1>2, <1>3, <1>4, <2>1, <2>6, <4>1
      <4>2. CASE phase = "topup"
        BY <1>2, <1>3, <1>4, <2>1, <2>6, <4>2
      <4>3. CASE phase = "aggregate"
        BY <1>2, <1>3, <1>4, <2>1, <2>6, <4>3
      <4>. QED BY <1>1, <4>1, <4>2, <4>3
    <3>. QED BY <1>4, <2>6, <3>1, <3>2
  <2>8. usage'.requests <= p'.n * rounds' + 0 /\ usage'.requests <= p'.n * p'.t + 1
    BY <1>1, <2>7 DEF next, bound
  <2>. QED BY <1>1, <1>4, <2>4, <2>7, <2>8 DEF BookInv, UsageIsTrue, Replied
<1>10. ReplyInv'
  BY <1>1 DEF ReplyInv, ErrorMeansRoundLost, WinnerStands, Replied
<1>. QED BY <1>6, <1>8, <1>9, <1>10

\* The next gather, of a round or of the selection, starts on closed books.
LEMMA AskingKeeps ==
    ASSUME IInv, Aggregate \/ AskFinal
    PROVE  CallsInv' /\ BatchInv' /\ BookInv' /\ ReplyInv'
<1>1. /\ phase = "closed" /\ calls = <<>>
      /\ UNCHANGED <<p, population, rounds, usage, answered, reply>>
  BY DEF IInv, BatchInv, Aggregate, AskFinal
<1>2. p.n \in Nat /\ p.n >= 1 /\ p.max_retries \in Nat
  BY DEF IInv, RoundsInv
<1>3. \/ /\ Aggregate /\ phase' = "aggregate" /\ CallsInv' /\ Asks(calls, p.n)'
         /\ AnsweredCalls' = {}
      \/ AskFinal /\ phase' = "final" /\ CallsInv' /\ Asks(calls, 1)' /\ AnsweredCalls' = {}
  <2>1. CASE Aggregate
    <3>1. PICK q \in Nat : q = p.n /\ q >= 1
      BY <1>2
    <3>2. calls' = Batch(p.aggregate = "shared", q) /\ phase' = "aggregate"
      BY <2>1, <3>1 DEF Aggregate
    <3>3. PICK b \in BOOLEAN : b = (p.aggregate = "shared")
      OBVIOUS
    <3>4. CallsInv' /\ Asks(calls, q)' /\ AnsweredCalls' = {}
      BY <1>1, <1>2, <3>1, <3>2, <3>3, BatchStarts
    <3>. QED BY <1>1, <2>1, <3>1, <3>2, <3>4
  <2>2. CASE AskFinal
    <3>1. PICK q \in Nat : q = 1 /\ q >= 1
      OBVIOUS
    <3>2. calls' = Batch(FALSE, q) /\ phase' = "final"
      BY <2>2, <3>1 DEF AskFinal
    <3>3. CallsInv' /\ Asks(calls, q)' /\ AnsweredCalls' = {}
      BY <1>1, <1>2, <3>1, <3>2, BatchStarts
    <3>. QED BY <2>2, <3>1, <3>2, <3>3
  <2>. QED BY <2>1, <2>2
<1>4. BatchInv'
  BY <1>1, <1>3 DEF IInv, BatchInv
<1>5. BookInv'
  <2>1. AnsweredCalls = {}
    BY <1>1 DEF AnsweredCalls
  <2>2. AnsweredCalls' = AnsweredCalls
    BY <1>3, <2>1
  <2>. QED BY <1>1, <1>3, <2>2 DEF IInv, BookInv, UsageIsTrue, Replied
<1>6. ReplyInv'
  BY <1>1, <1>3 DEF ReplyInv, ErrorMeansRoundLost, WinnerStands, Replied
<1>. QED BY <1>3, <1>4, <1>5, <1>6

\* What WinnerStands asks of an answer selected from the population.
Stands(answer, clean) ==
    LET pool    == Pool(population)
        holders == {i \in DOMAIN pool : pool[i].answer = answer}
        sound   == {i \in DOMAIN population : ~Broken(population[i])}
    IN  /\ answer \notin {NoBox, EmptyBox}
        /\ \A i \in Voters(pool) : Votes(pool, pool[i].answer) <= Cardinality(holders)
        /\ ~clean => \A i \in holders : ~pool[i].clean
        /\ \/ \E i \in holders : ~Broken(pool[i])
           \/ Cardinality(sound) < AtMost(p.k, Len(population))

\* The pool is the population, or what of it the verifier left.
LEMMA PoolIs ==
    ASSUME NEW pop \in Seq(Candidate)
    PROVE  /\ Pool(pop) \in Seq(Candidate)
           /\ \/ \A i \in DOMAIN Pool(pop) : ~Broken(Pool(pop)[i])
              \/ Cardinality({i \in DOMAIN pop : ~Broken(pop[i])}) < AtMost(p.k, Len(pop))
<1>1. /\ Unbroken(pop) \in Seq(Candidate)
      /\ \A j \in DOMAIN Unbroken(pop) : ~Broken(Unbroken(pop)[j])
      /\ Len(Unbroken(pop)) = Cardinality({i \in DOMAIN pop : ~Broken(pop[i])})
  BY UnbrokenHas
<1>2. CASE Len(Unbroken(pop)) < AtMost(p.k, Len(pop))
  BY <1>1, <1>2 DEF Pool
<1>3. CASE ~(Len(Unbroken(pop)) < AtMost(p.k, Len(pop)))
  BY <1>1, <1>3 DEF Pool
<1>. QED BY <1>2, <1>3

\* What a vote selects stands.
LEMMA VoteStands ==
    ASSUME population \in Seq(Candidate), Voters(Pool(population)) # {}
    PROVE  Stands(Voted(Pool(population)).answer, Voted(Pool(population)).clean)
<1>. DEFINE pool == Pool(population)
            sound == {i \in DOMAIN population : ~Broken(population[i])}
<1>1. /\ pool \in Seq(Candidate)
      /\ \/ \A i \in DOMAIN pool : ~Broken(pool[i])
         \/ Cardinality(sound) < AtMost(p.k, Len(population))
  BY PoolIs
<1>. HIDE DEF pool, sound
<1>2. Len(pool) \in Nat /\ DOMAIN pool = 1..Len(pool) /\ Voters(pool) # {}
  BY <1>1 DEF pool
<1>3. PICK w \in Voters(pool) :
          /\ Vote(pool) = pool[w].answer
          /\ \A j \in Voters(pool) : Votes(pool, pool[j].answer) <= Votes(pool, pool[w].answer)
  BY <1>2, VoteIsTop
<1>4. PICK v \in DOMAIN pool :
          /\ Voted(pool) = pool[v] /\ pool[v].answer = Vote(pool)
          /\ ~pool[v].clean => \A i \in DOMAIN pool : pool[i].answer = Vote(pool) => ~pool[i].clean
  BY <1>2, VotedIs
<1>. DEFINE holders == {i \in DOMAIN pool : pool[i].answer = Voted(pool).answer}
<1>5. Voted(pool).answer \notin {NoBox, EmptyBox}
  BY <1>3, <1>4 DEF Voters, Extracted
<1>6. \A i \in Voters(pool) : Votes(pool, pool[i].answer) <= Cardinality(holders)
  BY <1>3, <1>4 DEF Votes
<1>7. ~Voted(pool).clean => \A i \in holders : ~pool[i].clean
  BY <1>4
<1>8. \/ \E i \in holders : ~Broken(pool[i])
      \/ Cardinality(sound) < AtMost(p.k, Len(population))
  BY <1>1, <1>4
<1>. QED BY <1>5, <1>6, <1>7, <1>8 DEF Stands, pool, sound

\* It goes on standing while parameters and population stay.
LEMMA StandsOn ==
    ASSUME NEW answer, NEW clean, UNCHANGED <<p, population>>, Stands(answer, clean)
    PROVE  Stands(answer, clean)'
<1>1. \A c : Broken(c)' = Broken(c)
  BY DEF Broken
<1>2. Unbroken(population)' = Unbroken(population)
  BY DEF Unbroken, Broken
<1>3. Pool(population)' = Pool(population)
  BY <1>2 DEF Pool
<1>. QED BY <1>1, <1>3 DEF Stands

\* Selection ends the request: with a vote, a sample, or the answer asked for.
LEMMA ConcludeKeeps ==
    ASSUME IInv, SelectVote \/ SelectSample \/ FinalAnswer \/ FinalFallback
    PROVE  CallsInv' /\ BatchInv' /\ BookInv' /\ ReplyInv'
<1>1. /\ phase' = "done" /\ UNCHANGED <<p, calls, population, rounds, answered>>
      /\ phase \in {"closed", "final"}
  BY DEF SelectVote, SelectSample, FinalAnswer, FinalFallback, Conclude
<1>2. phase = "final" => Gathered
  BY DEF SelectVote, SelectSample, FinalAnswer, FinalFallback
<1>3. phase = "closed" => calls = <<>>
  BY DEF IInv, BatchInv
<1>4. CallsInv'
  BY <1>1 DEF IInv, CallsInv
<1>5. BatchInv'
  <2>1. \A i \in 1..Len(calls) : calls[i].st = "done"
    BY <1>1, <1>2, <1>3 DEF IInv, CallsInv, Gathered
  <2>. QED BY <1>1, <2>1 DEF IInv, BatchInv
<1>6. BookInv'
  <2>1. /\ usage.prompt + Cardinality(AnsweredCalls) = answered /\ usage.requests \in Nat
        /\ usage.prompt \in Int /\ usage.requests <= p.n * rounds + 0
        /\ usage.requests <= p.n * p.t + 1
    BY <1>1 DEF IInv, BookInv
  <2>2. CASE FinalAnswer
    <3>1. phase = "final" /\ usage' = Booked(Received)
      BY <2>2 DEF FinalAnswer
    <3>2. /\ usage'.prompt = usage.prompt + Cardinality(AnsweredCalls)
          /\ usage'.requests = usage.requests + Len(Received)
      BY <3>1, GatherFacts DEF IInv
    <3>3. Len(Received) \in Nat /\ Len(Received) <= 1
      BY <3>1, RoundGives
    <3>. DEFINE spent == p.n * rounds
                bound == p.n * p.t
    <3>4. p.n \in Nat /\ p.t \in Nat /\ rounds \in Nat /\ rounds <= p.t /\ answered \in Nat
      BY DEF IInv, RoundsInv
    <3>5. spent \in Nat /\ bound \in Nat /\ spent <= bound /\ usage.requests <= spent + 0
      BY <2>1, <3>4, Products
    <3>. HIDE DEF spent, bound
    <3>6. usage'.requests \in Nat /\ usage'.requests <= bound + 1
      BY <2>1, <3>2, <3>3, <3>5
    <3>7. usage'.prompt = answered
      BY <2>1, <3>2
    <3>. QED BY <1>1, <3>4, <3>6, <3>7 DEF BookInv, UsageIsTrue, Replied, bound
  <2>3. CASE ~FinalAnswer
    <3>1. UNCHANGED usage
      BY <2>3 DEF SelectVote, SelectSample, FinalFallback
    <3>2. AnsweredCalls = {}
      <4>1. CASE phase = "closed"
        BY <1>3, <4>1 DEF AnsweredCalls
      <4>2. CASE phase = "final"
        <5>1. Received = <<>>
          BY <2>3, <4>2 DEF SelectVote, SelectSample, FinalFallback
        <5>. QED BY <5>1, GatherFacts DEF IInv, AnsweredCalls
      <4>. QED BY <1>1, <4>1, <4>2
    <3>3. Cardinality(AnsweredCalls) = 0
      BY <3>2, FS_EmptySet
    <3>4. usage.prompt = answered
      BY <2>1, <3>3
    <3>. QED BY <1>1, <2>1, <3>1, <3>4 DEF BookInv, UsageIsTrue, Replied
  <2>. QED BY <2>2, <2>3
<1>7. ErrorMeansRoundLost'
  <2>1. PICK method, answer, clean : reply' = Result(method, answer, clean)
    BY DEF SelectVote, SelectSample, FinalAnswer, FinalFallback, Conclude
  <2>2. reply'.status = "ok"
    BY <2>1 DEF Result
  <2>. QED BY <2>2 DEF ErrorMeansRoundLost, Replied
<1>8. WinnerStands'
  <2>1. CASE SelectVote
    <3>. DEFINE c == Voted(Pool(population))
    <3>1. reply' = Result("majority_vote", c.answer, c.clean) /\ Voters(Pool(population)) # {}
      BY <2>1 DEF SelectVote, Conclude
    <3>2. reply'.answer = c.answer /\ reply'.clean = c.clean
      BY <3>1 DEF Result
    <3>3. Stands(c.answer, c.clean)
      BY <3>1, VoteStands DEF IInv, BatchInv
    <3>. HIDE DEF c
    <3>4. PICK a, b : a = c.answer /\ b = c.clean
      OBVIOUS
    <3>5. Stands(a, b)'
      BY <1>1, <3>3, <3>4, StandsOn
    <3>6. reply'.answer = a /\ reply'.clean = b
      BY <3>2, <3>4
    <3>. QED BY <3>5, <3>6 DEF WinnerStands, Stands
  <2>2. CASE ~SelectVote
    <3>1. PICK method, answer, clean : /\ reply' = Result(method, answer, clean)
                                       /\ method \in {"sample", "final_aggregation"}
      BY <2>2 DEF SelectSample, FinalAnswer, FinalFallback, Conclude
    <3>2. reply'.method # "majority_vote"
      BY <3>1 DEF Result
    <3>. QED BY <3>2 DEF WinnerStands
  <2>. QED BY <2>1, <2>2
<1>. QED BY <1>4, <1>5, <1>6, <1>7, <1>8 DEF ReplyInv

\* A backend step changes nothing but the calls and the prompts answered.
LEMMA StepFrame ==
    ASSUME NEW i, Send(i) \/ BackendStep(i)
    PROVE  /\ UNCHANGED <<phase, p, population, rounds, usage, reply>>
           /\ answered' \in {answered, answered + 1}
<1>1. CASE Send(i)
  BY <1>1 DEF Send
<1>2. CASE Reply(i)
  BY <1>2 DEF Reply
<1>3. CASE BadRequest(i)
  BY <1>3 DEF BadRequest
<1>4. CASE TransportError(i)
  BY <1>4 DEF TransportError
<1>5. CASE StatusError(i)
  BY <1>5 DEF StatusError
<1>. QED BY <1>1, <1>2, <1>3, <1>4, <1>5 DEF BackendStep

\* Rounds are counted up to T and no further.
LEMMA RoundsStep == IInv /\ [Next]_vars => RoundsInv'
<1>. SUFFICES ASSUME IInv, [Next]_vars PROVE RoundsInv'
  OBVIOUS
<1>. USE DEF IInv, RoundsInv
<1>1. ASSUME NEW r \in Requests, Receive(r) PROVE RoundsInv'
  BY <1>1, ParamsAssumption DEF Receive, Answer, ParamsAssumption, ValidParams
<1>2. ASSUME NEW i \in DOMAIN calls, Send(i) \/ BackendStep(i) PROVE RoundsInv'
  BY <1>2, StepFrame
<1>3. CASE RoundFails
  BY <1>3 DEF RoundFails, Answer
<1>4. CASE TopUp
  BY <1>4 DEF TopUp
<1>5. CASE CloseRound
  BY <1>5 DEF CloseRound
<1>6. CASE Aggregate
  BY <1>6 DEF Aggregate, Stopping
<1>7. CASE SelectVote \/ SelectSample \/ FinalAnswer \/ FinalFallback
  BY <1>7 DEF SelectVote, SelectSample, FinalAnswer, FinalFallback, Conclude, Result
<1>8. CASE AskFinal
  BY <1>8 DEF AskFinal
<1>9. CASE UNCHANGED vars
  BY <1>9 DEF vars
<1>. QED BY <1>1, <1>2, <1>3, <1>4, <1>5, <1>6, <1>7, <1>8, <1>9 DEF Next, Proceed, Done

\* Selection starts only when the rounds stop, and their reason does not go away.
LEMMA StopStep == IInv /\ [Next]_vars => StopInv'
<1>. SUFFICES ASSUME IInv, [Next]_vars PROVE StopInv'
  OBVIOUS
<1>. USE DEF IInv, StopInv, Pending
<1>1. ASSUME NEW r \in Requests, Receive(r) PROVE StopInv'
  BY <1>1 DEF Receive, Answer
<1>2. ASSUME UNCHANGED <<p, population, rounds>> PROVE Stopping' <=> Stopping
  BY <1>2 DEF Stopping, ConsensusMet, HasConsensus, Voters, Vote, Votes
<1>3. ASSUME NEW i \in DOMAIN calls, Send(i) \/ BackendStep(i) PROVE StopInv'
  BY <1>2, <1>3, StepFrame
<1>4. CASE RoundFails
  BY <1>4 DEF RoundFails, Answer
<1>5. CASE TopUp \/ CloseRound \/ Aggregate
  BY <1>5 DEF TopUp, CloseRound, Aggregate
<1>6. CASE SelectVote \/ SelectSample \/ FinalAnswer \/ FinalFallback
  <2>1. Stopping /\ UNCHANGED <<p, population, rounds>> /\ phase' = "done"
    BY <1>6 DEF SelectVote, SelectSample, FinalAnswer, FinalFallback, Conclude
  <2>2. PICK method, answer, clean : reply' = Result(method, answer, clean)
    BY <1>6 DEF SelectVote, SelectSample, FinalAnswer, FinalFallback, Conclude
  <2>3. Stopping' /\ reply'.status = "ok" /\ (reply'.early => rounds' < p'.t)
    BY <1>2, <2>1, <2>2 DEF Result
  <2>. QED BY <2>1, <2>3
<1>7. CASE AskFinal
  BY <1>2, <1>7 DEF AskFinal
<1>8. CASE UNCHANGED vars
  BY <1>2, <1>8 DEF vars
<1>. QED BY <1>1, <1>3, <1>4, <1>5, <1>6, <1>7, <1>8 DEF Next, Proceed, Done

\* Every step keeps the calls, the batch, the books and the replies.
LEMMA StepKeeps ==
    ASSUME IInv, [Next]_vars
    PROVE  CallsInv' /\ BatchInv' /\ BookInv' /\ ReplyInv'
<1>1. CASE UNCHANGED vars
  <2>1. NMin' = NMin /\ AnsweredCalls' = AnsweredCalls
    BY <1>1 DEF vars, NMin, AnsweredCalls
  <2>2. CallsInv' /\ BatchInv'
    BY <1>1, <2>1 DEF vars, IInv, CallsInv, BatchInv, Asks
  <2>3. BookInv'
    BY <1>1, <2>1 DEF vars, IInv, BookInv, UsageIsTrue, Replied
  <2>4. ErrorMeansRoundLost'
    BY <1>1 DEF vars, IInv, ReplyInv, ErrorMeansRoundLost, Replied
  <2>5. WinnerStands'
    <3>1. CASE Replied("ok") /\ reply.method = "majority_vote"
      <4>1. PICK a, b : a = reply.answer /\ b = reply.clean
        OBVIOUS
      <4>2. Stands(a, b)
        BY <3>1, <4>1 DEF IInv, ReplyInv, WinnerStands, Stands
      <4>3. Stands(a, b)'
        BY <1>1, <4>2, StandsOn DEF vars
      <4>. QED BY <1>1, <4>1, <4>3 DEF vars, WinnerStands, Stands
    <3>2. CASE ~(Replied("ok") /\ reply.method = "majority_vote")
      BY <1>1, <3>2 DEF vars, WinnerStands, Replied
    <3>. QED BY <3>1, <3>2
  <2>. QED BY <2>2, <2>3, <2>4, <2>5 DEF ReplyInv
<1>2. ASSUME NEW r \in Requests, Receive(r)
      PROVE  CallsInv' /\ BatchInv' /\ BookInv' /\ ReplyInv'
  BY <1>2, ReceiveKeeps
<1>3. ASSUME NEW i \in DOMAIN calls, Send(i) \/ BackendStep(i)
      PROVE  CallsInv' /\ BatchInv' /\ BookInv' /\ ReplyInv'
  BY <1>3, CallStepKeeps
<1>4. CASE Proceed
  BY <1>4, RoundFailsKeeps, TopUpKeeps, CloseRoundKeeps, AskingKeeps, ConcludeKeeps DEF Proceed
<1>. QED BY <1>1, <1>2, <1>3, <1>4 DEF Next, Done

\* The inductive invariant holds in every reachable state of a request.
THEOREM Invariance == Spec => []IInv
<1>1. IInv /\ [Next]_vars => IInv'
  BY StepKeeps, RoundsStep, StopStep DEF IInv
<1>. QED BY InitInv, <1>1, PTL DEF Spec

\* Calls, rounds and replies have the shapes run_rsa gives them.
THEOREM TypeCorrect == Spec => []TypeOK
<1>1. IInv => TypeOK
  <2>. SUFFICES ASSUME IInv PROVE TypeOK
    OBVIOUS
  <2>1. ASSUME NEW i \in DOMAIN calls
        PROVE  /\ calls[i].st \in {"queued", "sent", "done"}
               /\ calls[i].attempt \in 0..p.max_retries
               /\ Len(calls[i].got) \in {0, calls[i].want}
    <3>1. IsCall(calls[i], p.max_retries) /\ p.max_retries \in Nat
      BY DEF IInv, CallsInv, RoundsInv
    <3>. QED BY <3>1 DEF IsCall, Call
  <2>. QED BY <2>1 DEF IInv, RoundsInv, TypeOK
<1>. QED BY Invariance, <1>1, PTL

\* No mixture of 400s and lost connections sends a rollout more than
\* max_retries + 2 times.
THEOREM RetriesAreBounded == Spec => []RetriesBounded
<1>1. IInv => RetriesBounded
  <2>. SUFFICES ASSUME IInv, NEW i \in DOMAIN calls
                PROVE  calls[i].sends <= p.max_retries + 2
    BY DEF RetriesBounded
  <2>1. IsCall(calls[i], p.max_retries) /\ p.max_retries \in Nat
    BY DEF IInv, CallsInv, RoundsInv
  <2>. QED BY <2>1 DEF IsCall, Call
<1>. QED BY Invariance, <1>1, PTL

\* The usage reported with a completion counts the prompt of every answered backend
\* call once, whichever of them were shared, topped up or lost.
THEOREM UsageCountsEveryPrompt == Spec => []UsageIsTrue
<1>1. IInv => UsageIsTrue
  BY DEF IInv, BookInv
<1>. QED BY Invariance, <1>1, PTL

\* A request is charged for at most N candidates in each of T rounds and one more for
\* the selection, and its population never outgrows N.
THEOREM SpendIsBounded == Spec => []SpendBounded
<1>1. IInv => SpendBounded
  BY DEF IInv, BookInv, BatchInv, SpendBounded
<1>. QED BY Invariance, <1>1, PTL

\* A request fails only when a whole gather before the last round gave nothing.
THEOREM ErrorsMeanLostRounds == Spec => []ErrorMeansRoundLost
<1>1. IInv => ErrorMeansRoundLost
  BY DEF IInv, ReplyInv
<1>. QED BY Invariance, <1>1, PTL

\* An answer returned by vote has as many holders in the verified pool as any other, is
\* cut off only if all of them are, and is broken only for want of K sound candidates.
THEOREM VotesAreWon == Spec => []WinnerStands
<1>1. IInv => WinnerStands
  BY DEF IInv, ReplyInv
<1>. QED BY Invariance, <1>1, PTL

\* Once a request is answered nothing about it changes any more: no late call, retry or
\* round touches its reply, its usage or its population.
THEOREM RepliesAreFinal == Spec => [][phase = "done" => UNCHANGED vars]_vars
<1>1. IInv /\ [Next]_vars => [phase = "done" => UNCHANGED vars]_vars
  BY DoneIsLast DEF IInv
<1>. QED BY Invariance, <1>1, PTL DEF Spec

\* An answer that claims to have saved rounds comes from a population that met
\* consensus with early_stop on.
THEOREM SavedRoundsHaveConsensus ==
    Spec => [](reply.status = "ok" /\ reply.early => ConsensusMet(population))
<1>1. IInv => (reply.status = "ok" /\ reply.early => ConsensusMet(population))
  BY DEF IInv, RoundsInv, StopInv, Stopping
<1>. QED BY Invariance, <1>1, PTL

=============================================================================
