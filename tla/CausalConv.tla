----------------------------- MODULE CausalConv -----------------------------
(***************************************************************************)
(* What a CCA layer promises, whatever the batches: each token of each     *)
(* sequence is convolved with the TP tokens before it in its own sequence, *)
(* and its value stream sees the hidden state of the token before it.      *)
(* Before the first token there are zeros.                                 *)
(***************************************************************************)
EXTENDS Integers, Sequences

CONSTANTS
  Seqs,   \* the sequences the engine serves
  TP,     \* total_padding: inputs the two convolutions look back
  Zero    \* the zero vector

VARIABLES
  len,    \* tokens of each sequence the layer has taken
  rows    \* what the last forward pass answered

\* Token i (from 0) of sequence s; the tokens before the first are zeros.
Tok(s, i) == IF i < 0 THEN Zero ELSE <<s, i, TRUE>>

\* The TP tokens of s that precede its token n.
Before(s, n) == [c \in 1 .. TP |-> Tok(s, n - TP + c - 1)]

\* The answer to token i of s.
Answer(s, i) ==
  [tok |-> Tok(s, i), win |-> Append(Before(s, i), Tok(s, i)), hs2 |-> Tok(s, i - 1)]

Init == len = [s \in Seqs |-> 0] /\ rows = {}

\* A pass takes the next tokens of some sequences and answers each of them; it may give up
\* a sequence, of which it then answers nothing.
Pass ==
  /\ \A s \in Seqs : len'[s] >= len[s] \/ len'[s] = 0
  /\ rows' = UNION {{Answer(s, i) : i \in len[s] .. len'[s] - 1} : s \in Seqs}

\* A sequence ends, or is preempted and starts again later.
Forget(s) ==
  /\ len' = [len EXCEPT ![s] = 0]
  /\ rows' = {}

Next == Pass \/ \E s \in Seqs : Forget(s)

Spec == Init /\ [][Next]_<<len, rows>>
=============================================================================
