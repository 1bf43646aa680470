----------------------------- MODULE MCRsaRound -----------------------------
(* Values for RsaRound: small populations, one request per behaviour. *)
EXTENDS RsaRound, TLC

CONSTANTS A, B, Bad

Text(answer, clean, crashes) == [answer |-> answer, clean |-> clean, crashes |-> crashes]

SomeRollouts ==
    {Text(A, TRUE, FALSE), Text(A, FALSE, FALSE), Text(B, TRUE, TRUE),
     Text(Bad, TRUE, FALSE), Text(NoBox, FALSE, FALSE), Text(EmptyBox, TRUE, FALSE)}

FewParams ==
    [enabled |-> TRUE, n |-> 2, k |-> 2, t |-> 2, n_min |-> 0, expand_with_n |-> TRUE,
     aggregate |-> "subset", selection |-> "auto", verifier |-> "off", max_concurrency |-> 2,
     max_retries |-> 1, early_stop |-> FALSE, consensus_threshold |-> 90,
     consensus_min_votes |-> 2]

Chat(override) == [tools |-> FALSE, many |-> FALSE, rsa |-> override]

\* Every mode of expansion, aggregation, selection and verification, and the
\* requests the proxy forwards or refuses.
SomeRequests ==
    {Chat([n |-> 3, n_min |-> 2, k |-> 1, early_stop |-> TRUE, verifier |-> "math",
           consensus_threshold |-> 60, aggregate |-> "shared", max_retries |-> 0,
           selection |-> "majority"]),
     Chat([n |-> 3, n_min |-> 1, t |-> 1, expand_with_n |-> FALSE, verifier |-> "auto"]),
     Chat([expand_with_n |-> FALSE, max_concurrency |-> 1, selection |-> "majority",
           verifier |-> "code", k |-> 1, t |-> 1]),
     Chat([selection |-> "final_agg"]),
     Chat([selection |-> "sample", aggregate |-> "shared"]),
     Chat([enabled |-> FALSE]),
     Chat([k |-> 0]),
     [tools |-> TRUE, many |-> FALSE, rsa |-> [enabled |-> TRUE]],
     [tools |-> FALSE, many |-> TRUE, rsa |-> [enabled |-> TRUE]]}

BadAnswers == {Bad}
=============================================================================
