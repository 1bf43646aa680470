------------------------------ MODULE CcaState ------------------------------
(***************************************************************************)
(* The CCA layer of ZAYA1 (zaya/overlay/.../mamba/cca.py): one forward     *)
(* pass over a batch of decode rows and prefill chunks that reads and      *)
(* writes the cached state of each sequence.                               *)
(*                                                                         *)
(* A token stands for its q|k vector and for its hidden state, a window    *)
(* for what the two convolutions make of it.  The arithmetic on tokens is  *)
(* left out; which tokens meet is the model.  The engine around the layer  *)
(* (block tables, batches, acceptance of drafts) is external.  Under       *)
(* speculation a sequence has several blocks, and whether the next pass    *)
(* finds the state it should go on from depends on what the engine tells   *)
(* the layer and does itself: home and lost, which no action reads but     *)
(* their own updates, keep track of it.                                    *)
(***************************************************************************)
EXTENDS Integers, FiniteSets, SequencesExt

CONSTANTS
  Seqs,      \* sequences of the engine
  NumSlots,  \* blocks of the state cache; block 0 is reserved
  TP,        \* total_padding
  NumSpec,   \* num_speculative_tokens where speculation is on
  MaxLen,    \* bound: tokens of a sequence
  MaxChunk,  \* bound: tokens of a prefill chunk
  MaxPads,   \* bound: padding rows of a captured batch
  MaxBlock,  \* bound: last mamba block of a sequence in "all" mode
  Modes,     \* modes of the cache
  Zero, Pad

ASSUME CcaAssumption ==
  /\ TP \in Nat \ {0} /\ NumSpec \in Nat /\ MaxBlock \in Nat /\ MaxLen \in Nat
  /\ MaxChunk \in Nat /\ MaxPads \in Nat /\ NumSlots \in Nat \ {0} /\ IsFiniteSet(Seqs)
  /\ Modes \subseteq {"plain", "align", "computed", "all"}
  /\ Pad \notin Seqs /\ Zero \notin (Seqs \cup {Pad}) \X Int \X BOOLEAN

VARIABLES
  cfg,        \* mode of the cache, fused kernels built, and if the engine keeps its part
  tab,        \* row of the block table of each sequence, <<>> when it has none
  len,        \* tokens taken
  conv, hid,  \* conv_states and prev_hs, by block
  sched, acc, \* "all" mode: column and number of accepted tokens of the last pass
  out,        \* rows of the last pass
  home,       \* column in which the state after the last accepted token was left, or -1
  lost        \* sequences of which a pass has read another column than that

vars == <<cfg, tab, len, conv, hid, sched, acc, out, home, lost>>

\* The rows that answer accepted tokens of sequences that are not lost, and the promise
\* about them.
Answered == {out[r] : r \in {x \in DOMAIN out : /\ out[x].tok # Zero /\ out[x].tok[3]
                                               /\ out[x].tok[1] \notin lost}}
Followed == [s \in Seqs |-> IF s \in lost THEN 0 ELSE len[s]]
Exact == INSTANCE CausalConv WITH len <- Followed, rows <- Answered
Tok(s, i) == Exact!Tok(s, i)
Draft(s, i) == <<s, i, FALSE>>             \* a candidate that is not accepted
Junk == Draft(Pad, 0)                      \* whatever a padding row has for a token
Zeros == [c \in 1 .. TP |-> Zero]
P == 1 + NumSpec

Width == CASE cfg.mode = "plain" -> 1 [] cfg.mode = "align" -> P [] OTHER -> P + MaxBlock

\* The column-0 block of s; the prefill and the plain decode know no other.
Base(s) == tab[s][1]

\* What the code of the layer leaves to the engine: in "align" mode the postprocess copies
\* the block of the last accepted token to column 0; in "all" mode a prompt ends in the
\* first block.
Init ==
  /\ cfg \in [mode : Modes, hip : {{}, {"decode"}, {"decode", "prefill"}}, keeps : BOOLEAN]
  /\ cfg.mode # "plain" => cfg.hip = {}
  /\ cfg.mode = "plain" => cfg.keeps
  /\ cfg.mode = "computed" => ~cfg.keeps
  /\ tab = [s \in Seqs |-> <<>>] /\ len = [s \in Seqs |-> 0]
  /\ conv = [b \in 0 .. NumSlots |-> Zeros] /\ hid = [b \in 0 .. NumSlots |-> Zero]
  /\ sched = [s \in Seqs |-> 0] /\ acc = [s \in Seqs |-> 0]
  /\ out = <<>> /\ home = [s \in Seqs |-> 0] /\ lost = {}

\* The two stacked convolutions: one output per TP + 1 adjacent inputs.
Conv(x) == [j \in 1 .. Len(x) - TP |-> SubSeq(x, j, j + TP)]

----------------------------------------------------------------------------
\* Prefill: pre is a sequence of [seq, n], a chunk of n tokens each.

Chunk(r) == [t \in 1 .. r.n |-> Tok(r.seq, len[r.seq] + t - 1)]
Toks(pre) == FlattenSeq([i \in DOMAIN pre |-> Chunk(pre[i])])
Req(pre) == FlattenSeq([i \in DOMAIN pre |-> [t \in 1 .. pre[i].n |-> i]])
QStart(pre, i) ==
  LET start[k \in 0 .. i - 1] == IF k = 0 THEN 0 ELSE start[k - 1] + pre[k].n IN start[i - 1]

\* Cached state of a request, masked by has_initial_states.
InitStateBug(s) == conv[Base(s)]
InitState(s) == IF len[s] > 0 THEN conv[Base(s)] ELSE Zeros
InitHid(s) == IF len[s] > 0 THEN hid[Base(s)] ELSE Zero

\* Eager: one convolution over [state | tokens] segments laid end to end.
NewStatePos(pre, i) == QStart(pre, i + 1) + (i - 1) * TP
EagerPrefill(pre) ==
  LET flat == FlattenSeq([i \in DOMAIN pre |-> InitState(pre[i].seq) \o Chunk(pre[i])])
      outPos(t) == t - 1 + (Req(pre)[t] - 1) * TP
  IN [win |-> [t \in DOMAIN Toks(pre) |-> Conv(flat)[outPos(t) + 1]],
      put |-> {<<Base(pre[i].seq),
                 SubSeq(flat, NewStatePos(pre, i) + 1, NewStatePos(pre, i) + TP)>>
               : i \in DOMAIN pre}]

\* Fused: each token builds its window from the tokens of the batch and from a
\* copy of the states; the last token of a request writes the state.
HipPrefill(pre) ==
  LET init == [i \in DOMAIN pre |-> InitState(pre[i].seq)]
      toks == Toks(pre)
      req  == Req(pre)
      seg(t) == t - 1 - QStart(pre, req[t])
      win(t) == [o \in 1 .. TP + 1 |-> IF seg(t) - TP + o - 1 >= 0
                                       THEN toks[t - TP + o - 1] ELSE init[req[t]][seg(t) + o]]
      last == {t \in DOMAIN toks : t = QStart(pre, req[t] + 1)}
  IN [win |-> [t \in DOMAIN toks |-> win(t)],
      put |-> {<<Base(pre[req[t]].seq), SubSeq(win(t), 2, TP + 1)>> : t \in last}]

\* Previous-token hidden states: a shift by one with a seed per request.
Shifted(toks, req, seed) ==
  [t \in DOMAIN toks |->
     IF t = 1 THEN seed[req[t]] ELSE IF req[t - 1] # req[t] THEN seed[req[t]] ELSE toks[t - 1]]

PrefillHid(pre) ==
  [hs2 |-> Shifted(Toks(pre), Req(pre), [i \in DOMAIN pre |-> InitHid(pre[i].seq)]),
   put |-> {<<Base(pre[i].seq), Toks(pre)[QStart(pre, i + 1)]>> : i \in DOMAIN pre}]

----------------------------------------------------------------------------
\* Blocks a part of the pass has written.
Put(f, w) == [b \in DOMAIN f |-> IF \E x \in w : x[1] = b THEN (CHOOSE x \in w : x[1] = b)[2] ELSE f[b]]

\* Plain decode: dec is a sequence of sequences and Pads, one token each.
SafeBlock(s) == IF s = Pad THEN 0 ELSE Base(s)
Next1(s) == IF s = Pad THEN Zero ELSE Tok(s, len[s])

EagerDecode(s, cs) ==
  LET cached == IF s = Pad THEN Zeros ELSE cs[SafeBlock(s)]
  IN [win |-> Conv(Append(cached, Next1(s)))[1],
      put |-> <<SafeBlock(s), [c \in 1 .. TP |-> IF c = TP THEN Next1(s) ELSE cached[c + 1]]>>]

HipDecodeBug(s, cs) ==   \* stores the window it has used, not rolled
  [win |-> Append(IF s = Pad THEN Zeros ELSE cs[SafeBlock(s)], Next1(s)),
   put |-> <<SafeBlock(s), Append(IF s = Pad THEN Zeros ELSE cs[SafeBlock(s)], Next1(s))>>]
HipDecode(s, cs) ==
  LET win == [o \in 1 .. TP + 1 |-> IF s = Pad THEN Zero ELSE IF o <= TP THEN cs[SafeBlock(s)][o] ELSE Next1(s)]
  IN [win |-> win, put |-> <<SafeBlock(s), IF s = Pad THEN Zeros ELSE SubSeq(win, 2, TP + 1)>>]

DecodeHid(s, hs) ==
  [hs2 |-> IF s = Pad THEN Zero ELSE hs[SafeBlock(s)], put |-> <<SafeBlock(s), Next1(s)>>]

\* The fused output path is taken only when it covers every region of the batch.
UseHip(dec, pre) ==
  /\ cfg.mode = "plain"
  /\ dec # <<>> => "decode" \in cfg.hip
  /\ pre # <<>> => {"decode", "prefill"} \subseteq cfg.hip

\* One pass without speculation: the prefill region is treated first, then the
\* decode region; the rows of the answer are decode first.
PlainPass(dec, pre) ==
  LET hip == UseHip(dec, pre)
      p  == IF hip THEN HipPrefill(pre) ELSE EagerPrefill(pre)
      ph == PrefillHid(pre)
      conv1 == Put(conv, p.put)
      hid1  == Put(hid, ph.put)
      d  == [i \in DOMAIN dec |-> IF hip THEN HipDecode(dec[i], conv1) ELSE EagerDecode(dec[i], conv1)]
      dh == [i \in DOMAIN dec |-> DecodeHid(dec[i], hid1)]
  IN /\ conv' = Put(conv1, {d[i].put : i \in DOMAIN dec})
     /\ hid'  = Put(hid1, {dh[i].put : i \in DOMAIN dec})
     /\ out' = [i \in DOMAIN dec |-> [tok |-> Next1(dec[i]), win |-> d[i].win, hs2 |-> dh[i].hs2]]
               \o [t \in DOMAIN p.win |-> [tok |-> Toks(pre)[t], win |-> p.win[t], hs2 |-> ph.hs2[t]]]
     /\ len' = [s \in Seqs |->
          len[s] + Cardinality({i \in DOMAIN dec : dec[i] = s})
                 + Cardinality({t \in DOMAIN Toks(pre) : Toks(pre)[t][1] = s})]
     /\ UNCHANGED <<cfg, tab, sched, acc, home, lost>>

----------------------------------------------------------------------------
\* Speculation: ver is a sequence of [seq, n, ok, col, cwin, hwin]: n candidate tokens, of
\* which the engine will accept the first ok; col is the column it points to.  Candidates
\* whose columns coincide write one block: those of conv_states end with the state of
\* candidate cwin, those of prev_hs with that of hwin.  A padding row has seq = Pad.

Cand(v) == [j \in 1 .. v.n |-> IF v.seq = Pad THEN Junk
                               ELSE IF j <= v.ok THEN Tok(v.seq, len[v.seq] + j - 1)
                               ELSE Draft(v.seq, len[v.seq] + j - 1)]
AtMost(x, y) == IF x < y THEN x ELSE y
AtLeast(x, y) == IF x > y THEN x ELSE y

\* The column whose state a row goes on from.
ReadColBug(v) == IF cfg.mode = "all" THEN AtMost(sched[v.seq] + acc[v.seq], Len(tab[v.seq]) - 1)
                 ELSE IF cfg.mode = "computed" THEN AtMost(v.col, P - 1) ELSE 0
ReadCol(v) ==
  CASE cfg.mode = "all" -> AtMost(sched[v.seq] + AtLeast(acc[v.seq], 1) - 1, Len(tab[v.seq]) - 1)
    [] cfg.mode = "computed" -> AtMost(v.col, P - 1)
    [] OTHER -> 0
ReadBlock(v) == tab[v.seq][ReadCol(v) + 1]

\* The column that gets the state after candidate j.
WriteCol(v, j) ==
  CASE cfg.mode = "all" -> AtMost(v.col + j - 1, Len(tab[v.seq]) - 1)
    [] cfg.mode = "computed" -> AtMost(ReadCol(v) + j, P - 1)
    [] OTHER -> j - 1
WriteBlock(v, j) == tab[v.seq][WriteCol(v, j) + 1]

\* The candidates whose states are there in the end, when w wins the last column.
Lands(v, w) == {j \in 1 .. v.n : WriteCol(v, j) # WriteCol(v, v.n)} \cup {w}

\* The window of each candidate, and the state that ends at it.  Padding starts from zeros
\* and gives block 0 the value it has.
VerifyConvBug(v, cs) ==   \* the state ends one candidate early
  LET buf == (IF v.seq = Pad THEN Zeros ELSE cs[ReadBlock(v)]) \o Cand(v) \o [j \in 1 .. P - v.n |-> Zero]
  IN [win |-> SubSeq(Conv(buf), 1, v.n),
      put |-> IF v.seq = Pad THEN {<<0, cs[0]>>}
              ELSE {<<WriteBlock(v, j), SubSeq(buf, j, j + TP - 1)>> : j \in Lands(v, v.cwin)}]
VerifyConv(v, cs) ==
  LET buf == (IF v.seq = Pad THEN Zeros ELSE cs[ReadBlock(v)]) \o Cand(v) \o [j \in 1 .. P - v.n |-> Zero]
  IN [win |-> SubSeq(Conv(buf), 1, v.n),
      put |-> IF v.seq = Pad THEN {<<0, cs[0]>>}
              ELSE {<<WriteBlock(v, j), SubSeq(buf, j + 1, j + TP)>> : j \in Lands(v, v.cwin)}]

HidPutsBug(v, hs) ==   \* padding is not masked
  IF v.seq = Pad THEN {<<0, Cand(v)[1]>>}
  ELSE {<<WriteBlock(v, j), Cand(v)[j]>> : j \in Lands(v, v.hwin)}
HidPuts(v, hs) == IF v.seq = Pad THEN {<<0, hs[0]>>}
                  ELSE {<<WriteBlock(v, j), Cand(v)[j]>> : j \in Lands(v, v.hwin)}
VerifyHid(ver, hs) ==
  LET toks == FlattenSeq([i \in DOMAIN ver |-> Cand(ver[i])])
      req  == FlattenSeq([i \in DOMAIN ver |-> [j \in 1 .. ver[i].n |-> i]])
  IN [hs2 |-> Shifted(toks, req, [i \in DOMAIN ver |-> IF ver[i].seq = Pad THEN Zero ELSE hs[ReadBlock(ver[i])]]),
      toks |-> toks,
      put |-> UNION {HidPuts(ver[i], hs) : i \in DOMAIN ver}]

\* In "align" mode an engine that does its part then copies the block of the last accepted
\* token to column 0.
Copies == cfg.mode = "align" /\ cfg.keeps
AlignCopy(f, ver) ==
  Put(f, {<<Base(ver[i].seq), f[WriteBlock(ver[i], ver[i].ok)]>> : i \in {k \in DOMAIN ver : Copies /\ ver[k].seq # Pad}})

\* Where the state after the last accepted token is in the end: nowhere for sure when
\* another candidate has written the same block.
Left(v) == IF Copies THEN 0
           ELSE IF \E j \in 1 .. v.n : j # v.ok /\ WriteCol(v, j) = WriteCol(v, v.ok) THEN -1
           ELSE WriteCol(v, v.ok)

\* The sequences of the region, and the row of each.
Verified(ver) == {v.seq : v \in Range(ver)} \ {Pad}
RowOf(ver, s) == CHOOSE v \in Range(ver) : v.seq = s

VerifyPass(ver, pre) ==
  LET p  == EagerPrefill(pre)
      ph == PrefillHid(pre)
      conv1 == Put(conv, p.put)
      hid1  == Put(hid, ph.put)
      d  == [i \in DOMAIN ver |-> VerifyConv(ver[i], conv1)]
      vh == VerifyHid(ver, hid1)
      dwin == FlattenSeq([i \in DOMAIN ver |-> d[i].win])
  IN /\ conv' = AlignCopy(Put(conv1, UNION {d[i].put : i \in DOMAIN ver}), ver)
     /\ hid'  = AlignCopy(Put(hid1, vh.put), ver)
     /\ out' = [t \in DOMAIN dwin |-> [tok |-> vh.toks[t], win |-> dwin[t], hs2 |-> vh.hs2[t]]]
               \o [t \in DOMAIN p.win |-> [tok |-> Toks(pre)[t], win |-> p.win[t], hs2 |-> ph.hs2[t]]]
     /\ len' = [s \in Seqs |-> len[s] + Cardinality({t \in DOMAIN Toks(pre) : Toks(pre)[t][1] = s})
                 + IF s \in Verified(ver) THEN RowOf(ver, s).ok ELSE 0]
     /\ sched' = [s \in Seqs |-> IF cfg.mode = "all" /\ s \in Verified(ver) THEN RowOf(ver, s).col ELSE sched[s]]
     /\ acc' = [s \in Seqs |-> IF s \in Verified(ver) THEN RowOf(ver, s).ok ELSE acc[s]]
     /\ home' = [s \in Seqs |-> IF s \in Verified(ver) THEN Left(RowOf(ver, s)) ELSE home[s]]
     /\ lost' = lost \cup {s \in Verified(ver) : ReadCol(RowOf(ver, s)) # home[s]}
     /\ UNCHANGED <<cfg, tab>>

----------------------------------------------------------------------------
\* The engine.

FreeBlocks == (1 .. NumSlots) \ UNION {Range(tab[s]) : s \in Seqs}

\* A sequence gets free blocks, with whatever their last owner left in them; sched is the
\* block in which its prompt will end.
Admit(s) ==
  /\ tab[s] = <<>>
  /\ Cardinality(FreeBlocks) >= Width
  /\ tab' = [tab EXCEPT ![s] = SubSeq(SetToSeq(FreeBlocks), 1, Width)]
  /\ \E c \in 0 .. (IF cfg.mode = "all" /\ ~cfg.keeps THEN MaxBlock ELSE 0) : sched' = [sched EXCEPT ![s] = c]
  /\ out' = <<>>
  /\ UNCHANGED <<cfg, len, conv, hid, acc, home, lost>>

\* It finishes, or is preempted and starts over.
Release(s) ==
  /\ tab[s] # <<>>
  /\ tab' = [tab EXCEPT ![s] = <<>>] /\ len' = [len EXCEPT ![s] = 0]
  /\ sched' = [sched EXCEPT ![s] = 0] /\ acc' = [acc EXCEPT ![s] = 0]
  /\ home' = [home EXCEPT ![s] = 0] /\ lost' = lost \ {s}
  /\ out' = <<>>
  /\ UNCHANGED <<cfg, conv, hid>>

\* A batch: some running sequences in any order, the first nd of them decode.
\* A sequence that has been verified is not prefilled again.
Fits(s, n) == tab[s] # <<>> /\ len[s] + n <= MaxLen
Orders == {q \in UNION {[1 .. n -> Seqs] : n \in 1 .. Cardinality(Seqs)} : IsInjective(q)}
Prefills(q) == {p \in [DOMAIN q -> [seq : Range(q), n : 1 .. MaxChunk]] :
                  \A i \in DOMAIN q : p[i].seq = q[i] /\ Fits(q[i], p[i].n) /\ acc[q[i]] = 0}
Asked(s) == {v \in [seq : {s}, n : 1 .. P, ok : 1 .. P, col : 0 .. MaxBlock, cwin : 1 .. P, hwin : 1 .. P] :
               /\ v.ok <= v.n /\ Fits(s, v.n)
               /\ cfg.mode = "all" => v.col >= sched[s]
               /\ cfg.mode = "align" => v.col = 0
               /\ \A w \in {v.cwin, v.hwin} : w <= v.n /\ WriteCol(v, w) = WriteCol(v, v.n)}
Verifies(q) == {ver \in [DOMAIN q -> UNION {Asked(s) : s \in Range(q)}] : \A i \in DOMAIN q : ver[i].seq = q[i]}
Padded(pads) == [1 .. pads -> [seq : {Pad}, n : 1 .. P, ok : {1}, col : {0}, cwin : {1}, hwin : {1}]]

RunPlain ==
  /\ cfg.mode = "plain"
  /\ \E q \in Orders : \E nd \in 0 .. Len(q) : \E pads \in 0 .. MaxPads :
       LET dec == SubSeq(q, 1, nd) IN
       /\ \A i \in 1 .. nd : Fits(q[i], 1) /\ len[q[i]] > 0
       /\ pads > 0 => nd = Len(q)
       /\ \E pre \in Prefills(SubSeq(q, nd + 1, Len(q))) :
            PlainPass(dec \o [i \in 1 .. pads |-> Pad], pre)

RunVerify ==
  /\ cfg.mode # "plain"
  /\ \E q \in Orders : \E nd \in 0 .. Len(q) : \E pads \in 0 .. MaxPads :
       /\ \A i \in 1 .. nd : Fits(q[i], 1) /\ len[q[i]] > 0
       /\ pads > 0 => nd = Len(q)
       /\ \E ver \in Verifies(SubSeq(q, 1, nd)), z \in Padded(pads), pre \in Prefills(SubSeq(q, nd + 1, Len(q))) :
            VerifyPass(ver \o z, pre)

Next == RunPlain \/ RunVerify \/ \E s \in Seqs : Admit(s) \/ Release(s)

Spec == Init /\ [][Next]_vars

----------------------------------------------------------------------------
Token == {Tok(s, i) : s \in Seqs, i \in 0 .. MaxLen - 1} \cup
         {Draft(s, i) : s \in Seqs, i \in 0 .. MaxLen - 1} \cup {Zero}

\* Types of all variables; no two sequences share a block.
TypeOK ==
  /\ cfg \in [mode : Modes, hip : SUBSET {"decode", "prefill"}, keeps : BOOLEAN]
  /\ \A s \in Seqs : tab[s] \in Seq(1 .. NumSlots) /\ IsInjective(tab[s])
  /\ \A s, t \in Seqs : s # t => Range(tab[s]) \cap Range(tab[t]) = {}
  /\ len \in [Seqs -> 0 .. MaxLen]
  /\ conv \in [0 .. NumSlots -> [1 .. TP -> Token]]
  /\ hid \in [0 .. NumSlots -> Token]
  /\ sched \in [Seqs -> 0 .. MaxBlock] /\ acc \in [Seqs -> 0 .. P]
  /\ home \in [Seqs -> -1 .. MaxBlock + NumSpec] /\ lost \subseteq Seqs
  /\ \A r \in DOMAIN out : /\ out[r].tok \in Token \cup {Junk} /\ out[r].hs2 \in Token \cup {Junk}
                           /\ out[r].win \in [1 .. TP + 1 -> Token \cup {Junk}]

\* The column home of a sequence holds the last TP tokens it has taken and the hidden state
\* of the last one: forward_cuda and _decode_verify_spec never lose, repeat or mix up a
\* token, however prompts are chunked, batches mixed, drafts rejected and blocks reused,
\* until a pass goes on from another column.
CacheFollows ==
  \A s \in Seqs \ lost : len[s] > 0 /\ home[s] # -1 =>
    LET b == tab[s][home[s] + 1] IN
    conv[b] = Exact!Before(s, len[s]) /\ hid[b] = Tok(s, len[s] - 1)

\* No pass goes on from another column where there is no speculation, where the engine makes
\* the copies of "align" mode, and where it delivers the pointers of "all" mode and prompts
\* end in the first block (cca.py:887-901, 972-976).
RollbackWorks == cfg.keeps => lost = {}

\* "The next step reads the state ending at the last accepted token" (cca.py:887-890),
\* stated of the fallback to column j, which cannot know the last accepted token.
NextStepReadsAccepted == cfg.mode = "align" => lost = {}

\* Padding rows of a captured batch (PAD_SLOT_ID) leave block 0 zero and their tokens in no
\* block, and those of a plain decode are answered with zeros.
PaddingIsInert ==
  /\ conv[0] = Zeros /\ hid[0] = Zero
  /\ \A b \in 0 .. NumSlots : hid[b] # Junk /\ \A c \in 1 .. TP : conv[b][c] # Junk
  /\ \A r \in DOMAIN out : out[r].tok = Zero =>
       out[r].hs2 = Zero /\ \A c \in 1 .. TP + 1 : out[r].win[c] = Zero

\* Every accepted token is answered as if its sequence had been convolved alone and in one
\* piece, until a pass goes on from a wrong column: forward_cuda implements CausalConv.
ExactAnswers == Exact!Spec
=============================================================================
