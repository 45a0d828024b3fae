------------------------------ MODULE Session ------------------------------
(***************************************************************************)
(* The request loop of src/src/main.cpp and the key/value ring it keeps    *)
(* from request to request: which tokens have a row in the ring, at which  *)
(* RoPE position, and what each token attended to when its row was made.   *)
(*                                                                         *)
(* A request is one line of standard input (or the command line, once).    *)
(* Its prompt suffix goes through prefill::run_layer_major in chunks, all  *)
(* but the last token; the rest goes through decode::run_token_step, one   *)
(* token a step.                                                           *)
(*                                                                         *)
(* Abstractions.  All layers treat the ring alike, so there is one layer;  *)
(* a row's key and value are the token and position they are computed      *)
(* from; the model's arithmetic, and so the sampled token, is a free       *)
(* choice; a line that parse_gen rejects is one case whatever is wrong     *)
(* with it; sampling overrides and telemetry are left out.                 *)
(***************************************************************************)
EXTENDS Naturals, Sequences, FiniteSets

CONSTANTS
    Tokens,         \* the vocabulary
    Eos,            \* eos_ids
    FirstToken,     \* token 0: next_heavy_token at the start of a request
    AttnCtx,        \* ATTN_CTX, rows of the ring
    StreamCap,      \* STREAM_CAP, tokens of the stored stream
    SuffixCap,      \* 4096, the longest prompt suffix
    Chunk,          \* CHUNK, tokens of one prefill chunk
    MaxBudget       \* the largest max_tokens a request may ask for

ASSUME SizeAssumption ==
    /\ AttnCtx \in Nat \ {0} /\ Chunk \in 1 .. AttnCtx
    /\ SuffixCap \in Nat \ {0} /\ StreamCap \in Nat /\ SuffixCap <= StreamCap
    /\ MaxBudget \in Nat \ {0}
ASSUME TokenAssumption == FirstToken \in Tokens /\ Eos \subseteq Tokens

VARIABLES
    serve,          \* --serve: requests from standard input
    oneShotDone,    \* one_shot_done
    stream,         \* stream_tokens[0 .. stream_len)
    ctxPos,         \* ctx_pos, the ring row written next
    ctxFill,        \* ctx_fill, the rows in use
    kv,             \* the ring: what each row was computed from
    pc,             \* where the loop is
    prompt,         \* prompt_tokens[0 .. prompt_len)
    base,           \* stream_base
    n,              \* tokens of this request processed: the loop index
    budget,         \* req_max_tokens
    nextTok,        \* next_heavy_token
    hitEos,         \* hit_eos
    emitted,        \* tokens printed for this request
    said            \* history: what the client knows of the conversation

ringVars == <<ctxPos, ctxFill, kv>>
reqVars  == <<prompt, base, n, budget, nextTok, hitEos, emitted>>
vars     == <<serve, oneShotDone, stream, ringVars, pc, reqVars, said>>

NoRow == [tok |-> FirstToken, pos |-> 0, seen |-> {}, by |-> "none"]

Least(a, b) == IF a < b THEN a ELSE b

SeqUpTo(k) == UNION {[1 .. m -> Tokens] : m \in 0 .. k}

Init ==
    /\ serve \in BOOLEAN /\ oneShotDone = FALSE
    /\ stream = <<>>
    /\ ctxPos = 0 /\ ctxFill = 0
    /\ kv = [r \in 0 .. AttnCtx - 1 |-> NoRow]
    /\ pc = "read"
    /\ prompt = <<>> /\ base = 0 /\ n = 0 /\ budget = 0
    /\ nextTok = FirstToken /\ hitEos = FALSE /\ emitted = 0
    /\ said = <<>>

-----------------------------------------------------------------------------
(***************************************************************************)
(* Reading a request.                                                      *)
(***************************************************************************)
\* End of input, or the one request of the command line is done.
Stop ==
    /\ pc = "read"
    /\ serve \/ oneShotDone
    /\ pc' = "exited"
    /\ UNCHANGED <<serve, oneShotDone, stream, ringVars, reqVars, said>>

Forget ==
    /\ ctxPos' = 0 /\ ctxFill' = 0
    /\ stream' = <<>>
    /\ said' = <<>>

\* RESET: the rows stay in memory, the counters go back to zero.
Reset ==
    /\ pc = "read" /\ serve
    /\ Forget
    /\ UNCHANGED <<serve, oneShotDone, kv, pc, reqVars>>

\* Every token of the stored stream is the request's too: the longest common
\* prefix is the whole stream.
Extends(full) ==
    Len(full) >= Len(stream) /\ SubSeq(full, 1, Len(stream)) = stream

\* The request's tokens after the first `from`, whose rows exist, are its
\* prompt; they join the stream at once.
Start(full, from, max) ==
    /\ prompt' = SubSeq(full, from + 1, Len(full))
    /\ stream' = full
    /\ base' = from
    /\ n' = 0 /\ budget' = max
    /\ nextTok' = FirstToken /\ hitEos' = FALSE /\ emitted' = 0
    /\ said' = full
    /\ pc' = IF Len(full) - from > 1 THEN "prefill" ELSE "step"

\* GEN whose tokens extend the stream: the ring is kept, the suffix is new.
GenContinue(full, max) ==
    /\ pc = "read" /\ serve
    /\ Extends(full)
    /\ Len(full) - Len(stream) \in 1 .. SuffixCap
    /\ Start(full, Len(stream), max)
    /\ UNCHANGED <<serve, oneShotDone, ringVars>>

\* GEN that departs from the stream: full reset, full prefill.
GenReset(full, max) ==
    /\ pc = "read" /\ serve
    /\ ~Extends(full)
    /\ Len(full) <= SuffixCap
    /\ ctxPos' = 0 /\ ctxFill' = 0
    /\ Start(full, 0, max)
    /\ UNCHANGED <<serve, oneShotDone, kv>>

\* GEN with suffix_too_long after the reset: the conversation is gone.
GenTooLong(full) ==
    /\ pc = "read" /\ serve
    /\ ~Extends(full)
    /\ Len(full) > SuffixCap
    /\ Forget
    /\ UNCHANGED <<serve, oneShotDone, kv, pc, reqVars>>

\* Answered with an error and without effect: an unknown command, a GEN that
\* parse_gen rejects, empty_suffix, suffix_too_long without a reset.
Rejected ==
    /\ pc = "read" /\ serve
    /\ UNCHANGED vars

\* The command line's prompt, read once; it may be empty, as may the budget.
OneShot(full, max) ==
    /\ pc = "read" /\ ~serve /\ ~oneShotDone
    /\ oneShotDone' = TRUE
    /\ Len(full) <= SuffixCap
    /\ Start(full, 0, max)
    /\ UNCHANGED <<serve, ringVars>>

-----------------------------------------------------------------------------
(***************************************************************************)
(* Processing tokens.                                                      *)
(***************************************************************************)
Slot(i)  == (ctxPos + i) % AttnCtx

\* Mutant: a token's window leaves its own row out once the ring has history.
ValidShort(i) == Least(ctxFill + i, AttnCtx)

\* The rows token i of a chunk reads: its own and the `valid - 1` before it.
Valid(i)  == Least(ctxFill + i + 1, AttnCtx)
Window(i) == {(Slot(i) + AttnCtx - j) % AttnCtx : j \in 0 .. Valid(i) - 1}

\* The ring after the rows of tokens toks, at positions from `first` on, are
\* written; only then does any of them read its window.
WithRows(toks, first, by) ==
    LET count == Len(toks)
        written == [r \in 0 .. AttnCtx - 1 |->
            IF \E i \in 0 .. count - 1 : Slot(i) = r
            THEN LET i == CHOOSE i \in 0 .. count - 1 : Slot(i) = r
                 IN [tok |-> toks[i + 1], pos |-> first + i, seen |-> {}, by |-> by]
            ELSE kv[r]]
        Seen(i) == {written[r].pos : r \in Window(i)}
    IN [r \in 0 .. AttnCtx - 1 |->
            IF \E i \in 0 .. count - 1 : Slot(i) = r
            THEN [written[r] EXCEPT !.seen = Seen(written[r].pos - first)]
            ELSE kv[r]]

Advance(count) ==
    /\ ctxPos'  = (ctxPos + count) % AttnCtx
    /\ ctxFill' = Least(ctxFill + count, AttnCtx)
    /\ n' = n + count

ChunkLen == Least(Len(prompt) - 1 - n, Chunk)

\* Mutant: the chunk loop does not advance.
PrefillChunkStuck ==
    /\ pc = "prefill" /\ n < Len(prompt) - 1
    /\ kv' = WithRows(SubSeq(prompt, n + 1, n + ChunkLen), base + n, "prefill")
    /\ ctxPos'  = (ctxPos + ChunkLen) % AttnCtx
    /\ ctxFill' = Least(ctxFill + ChunkLen, AttnCtx)
    /\ UNCHANGED <<serve, oneShotDone, stream, pc, reqVars, said>>

\* One chunk of run_layer_major.
PrefillChunk ==
    /\ pc = "prefill" /\ n < Len(prompt) - 1
    /\ kv' = WithRows(SubSeq(prompt, n + 1, n + ChunkLen), base + n, "prefill")
    /\ Advance(ChunkLen)
    /\ UNCHANGED <<serve, oneShotDone, stream, pc, prompt, base, budget, nextTok,
                   hitEos, emitted, said>>

PrefillDone ==
    /\ pc = "prefill" /\ n = Len(prompt) - 1
    /\ pc' = "step"
    /\ UNCHANGED <<serve, oneShotDone, stream, ringVars, reqVars, said>>

IsPrompt == n < Len(prompt)

\* Mutant: the last prompt token is counted as a step of its own.
TotalStepsLong == Len(prompt) + budget

TotalSteps == Len(prompt) + budget - (IF prompt = <<>> THEN 0 ELSE 1)

\* Mutant: position of the token within the request, not within the stream.
StepPosRequest == n

\* The RoPE position of the token processed next.
StepPos == base + n

\* Mutant: generated tokens are not stored.
JoinsNot(tok) == stream' = stream

Joins(tok) == stream' = IF Len(stream) < StreamCap THEN Append(stream, tok) ELSE stream

\* One token through run_token_step; then the next one is sampled: EOS ends
\* the request, any other is printed.  A generated token joins the stream in
\* the step that processes it.
TokenStep(best) ==
    LET tok == IF IsPrompt THEN prompt[n + 1] ELSE nextTok IN
    /\ pc = "step" /\ n < TotalSteps
    /\ IF IsPrompt THEN UNCHANGED stream ELSE Joins(tok)
    /\ kv' = WithRows(<<tok>>, StepPos, "decode")
    /\ Advance(1)
    /\ nextTok' = best
    /\ IF best \in Eos
       THEN /\ hitEos' = TRUE
            /\ pc' = "epilogue"
            /\ UNCHANGED <<emitted, said>>
       ELSE /\ emitted' = emitted + 1
            /\ said' = Append(said, best)
            /\ UNCHANGED <<hitEos, pc>>
    /\ UNCHANGED <<serve, oneShotDone, prompt, base, budget>>

StepsDone ==
    /\ pc = "step" /\ n = TotalSteps
    /\ pc' = "epilogue"
    /\ UNCHANGED <<serve, oneShotDone, stream, ringVars, reqVars, said>>

\* fin=stop or fin=length, <<DONE>>; the ring and the stream stay.
Epilogue ==
    /\ pc = "epilogue"
    /\ pc' = "read"
    /\ UNCHANGED <<serve, oneShotDone, stream, ringVars, reqVars, said>>

Exited == pc = "exited" /\ UNCHANGED vars

-----------------------------------------------------------------------------
Request ==
    \/ \E full \in SeqUpTo(StreamCap) \ {<<>>}, max \in 1 .. MaxBudget :
            GenContinue(full, max) \/ GenReset(full, max)
    \/ \E full \in SeqUpTo(StreamCap) \ {<<>>} : GenTooLong(full)
    \/ \E full \in SeqUpTo(SuffixCap), max \in 0 .. MaxBudget : OneShot(full, max)
    \/ Reset \/ Rejected \/ Stop

Work ==
    \/ PrefillChunk \/ PrefillDone
    \/ \E best \in Tokens : TokenStep(best)
    \/ StepsDone \/ Epilogue

Next == Request \/ Work \/ Exited

\* A request that has begun is worked on; when the next line arrives, if ever,
\* is up to the client.
Spec     == Init /\ [][Next]_vars
FairSpec == Spec /\ WF_vars(Work)

-----------------------------------------------------------------------------
(***************************************************************************)
(* Properties.                                                             *)
(***************************************************************************)
Rows == [tok : Tokens, pos : Nat, seen : SUBSET Nat, by : {"none", "prefill", "decode"}]

\* The types of every variable, with the capacities of the two arrays.
TypeOK ==
    /\ serve \in BOOLEAN /\ oneShotDone \in BOOLEAN
    /\ stream \in Seq(Tokens) /\ Len(stream) <= StreamCap
    /\ ctxPos \in 0 .. AttnCtx - 1 /\ ctxFill \in 0 .. AttnCtx
    /\ kv \in [0 .. AttnCtx - 1 -> Rows]
    /\ pc \in {"read", "prefill", "step", "epilogue", "exited"}
    /\ prompt \in Seq(Tokens) /\ Len(prompt) <= SuffixCap
    /\ base \in Nat /\ n \in Nat /\ budget \in 0 .. MaxBudget
    /\ nextTok \in Tokens /\ hitEos \in BOOLEAN /\ emitted \in 0 .. MaxBudget
    /\ said \in Seq(Tokens)

\* How many tokens of the conversation have a row, or had one.
Processed == IF pc \in {"prefill", "step", "epilogue"} THEN base + n ELSE Len(stream)

\* The i-th newest row in use, i from 0.
Row(i) == kv[(ctxPos + AttnCtx - 1 - i) % AttnCtx]

\* The stream is full: the tokens generated from here on are not stored, and
\* the next request resets the ring or is refused.
Saturated == Len(stream) = StreamCap

\* The rows in use are exactly those of the last tokens processed, each at its
\* own position of the conversation: no row is missing, stale (from before a
\* reset) or shifted, in a request or between requests.
KvHoldsStream ==
    pc # "exited" /\ (pc = "read" => serve /\ ~Saturated) =>
        /\ ctxFill = Least(Processed, AttnCtx)
        /\ \A i \in 0 .. ctxFill - 1 :
              LET p == Processed - 1 - i IN
              /\ Row(i).pos = p
              /\ p < Len(stream) => Row(i).tok = stream[p + 1]

\* What causal attention over the last AttnCtx positions reads.
Causal(row) == row.seen = {q \in 0 .. row.pos : row.pos < q + AttnCtx}

InUse == {Row(i) : i \in 0 .. ctxFill - 1}

\* A token processed by decode, at any position, and one processed by prefill
\* while the ring has not wrapped, attended to its own past, all of it that the
\* ring can hold, and to nothing else.
CausalBeforeWrap ==
    \A row \in InUse :
        row.by = "decode" \/ row.pos + Chunk <= AttnCtx => Causal(row)

\* Every token attended to its own past only.
CausalAttention == \A row \in InUse : Causal(row)

\* Between requests the stored stream is what the client knows of the
\* conversation, except for a last token that was printed and not processed: a
\* client that sends its transcript and a new message continues the stream and
\* is never made to prefill the conversation again.
HistoryIsPrefix ==
    pc = "read" /\ serve =>
        /\ Len(stream) <= Len(said)
        /\ stream = SubSeq(said, 1, Len(stream))
        /\ Saturated \/ Len(said) <= Len(stream) + 1

\* A request that ends without EOS has printed exactly its budget of tokens
\* ("length"), one that ends with EOS less than that ("stop").
BudgetSpent ==
    pc = "epilogue" => IF hitEos THEN emitted < budget ELSE emitted = budget

\* Every request that begins is answered.
RequestEnds == pc \in {"prefill", "step", "epilogue"} ~> pc \in {"read", "exited"}
=============================================================================
