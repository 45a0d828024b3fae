----------------------------- MODULE Selection -----------------------------
(***************************************************************************)
(* What one token step selects by score: the experts of a layer, by the    *)
(* scout's partial selection sort, and the next token, by the sampler's    *)
(* repetition penalty, candidate heap and top-p / top-k walk.              *)
(*                                                                         *)
(* Scores are small integers and stand for the probabilities the code      *)
(* computes from them; sums are exact.  Arrays start at 1 (a heap's        *)
(* children of i are 2i and 2i+1), token and expert ids at 0.              *)
(***************************************************************************)
EXTENDS Integers, Sequences, FiniteSets, FiniteSetsExt, Functions

CONSTANTS NumExperts,   \* max_experts_per_layer
          TopK,         \* cfg.moe_top_k
          SpecWidth,    \* P.spec_width
          RankWidth,    \* entries of the rank buffers
          VocabSize,    \* cfg.vocab_size
          Capacity,     \* size of the sampler's candidate heap
          Window,       \* penalty_last_n
          MaxHistory,   \* longest token history
          Exempt,       \* tokens never penalised
          MaxScore,     \* scores are 0 .. MaxScore
          TopPs         \* values of top_p, in percent

ASSUME SelectionAssumption ==
    /\ NumExperts \in Nat \ {0} /\ TopK \in Nat \ {0} /\ SpecWidth \in Nat
    /\ RankWidth \in Nat /\ TopK <= RankWidth
    /\ VocabSize \in Nat \ {0} /\ Capacity \in 1..VocabSize
    /\ Window \in Nat \ {0} /\ MaxHistory \in Nat
    /\ MaxScore \in Nat \ {0} /\ TopPs \subseteq 1..100

VARIABLES
    pc,        \* what the step is doing
    score,     \* the scores it selects by
    list,      \* the array being permuted: expert ranks, or the candidate heap
    pos,       \* the loop's index: ranks done, history entry, token, walked prefix
    at,        \* the heap entry being sifted down; 0 when none is
    heapify,   \* the heap is being built: entries before this one are not sifted yet
    hist,      \* token_history
    penalty,   \* how often each token's score has been penalised
    req        \* the request's top_p and top_k

vars == <<pc, score, list, pos, at, heapify, hist, penalty, req>>

Experts == 0..NumExperts - 1
Tokens == 0..VocabSize - 1
Scores == 0..MaxScore

NoRequest == [topP |-> 0, topK |-> 0]

Swap(s, i, j) == [s EXCEPT ![i] = s[j], ![j] = s[i]]

----------------------------------------------------------------------------
(* The router's ranking: compute_top_k *)

\* Ranks asked for: the layer's experts and the bet on the next token's.
Want == Min({TopK + SpecWidth, RankWidth, NumExperts})

BeginRanks ==
    /\ pc = "begin"
    /\ \E s \in [Experts -> Scores] : score' = s
    /\ list' = [i \in 1..NumExperts |-> i - 1]
    /\ pos' = 0
    /\ pc' = "rank"
    /\ UNCHANGED <<at, heapify, hist, penalty, req>>

\* Mutant: the search starts after the rank's own entry.
BestOfRest(s) ==
    CHOOSE i \in s..NumExperts :
        /\ s < NumExperts => i > s
        /\ \A j \in (s + 1)..NumExperts : score[list[j]] <= score[list[i]]

\* The first entry with the best score from rank s on: what the inner scan over
\* the ranks after s finds.
Best(s) ==
    CHOOSE i \in s..NumExperts :
        \A j \in s..NumExperts :
            /\ score[list[j]] <= score[list[i]]
            /\ score[list[j]] = score[list[i]] => i <= j

SelectRank ==
    /\ pc = "rank" /\ pos < Want
    /\ list' = Swap(list, pos + 1, Best(pos + 1))
    /\ pos' = pos + 1
    /\ UNCHANGED <<pc, score, at, heapify, hist, penalty, req>>

----------------------------------------------------------------------------
(* Repetition penalty *)

\* The history that counts starts after the first of these entries.
WindowStart == Max({0, Len(hist) - Window})

BeginPenalty ==
    /\ pc = "rank" /\ pos = Want
    /\ \E n \in 0..MaxHistory : \E h \in [1..n -> Tokens] :
        /\ hist' = h
        /\ pos' = Max({0, n - Window})
    /\ penalty' = [t \in Tokens |-> 0]
    /\ pc' = "penalty"
    /\ score' = <<>>
    /\ list' = <<>>
    /\ UNCHANGED <<at, heapify, req>>

\* Mutant: the whole history is searched for an earlier occurrence.
SeenEver(i) == \E j \in 1..(i - 1) : hist[j] = hist[i]

\* An earlier entry of the window is the same token.
Seen(i) == \E j \in (WindowStart + 1)..(i - 1) : hist[j] = hist[i]

\* One entry of the window.  The loop runs if the penalty is not 1; by 1, an entry
\* is penalised with no effect on its score.
PenaliseNext ==
    /\ pc = "penalty" /\ pos < Len(hist)
    /\ pos' = pos + 1
    /\ penalty' = IF hist[pos + 1] \in Exempt \/ Seen(pos + 1)
                  THEN penalty
                  ELSE [penalty EXCEPT ![hist[pos + 1]] = @ + 1]
    /\ UNCHANGED <<pc, score, list, at, heapify, hist, req>>

----------------------------------------------------------------------------
(* Candidates: the heap of the best Capacity tokens *)

\* What the penalty and the temperature make of the scores is any assignment
\* in which the best token has one at all.
BeginScan ==
    /\ pc = "penalty" /\ pos = Len(hist)
    /\ \E s \in [Tokens -> Scores] : s # [t \in Tokens |-> 0] /\ score' = s
    /\ list' = <<>>
    /\ pos' = 0
    /\ pc' = "scan"
    /\ hist' = <<>>
    /\ penalty' = <<>>
    /\ UNCHANGED <<at, heapify, req>>

P(i) == score[list[i]]

\* Mutant: building the heap starts one entry too low.
FillShort ==
    /\ pc = "scan" /\ at = 0 /\ pos < VocabSize
    /\ Len(list) < Capacity
    /\ list' = Append(list, pos)
    /\ pos' = pos + 1
    /\ at' = IF Len(list) + 1 = Capacity THEN (Capacity \div 2) - 1 ELSE 0
    /\ heapify' = at'
    /\ UNCHANGED <<pc, score, hist, penalty, req>>

Fill ==
    /\ pc = "scan" /\ at = 0 /\ pos < VocabSize
    /\ Len(list) < Capacity
    /\ list' = Append(list, pos)
    /\ pos' = pos + 1
    /\ at' = IF Len(list) + 1 = Capacity THEN Capacity \div 2 ELSE 0
    /\ heapify' = at'
    /\ UNCHANGED <<pc, score, hist, penalty, req>>

Replace ==
    /\ pc = "scan" /\ at = 0 /\ pos < VocabSize
    /\ Len(list) = Capacity
    /\ score[pos] > P(1)
    /\ list' = [list EXCEPT ![1] = pos]
    /\ pos' = pos + 1
    /\ at' = 1
    /\ UNCHANGED <<pc, score, heapify, hist, penalty, req>>

PassOver ==
    /\ pc = "scan" /\ at = 0 /\ pos < VocabSize
    /\ Len(list) = Capacity
    /\ score[pos] <= P(1)
    /\ pos' = pos + 1
    /\ UNCHANGED <<pc, score, list, at, heapify, hist, penalty, req>>

\* The smallest of an entry and its children, the entry itself if it is no larger.
Smallest(i) ==
    LET l == 2 * i
        m == IF l <= Capacity /\ P(l) < P(i) THEN l ELSE i
    IN  IF l + 1 <= Capacity /\ P(l + 1) < P(m) THEN l + 1 ELSE m

SiftDown ==
    /\ pc = "scan" /\ at # 0 /\ Smallest(at) # at
    /\ list' = Swap(list, at, Smallest(at))
    /\ at' = Smallest(at)
    /\ UNCHANGED <<pc, score, pos, heapify, hist, penalty, req>>

SiftEnds ==
    /\ pc = "scan" /\ at # 0 /\ Smallest(at) = at
    /\ heapify' = Max({0, heapify - 1})
    /\ at' = heapify'
    /\ UNCHANGED <<pc, score, list, pos, hist, penalty, req>>

----------------------------------------------------------------------------
(* The choice *)

\* std::sort leaves equal candidates in any order.
Descending ==
    {s \in [1..Len(list) -> Range(list)] :
        /\ Range(s) = Range(list)
        /\ \A i \in 1..(Len(list) - 1) : score[s[i + 1]] <= score[s[i]]}

Sort ==
    /\ pc = "scan" /\ at = 0 /\ pos = VocabSize
    /\ list' \in Descending
    /\ pos' = 0
    /\ pc' = "walk"
    /\ UNCHANGED <<score, at, heapify, hist, penalty, req>>

Sum(S) == SumFunctionOnSet(score, S)
Walked == {list[i] : i \in 1..pos}

\* The tokens of S hold top_p of all.
Reaches(S, topP) == 100 * Sum(S) >= topP * Sum(Tokens)

\* Mutant: the walk stops before the candidate that reaches top_p.
EnoughNext(n, topP, topK) ==
    \/ n < Len(list) /\ Reaches({list[i] : i \in 1..(n + 1)}, topP)
    \/ n >= topK

\* The prefix after n candidates ends the walk.
Enough(n, topP, topK) ==
    \/ Reaches({list[i] : i \in 1..n}, topP)
    \/ n >= topK

\* The walk takes one candidate at least.
Cutoff(topP, topK) ==
    CHOOSE n \in 1..Len(list) :
        /\ n = Len(list) \/ Enough(n, topP, topK)
        /\ \A m \in 1..(n - 1) : ~Enough(m, topP, topK)

\* The prefix the token is drawn from; parse_gen caps top_k by the heap's size.
Walk ==
    /\ pc = "walk"
    /\ \E topP \in TopPs, topK \in 0..Capacity :
        /\ req' = [topP |-> topP, topK |-> topK]
        /\ pos' = Cutoff(topP, topK)
    /\ pc' = "draw"
    /\ UNCHANGED <<score, list, at, heapify, hist, penalty>>

\* The next token step begins.
NextStep ==
    /\ pc' = "begin"
    /\ score' = <<>>
    /\ list' = <<>>
    /\ pos' = 0
    /\ hist' = <<>>
    /\ penalty' = <<>>
    /\ req' = NoRequest
    /\ UNCHANGED <<at, heapify>>

\* Without a temperature the best token is taken and the heap not looked at.
Greedy == pc = "penalty" /\ pos = Len(hist) /\ NextStep

Draw == pc = "draw" /\ NextStep

Init ==
    /\ pc = "begin"
    /\ score = <<>>
    /\ list = <<>>
    /\ pos = 0
    /\ at = 0
    /\ heapify = 0
    /\ hist = <<>>
    /\ penalty = <<>>
    /\ req = NoRequest

Next ==
    \/ BeginRanks \/ SelectRank
    \/ BeginPenalty \/ PenaliseNext
    \/ BeginScan \/ Fill \/ Replace \/ PassOver \/ SiftDown \/ SiftEnds
    \/ Sort \/ Walk \/ Draw \/ Greedy

Spec == Init /\ [][Next]_vars

----------------------------------------------------------------------------
(* Properties *)

\* Whatever the ties, the ranks written are distinct experts, in descending
\* order of score, and no other expert scores better: the first TopK of a ranking
\* widened by the speculative bet are the experts a direct ranking routes to.
RanksExact ==
    pc = "rank" =>
        /\ IsInjective(list)
        /\ \A i \in 1..pos : \A j \in i..NumExperts : P(j) <= P(i)

\* A token of the last Window entries of the history is penalised exactly once,
\* unless it is exempt; no other is.
PenalisedOnce ==
    pc = "penalty" /\ pos = Len(hist) =>
        \A t \in Tokens :
            penalty[t] = IF t \notin Exempt /\ \E i \in (WindowStart + 1)..Len(hist) : hist[i] = t
                         THEN 1 ELSE 0

\* Between two tokens the full heap holds the best tokens scanned, each once, and
\* its root is the one to give up.
HeapKeepsBest ==
    pc = "scan" /\ at = 0 =>
        /\ IsInjective(list)
        /\ Len(list) = Min({pos, Capacity})
        /\ \A i \in 1..Len(list) : list[i] < pos /\ (Len(list) = Capacity => P(1) <= P(i))
        /\ \A t \in 0..(pos - 1) : t \in Range(list) \/ \A i \in 1..Len(list) : score[t] <= P(i)

\* The token is drawn from the smallest set of most probable tokens that reaches
\* top_p, or from the top_k most probable if that set is larger: what a sort of
\* the whole vocabulary would give, from a heap that never holds it.
NucleusExact ==
    pc = "draw" =>
        /\ \A t \in Tokens \ Walked, u \in Walked : score[t] <= score[u]
        /\ Cardinality(Walked) = pos /\ pos <= Max({1, req.topK})
        /\ pos = Max({1, req.topK}) \/ Reaches(Walked, req.topP)
        /\ pos > 1 => ~Reaches(Walked \ {list[pos]}, req.topP)
=============================================================================
