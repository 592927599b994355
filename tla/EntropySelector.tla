--------------------------- MODULE EntropySelector ---------------------------
(***************************************************************************)
(* The greedy choice of the chunks of a string to hash                     *)
(* (include/entropyEstimation/entropy_estimators.hh).  Each round tries    *)
(* every position that is not in use and keeps the one under which the     *)
(* sample has the highest Renyi entropy.  One step is one candidate or one *)
(* round's end.                                                            *)
(*                                                                         *)
(* The entropy -log2(C / (N * (N - 1))) is represented by C, the number of *)
(* ordered pairs of the N strings with equal partial strings: a higher     *)
(* entropy is a smaller C, and the entropy 0.0 is N * (N - 1).             *)
(*                                                                         *)
(* Memory around a string is read: its terminator is 0, and other bytes    *)
(* outside it are arbitrary whenever a position is evaluated.              *)
(***************************************************************************)
EXTENDS Integers, Sequences, FiniteSets, FiniteSetsExt, Functions

CONSTANTS Samples,   \* sizeof(entropy_chunk_t), inputVec and validationVec
          K,         \* numPositions
          Modes,     \* of the two selectors, those that are called
          Desired,   \* desiredEntropy, as a number of pairs
          JunkBytes  \* the bytes that may lie around a string

ASSUME EntropySelectorAssumption ==
    /\ K \in Nat /\ Desired \in Nat
    /\ \A s \in Samples :
           /\ s[1] \in Nat \ {0}
           /\ s[2] \in Seq(Seq(Nat)) /\ s[2] # <<>>
           /\ s[3] \in Seq(Seq(Nat))
    /\ Modes \subseteq {"StopK", "StopEntropy"}
    /\ JunkBytes # {}

VARIABLES stage,         \* "enter", "round", "choose", "done" or "failed"
          mode, chunk, input, validation,
          positions,     \* returnPositions
          entropies, entropy,
          fixedLength,
          round,         \* i of greedyRenyiSelectorStopK
          candidate, best  \* i, and <<bestPosition, bestEntropy>> of chooseBestPositionRenyi

callVars == <<mode, chunk, input, validation>>
selectorVars == <<stage, mode, chunk, input, validation, positions, entropies, entropy,
                 fixedLength, round, candidate, best>>

maxLength == Max({Len(s) : s \in Range(input) \cup Range(validation)})

Chunks == maxLength \div chunk

Pairs(V) == Len(V) * (Len(V) - 1)

Junk(V) == [DOMAIN V -> [0..(chunk - 1) -> JunkBytes]]

\* The byte at an offset from the start of string x.
ByteAt(x, o, junk) ==
    CASE o \in 0..(Len(x) - 1) -> x[o + 1]
      [] o = Len(x) -> 0
      [] OTHER -> junk[o % chunk]

Zero == [b \in 0..(chunk - 1) |-> 0]

\* formPartialString compares with <=, and a position of -1 passes.
ChunkAt(x, p, junk) ==
    IF p <= Len(x) \div chunk
    THEN [b \in 0..(chunk - 1) |-> ByteAt(x, chunk * p + b, junk)] ELSE Zero

\* The chunks at the positions, then the length.
formPartialString(x, ps, junk) ==
    <<[k \in DOMAIN ps |-> ChunkAt(x, ps[k], junk)], Len(x)>>

Colliding(partials) ==
    Cardinality({ab \in (DOMAIN partials) \X (DOMAIN partials) :
                   ab[1] # ab[2] /\ partials[ab[1]] = partials[ab[2]]})

evaluateEntropy(V, ps, junk) ==
    Colliding([n \in DOMAIN V |-> formPartialString(V[n], ps, junk[n])])

evaluateDatasetFixedLength(V) == V # <<>> /\ \A n \in DOMAIN V : Len(V[n]) = Len(V[1])

SelectorInit ==
    /\ stage = "enter"
    /\ mode \in Modes
    /\ \E s \in Samples : chunk = s[1] /\ input = s[2] /\ validation = s[3]
    /\ positions = <<>>
    /\ entropies = <<>>
    /\ entropy = Pairs(input)
    /\ fixedLength = FALSE
    /\ round = 0
    /\ candidate = 0
    /\ best = <<-1, 0>>

\* The head of greedyRenyiSelectorStopK, with its assertion, and of
\* greedyRenyiSelectorStopEntropy, which has none.
Enter ==
    /\ stage = "enter"
    /\ fixedLength' = evaluateDatasetFixedLength(input)
    /\ stage' = IF mode = "StopK" /\ K + Len(positions) >= maxLength
             THEN "failed" ELSE "round"
    /\ UNCHANGED <<callVars, positions, entropies, entropy, round, candidate, best>>

\* The selectors' loop conditions and breaks.
StopTest ==
    IF mode = "StopK" THEN round = K \/ Len(positions) = Chunks
    ELSE entropy <= Desired \/ Len(positions) = maxLength

Stop ==
    /\ stage = "round"
    /\ StopTest
    /\ stage' = "done"
    /\ UNCHANGED <<callVars, positions, entropies, entropy,
                   fixedLength, round, candidate, best>>

\* chooseBestPositionRenyi begins.
StartRound ==
    /\ stage = "round"
    /\ ~StopTest
    /\ stage' = "choose"
    /\ candidate' = 0
    /\ best' = <<-1, Pairs(input)>>
    /\ UNCHANGED <<callVars, positions, entropies, entropy,
                   fixedLength, round>>

\* Mutant: a later candidate wins a tie.
TryPositionTies ==
    /\ stage = "choose"
    /\ candidate < Chunks
    /\ \/ candidate \in Range(positions) /\ best' = best
       \/ /\ candidate \notin Range(positions)
          /\ \E junk \in Junk(input) :
                LET e == evaluateEntropy(input, Append(positions, candidate), junk)
                IN  best' = IF e <= best[2] THEN <<candidate, e>> ELSE best
    /\ candidate' = candidate + 1
    /\ UNCHANGED <<stage, callVars, positions, entropies, entropy,
                   fixedLength, round>>

\* Mutant: the loop does not pass a position in use.
TryPositionStuck ==
    /\ stage = "choose"
    /\ candidate < Chunks
    /\ \/ candidate \in Range(positions) /\ best' = best /\ candidate' = candidate
       \/ /\ candidate \notin Range(positions)
          /\ \E junk \in Junk(input) :
                LET e == evaluateEntropy(input, Append(positions, candidate), junk)
                IN  best' = IF e < best[2] THEN <<candidate, e>> ELSE best
          /\ candidate' = candidate + 1
    /\ UNCHANGED <<stage, callVars, positions, entropies, entropy,
                   fixedLength, round>>

\* One candidate of its loop.
TryPosition ==
    /\ stage = "choose"
    /\ candidate < Chunks
    /\ \/ candidate \in Range(positions) /\ best' = best
       \/ /\ candidate \notin Range(positions)
          /\ \E junk \in Junk(input) :
                LET e == evaluateEntropy(input, Append(positions, candidate), junk)
                IN  best' = IF e < best[2] THEN <<candidate, e>> ELSE best
    /\ candidate' = candidate + 1
    /\ UNCHANGED <<stage, callVars, positions, entropies, entropy,
                   fixedLength, round>>

\* Mutant: the validation half is measured at the new position only.
PushLast ==
    /\ stage = "choose"
    /\ candidate = Chunks
    /\ positions' = Append(positions, best[1])
    /\ \E junk \in Junk(validation) :
          entropy' = IF mode = "StopEntropy" \/ validation = input THEN best[2]
                     ELSE evaluateEntropy(validation, <<best[1]>>, junk)
    /\ entropies' = IF mode = "StopK" THEN Append(entropies, entropy') ELSE entropies
    /\ round' = round + 1
    /\ stage' = "round"
    /\ UNCHANGED <<callVars, fixedLength, candidate, best>>

\* It returns, and the selector records position and entropy, which StopK
\* measures on the validation half.
Push ==
    /\ stage = "choose"
    /\ candidate = Chunks
    /\ positions' = Append(positions, best[1])
    /\ \E junk \in Junk(validation) :
          entropy' = IF mode = "StopEntropy" \/ validation = input THEN best[2]
                     ELSE evaluateEntropy(validation, positions', junk)
    /\ entropies' = IF mode = "StopK" THEN Append(entropies, entropy') ELSE entropies
    /\ round' = round + 1
    /\ stage' = "round"
    /\ UNCHANGED <<callVars, fixedLength, candidate, best>>

\* The selector has returned or aborted.
Finished == stage \in {"done", "failed"} /\ UNCHANGED selectorVars

SelectorNext == Enter \/ Stop \/ StartRound \/ TryPosition \/ Push \/ Finished

SelectorSpec == SelectorInit /\ [][SelectorNext]_selectorVars

\* One thread, which keeps running.
FairSpec == SelectorSpec /\ WF_selectorVars(SelectorNext)

-----------------------------------------------------------------------------
(* Properties.  The reference is the comment in formPartialString: "if     *)
(* exists, use position in string. else keep 0".                           *)

StatedChunk(x, p) ==
    IF p >= 0 /\ p < Len(x) \div chunk
    THEN [b \in 0..(chunk - 1) |-> x[chunk * p + b + 1]] ELSE Zero

StatedEntropy(V, ps) ==
    Colliding([n \in DOMAIN V |-> <<[k \in DOMAIN ps |-> StatedChunk(V[n], ps[k])], Len(V[n])>>])

Chosen(n) == SubSeq(positions, 1, n)

\* Every round picks the first of the best unused positions, by the stated
\* meaning of a partial string; the dummy -1 appears only when no unused
\* position tells any two strings of the sample apart.
GreedyChoice ==
    \A n \in DOMAIN positions :
        LET before == Chosen(n - 1)
            E(p) == StatedEntropy(input, Append(before, p))
            open == 0..(Chunks - 1) \ Range(before)
            useful == {p \in open : E(p) < Pairs(input)}
            top == {p \in useful : \A q \in useful : E(p) <= E(q)}
        IN  -1 \notin Range(before) =>
              positions[n] = IF useful = {} THEN -1 ELSE Min(top)

\* The entropies written beside the locations are those of the prefixes of the
\* locations on the validation half.
ReportedEntropy ==
    \A n \in DOMAIN entropies :
        -1 \notin Range(Chosen(n)) => entropies[n] = StatedEntropy(validation, Chosen(n))

\* The selectors end.
Termination == <>(stage \in {"done", "failed"})
=============================================================================
