-------------------------- MODULE MCEntropySelector --------------------------
(* Instances of EntropySelector for TLC.                                   *)
EXTENDS EntropySelector

Vectors(S, n) == [1..n -> S]

\* Bytes: strings of different lengths, some a prefix of another.
MCStrings == {<<1>>, <<1, 1>>, <<1, 2, 1>>, <<2, 2, 1>>, <<2, 2, 1, 0>>, <<2, 1, 1, 1>>}
MCByteSamples ==
    {<<1, v, w>> : v \in Vectors(MCStrings, 3),
                   w \in {<<<<1, 2, 1>>, <<1, 1, 1>>, <<2, 2, 1>>>>,
                          <<<<1, 1, 1>>, <<2, 1, 1>>, <<2, 1, 1>>>>}}
      \cup {<<1, v, v>> : v \in Vectors(MCStrings, 3)}

\* Chunks of two bytes in strings of one length.
MCFixed == {<<1, 1, 2, 1>>, <<1, 1, 1, 1>>, <<2, 1, 1, 1>>, <<2, 1, 2, 1>>}
MCWordSamples ==
    {<<2, v, w>> : v \in Vectors(MCFixed, 3), w \in Vectors(MCFixed, 2)}

MCSamples == MCByteSamples \cup MCWordSamples

\* Chunks of two bytes in strings of different lengths.
MCMixed == {<<1, 1, 2, 1>>, <<1, 1, 1>>, <<1, 1>>, <<1, 1, 2>>}
MCMixedSamples == {<<2, v, v>> : v \in Vectors(MCMixed, 3)}
=============================================================================
