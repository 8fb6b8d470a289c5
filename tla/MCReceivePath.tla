---------------------------- MODULE MCReceivePath ----------------------------
(* Short messages with what the searches could be misled by: a tag that    *)
(* ends in 10 (110=) and one that ends in 8 (108=).                        *)
EXTENDS ReceivePath

Plain == <<"8", "=", "x", "|", "1", "0", "=", "x", "|">>
With110 == <<"8", "=", "x", "|", "1", "1", "0", "=", "x", "|", "1", "0", "=", "x", "|">>
With108 == <<"8", "=", "x", "|", "1", "0", "8", "=", "x", "|", "1", "0", "=", "x", "|">>

Long == <<"8", "=">> \o [i \in 1 .. 20 |-> "x"] \o <<"|", "1", "0", "=", "x", "|">>

Stray == <<"x", "=", "x">>
Remainder == <<"1", "0", "=", "x", "|">>   \* the end of a message that began earlier

MCMessages == {Plain, With110, With108, Long}
MCNoise == {Stray, Remainder}
MCStreams == {<<With110, Plain, With108>>, <<Remainder, With108>>,
              <<Plain, Stray, With110, Plain>>, <<Stray, Plain, Plain>>,
              <<Long, Plain>>}
=============================================================================
