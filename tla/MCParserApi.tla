------------------------------ MODULE MCParserApi ------------------------------
(* Every line of at most two pairs over the numbers 0 .. IntMax + 1, and some   *)
(* longer ones: a chain, a square, a square with a diagonal, two parts.         *)
EXTENDS ShortestPath

Numbers == 0 .. IntMax + 1

PairLists == {<<p>> : p \in Numbers \X Numbers}
             \union {<<p, q>> : p, q \in Numbers \X Numbers}

LongPairLists ==
    {<< <<0, 1>>, <<1, 2>>, <<2, 3>> >>,
     << <<0, 1>>, <<1, 2>>, <<3, 2>>, <<3, 0>> >>,
     << <<0, 1>>, <<1, 3>>, <<3, 2>>, <<2, 0>>, <<1, 2>> >>,
     << <<2, 0>>, <<0, 2>>, <<3, 3>>, <<1, 1>>, <<3, 1>> >>}

MCLines ==
    {[Blank EXCEPT !.kind = k] : k \in {"badE", "other"}}
    \union {[Blank EXCEPT !.kind = "V", !.num = n] : n \in Numbers}
    \union {[Blank EXCEPT !.kind = "E", !.pairs = ps] : ps \in PairLists \union LongPairLists}
    \union {[Blank EXCEPT !.kind = "s", !.pairs = <<p>>] : p \in Numbers \X Numbers}
===============================================================================
