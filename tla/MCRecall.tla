------------------------------ MODULE MCRecall ------------------------------
(***************************************************************************)
(* Small snapshots for Recall: one long memory whose answer is at every token *)
(* it can be at, and several memories of which any may be hidden or waiting.  *)
(***************************************************************************)
EXTENDS Recall

Mems == 1 .. 5
Keys == <<3, 1, 2, 2, 1>>
Times == <<2, 3, 3, 1, 4>>
Topics == <<1, 1, 2, 2, 3>>
RowOf(m, texts) == [id |-> m, base |-> 2 + (m % 2), snippet |-> m % 3, text |-> texts, cut |-> {}]
HitRows == [m \in Mems |-> RowOf(m, <<m>>)]
EventRows == [m \in Mems |-> RowOf(m, <<m, 5 - m, m % 3>>)]
Lines == <<4, 2, 3, 1, 2>>
Others == <<RowOf(7, <<2>>), RowOf(8, <<1>>), RowOf(9, <<4>>)>>

Memory(kind, len, at, near, drift, text) ==
    [kind |-> kind, len |-> len, chars |-> 0, at |-> at, near |-> near, drift |-> drift, text |-> text]

\* The answer anywhere in a long memory, beside another long one and hidden ones.
Long == {[m \in Mems |-> CASE m = 1 -> Memory("current", n, at, 1, d, 0)
                           [] m = 2 -> Memory(k2, 9, 5, n2, d, 1)
                           [] m = 5 -> Memory("current", 2, 0, 2, 0, 0)
                           [] OTHER -> Memory(k3, IF n = 12 THEN 7 ELSE 2, 1, 2, 0, 0)] :
            n \in {3, 7, 8, 9, 12}, at \in 0 .. 12, d \in 0 .. Drift,
            k2 \in {"current", "superseded", "pending"}, n2 \in {1, 2}, k3 \in {"current", "superseded", "residue"}}

\* Any memory hidden or waiting for its vector, near or far, matched by text or not,
\* and one of them found by its head and its tail, or by its tail alone.
Hidden == {[m \in Mems |-> Memory(kinds[m], IF m = 4 THEN 7 ELSE 2, IF m = 4 THEN at ELSE 1,
                                  IF m \in nears THEN 1 ELSE 2, 0, texts[m])] :
            kinds \in [Mems -> {"current", "superseded", "residue", "pending"}],
            nears \in {{}, {1, 2, 4}, {2, 3}, {5}}, texts \in {<<0, 1, 1, 2, 2>>, <<2, 0, 1, 0, 0>>},
            at \in {3, 7}}

\* A long memory whose windows are cut in characters, of short tokens or long,
\* beside another that is.
Estimated == {[m \in Mems |-> CASE m = 1 -> [Memory("current", n, at, 1, d, 0) EXCEPT !.chars = c]
                                [] m = 2 -> [Memory(k2, 9, 8, 1, 0, 1) EXCEPT !.chars = 3]
                                [] OTHER -> Memory("current", 2, 0, 2, 0, 0)] :
                 n \in {5, 9, 12}, c \in {1, 2, 3, 5}, at \in 0 .. 12, d \in 0 .. Drift,
                 k2 \in {"current", "superseded"}}

Small == Long \cup Hidden \cup Estimated

Request(strategy, vectors, surface, residue, asof, rerank, k, cap) ==
    [strategy |-> strategy, vectors |-> vectors, surface |-> surface, residue |-> residue,
     asof |-> asof, rerank |-> rerank, k |-> k, cap |-> cap]

Asks == {Request("recall", "native", "recall", FALSE, FALSE, FALSE, 2, 12),
         Request("recall", "native", "fanout", TRUE, TRUE, FALSE, 3, 20),
         Request("recall", "persisted", "recall", FALSE, TRUE, TRUE, 3, 16),
         Request("recall", "off", "block", TRUE, FALSE, FALSE, 3, 16),
         Request("union", "native", "recall", FALSE, FALSE, TRUE, 3, 9),
         Request("timeline", "off", "recall", FALSE, FALSE, FALSE, 2, 11),
         Request("events", "off", "recall", FALSE, FALSE, FALSE, 2, 10)}
=============================================================================
