------------------------- MODULE MCExportSelection -------------------------
(***************************************************************************)
(* Four memories and four sessions over ten clock readings: a long enough   *)
(* chain of corrections, an ended and resumed session, purges.  The         *)
(* second and the fourth memory are observed with one old event_time, the    *)
(* third with one ahead of the clock; three texts give the same triple.  A   *)
(* declared valid_to is ahead of every reading, or is the third, which is    *)
(* ahead of an early memory and behind a late one.                           *)
(***************************************************************************)
EXTENDS ExportSelection

CONSTANTS alice, bob

MCSaid ==
    [n \in 1 .. MaxMem |->
        IF n = 3 THEN [entities |-> {bob}, triples |-> {}]
        ELSE [entities |-> {alice, bob}, triples |-> {<<alice, bob>>}]]

MCUntil == {0, 3, Far}
MCTold == [n \in 1 .. MaxMem |-> IF n \in {2, 4} THEN 1 ELSE IF n = 3 THEN Far ELSE 0]
=============================================================================
