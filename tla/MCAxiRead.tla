----------------------------- MODULE MCAxiRead ------------------------------
(***************************************************************************)
(* A page of two bursts of two beats.  The requests: two full bursts and a *)
(* rest, wrapping around the page; a burst and a rest that start in the    *)
(* middle of another page and wrap; and a request for nothing.             *)
(***************************************************************************)
EXTENDS AxiRead

CONSTANTS p0, p1

MCPages == {p0, p1}

MCRequests == {[page |-> p0, off |-> 0, left |-> 5],
               [page |-> p1, off |-> 2, left |-> 3],
               [page |-> p0, off |-> 2, left |-> 0]}
=============================================================================
