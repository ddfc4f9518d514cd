----------------------------- MODULE ReadService -----------------------------
(***************************************************************************)
(* What the read side of the AXI master promises to the controller that    *)
(* requests transfers and to the slave that serves them: requests are      *)
(* served in order, each as consecutive bursts of at most BURST beats that *)
(* together ask for exactly the requested number of beats.  Addresses are  *)
(* a page and an offset counted in beats; the offset wraps inside the page *)
(* of WINDOW beats.                                                        *)
(***************************************************************************)
EXTENDS Integers, Sequences

CONSTANTS BURST,   \* beats of a full burst, and the address stride of a burst
          WINDOW,  \* beats of a page
          Requests \* the requests, records with fields page, off and left

VARIABLES pending, \* requests not completely issued: [page, off, left]
          slave    \* bursts accepted and not completely returned: the same

\* The burst that serves the oldest request next.
NextBurst ==
  LET r == Head(pending)
  IN  [r EXCEPT !.left = IF r.left >= BURST THEN BURST ELSE r.left]

\* What is left of the oldest request after that burst.
AfterBurst ==
  LET r == Head(pending)
      over == r.off + BURST
  IN  [r EXCEPT !.off = IF over >= WINDOW THEN over - WINDOW ELSE over,
                !.left = r.left - NextBurst.left]

\* The requests still to be issued after an optional burst; a request of which
\* nothing is left may be forgotten.
Issued(issue) ==
  IF issue
    THEN IF AfterBurst.left = 0 THEN Tail(pending) ELSE <<AfterBurst>> \o Tail(pending)
    ELSE pending

\* The bursts the slave owes after an optional beat.
Returned(beat) ==
  IF ~beat THEN slave
  ELSE IF Head(slave).left = 1 THEN Tail(slave)
  ELSE [slave EXCEPT ![1].left = @ - 1]

\* The slave's side of an edge.
SlaveEdge(issue, beat) ==
  /\ issue => pending # <<>> /\ Head(pending).left > 0
  /\ beat => slave # <<>>
  /\ slave' = Returned(beat) \o (IF issue THEN <<NextBurst>> ELSE <<>>)

Init == pending = <<>> /\ slave = <<>>

\* The master forgets its requests; the slave keeps what it owes, a burst it
\* takes on this very edge included.
Reset(issue, beat) == SlaveEdge(issue, beat) /\ pending' = <<>>

\* One clock edge: any of a request, a burst and a beat.
Serve(new, issue, beat) ==
  SlaveEdge(issue, beat) /\ pending' = Issued(issue) \o new

\* A request for no beats needs no burst.
Skip(new, beat) ==
  /\ pending # <<>> /\ Head(pending).left = 0
  /\ pending' = Tail(pending) \o new
  /\ SlaveEdge(FALSE, beat)

\* One clock edge on which the given request, or none, is taken.
Step(reset, new) ==
  \E issue, beat \in BOOLEAN :
    IF reset THEN Reset(issue, beat)
    ELSE Serve(new, issue, beat) \/ Skip(new, beat)
=============================================================================
