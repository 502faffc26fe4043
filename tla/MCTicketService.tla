--------------------------- MODULE MCTicketService ---------------------------
(* Two requests whose polls may overlap once.  Requests are                *)
(* interchangeable, and so are polling slots.                              *)
EXTENDS TicketService, TLC
CONSTANTS r1, r2, p1, p2
TwoRequests == {r1, r2}
NoDetector == {}
TwoPolls == {p1, p2}
OnePoll == {p1}
Symmetry == Permutations(TwoRequests) \union Permutations(TwoPolls)
=============================================================================
