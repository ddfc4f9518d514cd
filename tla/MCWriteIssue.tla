---------------------------- MODULE MCWriteIssue ----------------------------
EXTENDS WriteIssue

\* Requests of one and of two bursts.
WholeBursts == {BURST, 2 * BURST}

\* A request that ends in a part of a burst.
PartBursts == {BURST + 1}
=============================================================================
