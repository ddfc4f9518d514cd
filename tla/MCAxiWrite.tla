----------------------------- MODULE MCAxiWrite -----------------------------
EXTENDS AxiWrite

\* Requests of one and of two bursts.
WholeBursts == {BURST, 2 * BURST}
=============================================================================
