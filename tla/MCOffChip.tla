----------------------------- MODULE MCOffChip -----------------------------
(***************************************************************************)
(* A network of three layers behind one AXI master, as pl_mem_controller.v *)
(* has it, and one of two layers behind two.                               *)
(***************************************************************************)
EXTENDS OffChip, TLC

\* Feature maps of a convolution: the same maps are read once for each of two
\* output maps, with the coefficients of each map before it.
Convolution ==
  [l_type |-> 0,
   stream_base |-> 100, stream_size |-> 3, offset_0 |-> 10, offset_1 |-> 0, offset_2 |-> 0,
   max_0 |-> 1, max_1 |-> 1, max_2 |-> 0,
   buffer_base |-> 200, buffer_size |-> 2, buffer_offset |-> 7, buffer_max |-> 0]

\* Rows of maps, then the next rows, twice; every unit gets the same buffer.
Normalization ==
  [l_type |-> 1,
   stream_base |-> 300, stream_size |-> 4, offset_0 |-> 10, offset_1 |-> 3, offset_2 |-> 40,
   max_0 |-> 0, max_1 |-> 1, max_2 |-> 1,
   buffer_base |-> 400, buffer_size |-> 1, buffer_offset |-> 0, buffer_max |-> 1]

\* No buffer is read, and all results come from unit 0.
Pooling ==
  [l_type |-> 2,
   stream_base |-> 500, stream_size |-> 5, offset_0 |-> 20, offset_1 |-> 50, offset_2 |-> 0,
   max_0 |-> 1, max_1 |-> 0, max_2 |-> 0,
   buffer_base |-> 600, buffer_size |-> 0, buffer_offset |-> 9, buffer_max |-> 1]

Results(n, type, requests) ==
  [l_type |-> type, base |-> 1000 * n, size |-> n, offset |-> 16, max |-> requests - 1]

MCSetups ==
  {[NUM_AXI |-> 1, layers |-> 3,
    read |-> (0 :> Convolution @@ 1 :> Normalization @@ 2 :> Pooling),
    write |-> (0 :> Results(1, 0, 3) @@ 1 :> Results(2, 1, 1) @@ 2 :> Results(3, 2, 2))],
   [NUM_AXI |-> 2, layers |-> 2,
    read |-> (0 :> Normalization @@ 1 :> Convolution),
    write |-> (0 :> Results(1, 0, 3) @@ 1 :> Results(2, 1, 2))]}
=============================================================================
