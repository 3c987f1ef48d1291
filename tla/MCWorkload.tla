----------------------------- MODULE MCWorkload -----------------------------
(* Typed lines and events inside, at and beyond every limit of the code.    *)
EXTENDS Workload

MCRawCounts == {-1, 1, 3}
MCRawLines  == {<<-1, 0, 0, -1>>, <<1, 1, 1, 2>>, <<0, 3, 1, 4>>, <<0, 4, 2, 3>>}
MCRawEvents == {<<-1, -1>>, <<1, 2>>, <<2, 1>>, <<9, 0>>}
=============================================================================
