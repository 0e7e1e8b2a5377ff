----------------------------- MODULE MCVcdTestbench -----------------------------
(* One input, so that every pair of vectors carries over; two outputs; two    *)
(* time steps in each clock phase.                                            *)
EXTENDS VcdTestbench

MCInputs == <<"a">>
MCOutputs == <<"y","z">>
===============================================================================
