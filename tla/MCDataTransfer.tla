--------------------------- MODULE MCDataTransfer ---------------------------
(***************************************************************************)
(* Small instances of DataTransfer: two workers as in the code, a pool of  *)
(* two units where the code has 1 MB, a page of one unit where it has      *)
(* 4 KB, and a threshold of four units where it has 4 MB.                  *)
(***************************************************************************)
EXTENDS DataTransfer

\* Transfers of two equal parts, of one chunk and of two chunks each.
EvenSizes == {Threshold, Threshold + WorkerNumber * Page}

\* One chunk and two in the calling thread; parts of one chunk and a unit that
\* is in no part; parts of two chunks.
AllSizes == {1, Threshold - 1, Threshold + 1, Threshold + WorkerNumber * Page}
=============================================================================
