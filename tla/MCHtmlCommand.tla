---------------------------- MODULE MCHtmlCommand ----------------------------
(***************************************************************************)
(* A small set of requests for HtmlCommand: the page's default timing, a   *)
(* shorter one, and a longer one with a decimal; networks whose messages   *)
(* fit, just fit and do not fit the buffer, and whose names and passwords  *)
(* fill their arrays, are cut and overrun them; and a pairing code.        *)
(***************************************************************************)
EXTENDS HtmlCommand

MCDurations == { <<24, 0, 0>>, <<0, 0, 50>>, <<1, 0, 0>>, <<0, 0, 5>>, <<10, 10, 10>> }

MCTimings ==
  { [off |-> Plainly(<<24, 0, 0>>), on |-> Plainly(<<0, 0, 50>>), status |-> 170],
    [off |-> Plainly(<<1, 0, 0>>), on |-> Plainly(<<0, 0, 5>>), status |-> 85],
    [off |-> <<<<"1", ".", "5">>, <<"5", "9">>, <<"3", "0">>>>,
     on |-> Plainly(<<10, 10, 10>>), status |-> 85] }

MCNetworks ==
  { <<4, 8>>, <<31, 55>>, <<31, 56>>, <<4, 63>>, <<4, 64>>, <<4, 65>>, <<32, 8>>, <<33, 8>> }

MCGarbage == { <<31, 63>>, <<1, 8>> }
==============================================================================
