---------------------------- MODULE MCSigmoidTable ----------------------------
(* Model-checking instance of SigmoidTable: the raw bound -50 of the code, *)
(* four bins, steepness values from invalid to above one.                  *)
EXTENDS SigmoidTable

MCSigmoidSet == {<<-1, 1>>, <<1, 2>>, <<1, 1>>, <<3, 2>>, <<2, 1>>}
MCSigmoidOne == {<<1, 1>>}
MCRawMinInput == -50
MCNoRoundErr == <<0, 1>>
MCRoundErr == <<1, 500>>
MCProbeSet == {<<-60, 1>>, <<-25, 1>>, <<-1, 3>>, <<0, 1>>, <<7, 1>>, <<25, 1>>, <<60, 1>>}
=============================================================================
