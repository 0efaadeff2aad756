---------------------------- MODULE MCChartReads ----------------------------
(* Two blocks around the arrival of the fine tier and a day after it.       *)
EXTENDS ChartReads
MCTimeOf == <<16, 25>>
MCContents == {<<1>>, <<2, 1>>}
MCOldContents == {<<1>>}
MCEntityOf == <<1, 0>>
=============================================================================
