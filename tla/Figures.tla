-------------------------------- MODULE Figures --------------------------------
(***************************************************************************)
(* The figures that are reported of the channels and of audience research. *)
(***************************************************************************)
EXTENDS ChannelReports, SocialIntel

\* What is reported of the channels and of audience research adds up, as the two
\* modules say, as soon as there are any: no figure lost or counted twice, no order
\* that matters.
FiguresAddUp == ~(ReportInit /\ IntelInit) => ReportsAddUp /\ IntelAddsUp
================================================================================
