---------------------------- MODULE MCPanelViews ----------------------------
(***************************************************************************)
(* TLC instance of PanelViews.                                             *)
(***************************************************************************)
EXTENDS PanelViews

\* The three percentages add up to 100, give or take a rounding.
ASSUME PercentagesAddUp ==
    \A e, r, m \in 0 .. 12 :
       LET total == e + r + m
       IN total > 0 =>
             Percentage(e, total) + Percentage(r, total) + Percentage(m, total)
                \in 99 .. 101
=============================================================================
