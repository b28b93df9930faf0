------------------------- MODULE MCTerminalDelivery -------------------------
EXTENDS TerminalDeliveryRefinement, TLC
CONSTANTS n, c, s
MCCarries == n :> c
MCNothing == <<>>
=============================================================================
