----------------------------- MODULE MCBargeIn -----------------------------
\* The sessions of BargeIn that the runs look at: two turns, so that an
\* interruption can reach past the reply it cuts off; three words, so that a
\* reply can be partly heard and partly queued, and call a tool between words.
EXTENDS BargeIn

TwoTurns == 2
ThreeWords == 3
=============================================================================
