----------------------------- MODULE MCApproval -----------------------------
\* Two writes in a session: an answer to the first can arrive when the thread
\* is at rest, with the model, at the first write's step, or paused at the
\* second. Two crashes: the driver that records a decision can be killed, and
\* the one that continues it as well.
EXTENDS Approval

TwoWrites == 2
TwoCrashes == 2
=============================================================================
