------------------------------ MODULE MCDialogue ------------------------------
EXTENDS Dialogue

\* The first caller is at the standalone door, the second at the lane's, the third
\* at the standalone door again: a call that ended there may leave a pulse running
\* while the next waits for its own.  The fourth call is one the agent dials.
MCDoors == <<{"relay"}, {"lane"}, {"relay"}, {}>>
===============================================================================
