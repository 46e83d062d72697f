------------------------------ MODULE MCTracker ------------------------------
(***************************************************************************)
(* One torrent, and one client that may announce again before it is        *)
(* answered.                                                               *)
(***************************************************************************)
EXTENDS Tracker

\* Requests are interchangeable: of two that are idle, the first is the one
\* that comes in.
First == CHOOSE h \in Handler : TRUE

FirstComesFirst ==
    \A h \in Handler \ {First} :
        announce[First] = Idle /\ announce[h] = Idle => announce'[h] = Idle
=============================================================================
