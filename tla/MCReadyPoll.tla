---------------------------- MODULE MCReadyPoll ----------------------------
EXTENDS ReadyPoll

\* Two "no medium" answers, a unit attention, the two 04/xx ones that the code
\* tells apart, and one that settles the matter.
MCAnswers == {"3A/00", "3A/01", "06/29", "04/01", "04/02", "30/00"}
MCEmpty   == {"3A/00", "3A/01"}
MCFinal   == {"30/00"}
=============================================================================
