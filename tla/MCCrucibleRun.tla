----------------------------- MODULE MCCrucibleRun -----------------------------
\* The commands of the run: the full sequence, and single milestones.
EXTENDS CrucibleRun

MCCommands == {Full, <<"hpo">>, <<"perturbation">>, <<"paper_replay">>}
=============================================================================
