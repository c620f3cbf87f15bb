-------------------------- MODULE MCFetchScheduler --------------------------
\* One asset, so that liveness can be checked over three windows.
EXTENDS FetchScheduler

CONSTANT a

MCAssets == {a}
=============================================================================
