---------------------------- MODULE MCObexServer ----------------------------
\* ObexServer with three pushes, two initialisations and an adapter that goes once.
EXTENDS ObexServer
=============================================================================
