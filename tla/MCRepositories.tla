--------------------------- MODULE MCRepositories ---------------------------
\* Instances of Repositories for TLC; MCRepositories.cfg gives the bounds.
EXTENDS Repositories
=============================================================================
