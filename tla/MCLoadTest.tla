------------------------------ MODULE MCLoadTest ------------------------------
\* Two payments and two scrapes; the names of the labels are in the .cfg.
EXTENDS LoadTest
=============================================================================
