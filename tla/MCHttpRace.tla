----------------------------- MODULE MCHttpRace -----------------------------
\* TLC instance of HttpRace with the two attempts of doH3Direct.
EXTENDS HttpRace

=============================================================================
