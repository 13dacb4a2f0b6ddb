------------------------------ MODULE MCHttpSrc ------------------------------
EXTENDS HttpSrc
=============================================================================
