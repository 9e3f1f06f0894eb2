--------------------------- MODULE MCSessionAuth ---------------------------
\* Two logins of one name at one address, one session, two requests.
EXTENDS SessionAuth
=============================================================================
