------------------------------ MODULE MCSignIn ------------------------------
EXTENDS SignIn
=============================================================================
