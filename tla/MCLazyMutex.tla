------------------------------ MODULE MCLazyMutex ------------------------------
\* LazyMutex for TLC: three tasks racing to the first call.
EXTENDS LazyMutex
===============================================================================
