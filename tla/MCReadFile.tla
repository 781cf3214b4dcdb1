------------------------------ MODULE MCReadFile ------------------------------
(* A small instance of ReadFile, extended to have its assumption evaluated.    *)
EXTENDS ReadFile
===============================================================================
